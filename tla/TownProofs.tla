----------------------------- MODULE TownProofs -----------------------------
(***************************************************************************)
(* Theorems about the parts of Town, for every set of bidders, deliveries, *)
(* passes, claims, guilds, tasks and incomes, every amount and every bound *)
(* (the suspect flag: every lifetime of two refresh periods or more).      *)
(* The last one puts the parts together, with those of FeedProofs.         *)
(***************************************************************************)
EXTENDS Town, FeedProofs

(* ----- The auction escrow -----                                          *)
Ops == {"none", "escrow", "refund", "settle"}
Ats == {"idle", "sent", "checked", "posted", "refused"}
Bids == 0 .. MaxBid
Who  == Bidder \cup {Treasury, Unknown}
Calls == [op : Ops, who : Who, amt : Bids, at : Ats]
Leads == [who : Who, amt : Bids]

AuctionTypes ==
  /\ escrow \in Int /\ lost \in Nat
  /\ call \in [Lot -> Calls] /\ lead \in [Lot -> Leads]

(* A settlement is about the highest bid; no request, no step.             *)
Requests == \A l \in Lot :
  /\ call[l].op = "settle" => call[l].amt = lead[l].amt
  /\ (call[l].op = "none") <=> (call[l].at = "idle")

Stakes == [l \in Lot |-> Stake(l)]
Backed == escrow + lost * MaxBid >= SumFunction(Stakes)

AuctionInv == AuctionTypes /\ Requests /\ Backed

LEMMA AuctionInitInv == AuctionInit => AuctionInv
<1> SUFFICES ASSUME AuctionInit PROVE AuctionInv
  OBVIOUS
<1>1. AuctionTypes /\ Requests
  BY AuctionAssumption
     DEF AuctionInit, AuctionTypes, Requests, NoCall, NoBid, Ops, Ats, Bids, Who,
         Calls, Leads
<1>2. \A l \in Lot : Stakes[l] = 0
  BY DEF AuctionInit, Stakes, Stake, NoCall, NoBid
<1>3. SumFunction(Stakes) = 0
  BY <1>2, AuctionAssumption, TotalZero DEF Stakes
<1>4. escrow = 0 /\ lost * MaxBid = 0
  BY AuctionAssumption DEF AuctionInit
<1> QED BY <1>1, <1>3, <1>4 DEF AuctionInv, Backed

(* What one auction's step does: it changes its own request and its own    *)
(* lead, moves n into the pool and loses k answers.                        *)
LEMMA AuctionStep ==
  ASSUME AuctionInv, NEW l \in Lot, NEW r \in Calls, NEW b \in Leads, NEW n \in Int, NEW k \in Nat,
         call' = [call EXCEPT ![l] = r], lead' = [lead EXCEPT ![l] = b],
         r.op = "settle" => r.amt = b.amt,
         (r.op = "none") <=> (r.at = "idle"),
         escrow' = escrow + n, lost' = lost + k,
         Stake(l)' <= Stake(l) + n + k * MaxBid
  PROVE  AuctionInv'
<1>1. /\ call'[l] = r /\ lead'[l] = b
      /\ \A m \in Lot \ {l} : call'[m] = call[m] /\ lead'[m] = lead[m]
  BY DEF AuctionInv, AuctionTypes
<1>2. AuctionTypes'
  BY <1>1 DEF AuctionInv, AuctionTypes
<1>3. Requests'
  BY <1>1 DEF AuctionInv, AuctionTypes, Requests
<1>4. /\ \A m \in Lot : Stake(m) \in Int /\ Stake(m)' \in Int
      /\ Stakes' = [Stakes EXCEPT ![l] = Stake(l)'] /\ Stakes[l] = Stake(l)
  <2>1. \A m \in Lot : Stake(m) \in Int /\ Stake(m)' \in Int
    BY <1>2, AuctionAssumption DEF AuctionInv, AuctionTypes, Stake, Bids, Calls, Leads
  <2>2. \A m \in Lot \ {l} : Stake(m)' = Stake(m)
    BY <1>1 DEF Stake
  <2> QED BY <2>1, <2>2 DEF Stakes
<1>5. /\ Stakes \in [Lot -> Int] /\ IsFiniteSet(Lot) /\ Stake(l)' \in Int
      /\ Stake(l) \in Int
  BY <1>4, AuctionAssumption DEF Stakes
<1>6. SumFunction(Stakes') = SumFunction(Stakes) + Stake(l)' - Stake(l)
  <2> DEFINE v == Stake(l)'
  <2>1. v \in Int /\ Stakes' = [Stakes EXCEPT ![l] = v] /\ Stakes[l] = Stake(l)
    BY <1>4
  <2> HIDE DEF v
  <2>2. SumFunction(Stakes') = SumFunction(Stakes) + v - Stakes[l]
    BY <1>5, <2>1, TotalChanged
  <2> QED BY <2>1, <2>2 DEF v
<1>7. SumFunction(Stakes) \in Int
  BY <1>5, TotalInt
<1>8. Backed'
  <2>1. (lost + k) * MaxBid = lost * MaxBid + k * MaxBid
        /\ lost * MaxBid \in Int /\ k * MaxBid \in Int /\ escrow \in Int
    BY AuctionAssumption DEF AuctionInv, AuctionTypes
  <2> QED BY <1>5, <1>6, <1>7, <2>1 DEF AuctionInv, Backed
<1> QED BY <1>2, <1>3, <1>8 DEF AuctionInv

(* The stake of an auction with request q and lead d.                      *)
Held(q, d) ==
  IF q.op = "settle" /\ q.at = "posted" THEN 0
  ELSE d.amt +
    IF \/ q.op = "escrow" /\ q.at = "posted"
       \/ q.op = "refund" /\ q.at # "posted" THEN q.amt ELSE 0

LEMMA AuctionStepInv ==
  ASSUME AuctionInv, NEW l \in Lot,
         Bid(l) \/ Hammer(l) \/ Answered(l) \/ Refused(l) \/ AnswerLost(l)
         \/ CheckBalance(l) \/ Post(l)
  PROVE  AuctionInv'
<1> DEFINE r == call[l]
           b == lead[l]
           old == Stake(l)
<1>1. /\ call \in [Lot -> Calls] /\ lead \in [Lot -> Leads]
      /\ r \in Calls /\ b \in Leads
      /\ r.op \in Ops /\ r.who \in Who /\ r.amt \in Bids /\ r.at \in Ats
      /\ b.who \in Who /\ b.amt \in Bids
      /\ r.op = "settle" => r.amt = b.amt
      /\ (r.op = "none") <=> (r.at = "idle")
      /\ escrow \in Int /\ lost \in Nat /\ 0 \in Int /\ MaxBid \in Nat
      /\ 0 * MaxBid = 0 /\ 1 * MaxBid = MaxBid /\ lost + 0 = lost
      /\ escrow + 0 = escrow
  BY AuctionAssumption DEF AuctionInv, AuctionTypes, Requests, Calls, Leads
<1>2. /\ \A n \in Bids : n \in Int /\ n >= 0 /\ n <= MaxBid
      /\ 0 \in Bids
  BY <1>1 DEF Bids
<1>3. old = Held(r, b) /\ \A q \in Calls, d \in Leads : Held(q, d) \in Int
  BY <1>1 DEF Stake, Held, Calls, Leads, Bids
<1>4. ASSUME NEW q \in Calls, NEW d \in Leads, NEW n \in Int, NEW k \in Nat,
             call' = [call EXCEPT ![l] = q], lead' = [lead EXCEPT ![l] = d],
             q.op = "settle" => q.amt = d.amt,
             (q.op = "none") <=> (q.at = "idle"),
             escrow' = escrow + n, lost' = lost + k,
             Held(q, d) <= old + n + k * MaxBid
      PROVE  AuctionInv'
  <2>1. call'[l] = q /\ lead'[l] = d
    BY <1>1, <1>4
  <2>2. Stake(l)' <= Stake(l) + n + k * MaxBid
    BY <1>4, <2>1 DEF Stake, Held
  <2> QED BY <1>4, <2>2, AuctionStep
<1> HIDE DEF old, r, b
<1>5. CASE Bid(l)
  <2>1. PICK c \in Bidder, x \in (b.amt + 1) .. MaxBid :
          /\ r.at = "idle" /\ call' = [call EXCEPT ![l] = Request("escrow", [who |-> c, amt |-> x])]
          /\ UNCHANGED <<escrow, lead, lost>>
    BY <1>5 DEF Bid, r, b
  <2> DEFINE q == [op |-> "escrow", who |-> c, amt |-> x, at |-> "sent"]
  <2>2. /\ call' = [call EXCEPT ![l] = q] /\ lead' = [lead EXCEPT ![l] = b]
    BY <1>1, <2>1 DEF Request, b
  <2>3. q \in Calls /\ q.op = "escrow" /\ q.at = "sent"
    BY <1>1, <1>2, <2>1 DEF Calls, Ops, Ats, Bids, Who
  <2> HIDE DEF q
  <2>4. escrow' = escrow + 0 /\ lost' = lost + 0
    BY <1>1, <2>1
  <2>5. Held(q, b) = b.amt /\ old = b.amt
    BY <1>1, <1>2, <1>3, <2>1, <2>3 DEF Held
  <2>6. Held(q, b) <= old + 0 + 0 * MaxBid
    BY <1>1, <1>2, <2>5
  <2> QED BY <1>1, <1>4, <2>1, <2>2, <2>3, <2>4, <2>6
<1>6. CASE Hammer(l)
  <2>1. PICK who \in Seller :
          /\ r.at = "idle" /\ call' = [call EXCEPT ![l] = Request("settle", [b EXCEPT !.who = who])]
          /\ UNCHANGED <<escrow, lead, lost>>
    BY <1>6 DEF Hammer, r, b
  <2> DEFINE q == [op |-> "settle", who |-> who, amt |-> b.amt, at |-> "sent"]
  <2>2. /\ call' = [call EXCEPT ![l] = q] /\ lead' = [lead EXCEPT ![l] = b]
    BY <1>1, <2>1 DEF Request, b, Leads
  <2>3. q \in Calls /\ q.op = "settle" /\ q.at = "sent" /\ q.amt = b.amt
    BY <1>1, <2>1, AuctionAssumption DEF Calls, Ops, Ats, Who
  <2> HIDE DEF q
  <2>4. escrow' = escrow + 0 /\ lost' = lost + 0
    BY <1>1, <2>1
  <2>5. Held(q, b) = b.amt /\ old = b.amt
    BY <1>1, <1>2, <1>3, <2>1, <2>3 DEF Held
  <2>6. Held(q, b) <= old + 0 + 0 * MaxBid
    BY <1>1, <1>2, <2>5
  <2> QED BY <1>1, <1>4, <2>1, <2>2, <2>3, <2>4, <2>6
<1>7. CASE Answered(l)
  <2> DEFINE d == CASE r.op = "escrow" -> [who |-> r.who, amt |-> r.amt]
                    [] r.op = "settle" -> NoBid
                    [] OTHER -> b
             q == IF r.op = "escrow" /\ b.amt > 0 THEN Request("refund", b) ELSE NoCall
  <2>1. /\ r.at = "posted" /\ call' = [call EXCEPT ![l] = q]
        /\ lead' = [lead EXCEPT ![l] = d] /\ UNCHANGED <<escrow, lost>>
    BY <1>7 DEF Answered, r, b
  <2>2. d \in Leads /\ q \in Calls
    BY <1>1, <1>2 DEF Leads, Calls, NoBid, NoCall, Request, Ops, Ats, Who
  <2>3. escrow' = escrow + 0 /\ lost' = lost + 0
    BY <1>1, <2>1
  <2>4. /\ (q.op = "none") <=> (q.at = "idle")
        /\ q.op # "settle" /\ q.op # "escrow" /\ q.at # "posted"
    BY DEF Request, NoCall
  <2>5. /\ r.op = "escrow" => /\ d.amt = r.amt
                              /\ b.amt > 0 => q.op = "refund" /\ q.amt = b.amt
                              /\ ~(b.amt > 0) => q.op = "none"
        /\ r.op = "settle" => d.amt = 0 /\ q.op = "none"
        /\ r.op \notin {"escrow", "settle"} => d.amt = b.amt /\ q.op = "none"
    BY DEF Request, NoCall, NoBid
  <2> HIDE DEF d, q
  <2>6. Held(q, d) = old
    <3>1. /\ r.amt \in Int /\ r.amt >= 0
          /\ b.amt \in Int /\ b.amt >= 0
      BY <1>1, <1>2
    <3>2. CASE r.op = "escrow" /\ b.amt > 0
      BY <1>3, <2>1, <2>2, <2>4, <2>5, <3>1, <3>2 DEF Held
    <3>3. CASE r.op = "escrow" /\ b.amt = 0
      BY <1>3, <2>1, <2>2, <2>4, <2>5, <3>1, <3>3 DEF Held
    <3>4. CASE r.op = "settle"
      BY <1>3, <2>1, <2>2, <2>4, <2>5, <3>1, <3>4 DEF Held
    <3>5. CASE r.op \notin {"escrow", "settle"}
      BY <1>3, <2>1, <2>2, <2>4, <2>5, <3>1, <3>5 DEF Held
    <3> QED BY <3>1, <3>2, <3>3, <3>4, <3>5
  <2>7. Held(q, d) <= old + 0 + 0 * MaxBid
    BY <1>1, <1>3, <2>2, <2>6
  <2> QED BY <1>1, <1>4, <2>1, <2>2, <2>3, <2>4, <2>7
<1>8. CASE Refused(l)
  <2> DEFINE q == IF r.op = "escrow" THEN NoCall ELSE [r EXCEPT !.at = "sent"]
  <2>1. /\ r.at = "refused" /\ call' = [call EXCEPT ![l] = q]
        /\ UNCHANGED <<escrow, lead, lost>>
    BY <1>8 DEF Refused, r
  <2>2. /\ q \in Calls /\ lead' = [lead EXCEPT ![l] = b]
        /\ escrow' = escrow + 0 /\ lost' = lost + 0
        /\ (r.op = "escrow" /\ q.op = "none" /\ q.at = "idle")
           \/ (r.op # "escrow" /\ q.op = r.op /\ q.at = "sent" /\ q.amt = r.amt)
    BY <1>1, <1>2, <2>1 DEF b, Calls, NoCall, Ops, Ats, Who
  <2> HIDE DEF q
  <2>3. Held(q, b) <= old
    BY <1>1, <1>2, <1>3, <2>1, <2>2 DEF Held
  <2>4. Held(q, b) <= old + 0 + 0 * MaxBid
    BY <1>1, <1>3, <2>2, <2>3
  <2> QED BY <1>1, <1>4, <2>1, <2>2, <2>4
<1>9. CASE AnswerLost(l)
  <2> DEFINE q == [r EXCEPT !.at = "sent"]
  <2>1. /\ r.at = "posted" /\ call' = [call EXCEPT ![l] = q]
        /\ UNCHANGED <<escrow, lead>> /\ lost' = lost + 1
    BY <1>9 DEF AnswerLost, r
  <2>2. /\ q \in Calls /\ lead' = [lead EXCEPT ![l] = b]
        /\ escrow' = escrow + 0
        /\ q.op = r.op /\ q.at = "sent" /\ q.amt = r.amt
    BY <1>1, <2>1 DEF b, Calls, Ats
  <2> HIDE DEF q
  <2>3. Held(q, b) <= old + MaxBid
    <3>1. /\ r.amt \in Int /\ r.amt >= 0 /\ r.amt <= MaxBid
          /\ b.amt \in Int /\ b.amt >= 0 /\ b.amt <= MaxBid /\ MaxBid \in Int
      BY <1>1, <1>2
    <3>2. CASE r.op = "escrow"
      BY <1>3, <2>1, <2>2, <3>1, <3>2 DEF Held
    <3>3. CASE r.op = "refund"
      BY <1>3, <2>1, <2>2, <3>1, <3>3 DEF Held
    <3>4. CASE r.op = "settle"
      BY <1>3, <2>1, <2>2, <3>1, <3>4 DEF Held
    <3> QED BY <1>1, <2>1, <3>2, <3>3, <3>4 DEF Ops
  <2>4. Held(q, b) <= old + 0 + 1 * MaxBid
    BY <1>1, <1>3, <2>2, <2>3
  <2> QED BY <1>1, <1>4, <2>1, <2>2, <2>4
<1>10. CASE CheckBalance(l)
  <2> DEFINE at == IF Sufficient(l) /\ SellerFound(l) THEN "checked" ELSE "refused"
             q == [r EXCEPT !.at = at]
  <2>1. /\ r.at = "sent" /\ call' = [call EXCEPT ![l] = q]
        /\ UNCHANGED <<escrow, lead, lost>>
    BY <1>10 DEF CheckBalance, r
  <2>0. at \in Ats /\ at # "posted" /\ at # "idle"
    BY DEF Ats
  <2> HIDE DEF at
  <2>2. /\ q \in Calls /\ lead' = [lead EXCEPT ![l] = b]
        /\ escrow' = escrow + 0 /\ lost' = lost + 0
        /\ q.op = r.op /\ q.at = at /\ q.amt = r.amt
    BY <1>1, <2>0, <2>1 DEF b, Calls
  <2> HIDE DEF q
  <2>3. Held(q, b) <= old
    BY <1>1, <1>2, <1>3, <2>0, <2>1, <2>2 DEF Held
  <2>4. Held(q, b) <= old + 0 + 0 * MaxBid
    BY <1>1, <1>3, <2>2, <2>3
  <2> QED BY <1>1, <1>4, <2>0, <2>1, <2>2, <2>4
<1>11. CASE Post(l)
  <2> DEFINE q == [r EXCEPT !.at = "posted"]
             n == IF r.op = "escrow" THEN r.amt ELSE -r.amt
  <2>1. /\ r.at = "checked" /\ call' = [call EXCEPT ![l] = q]
        /\ r.op \in {"escrow", "refund", "settle"}
        /\ escrow' = (IF r.op = "escrow" THEN escrow + r.amt ELSE escrow - r.amt)
        /\ UNCHANGED <<lead, lost>>
    BY <1>11 DEF Post, PostEscrow, PostRefund, PostSettle, r
  <2>2. /\ q \in Calls /\ lead' = [lead EXCEPT ![l] = b]
        /\ escrow' = escrow + n /\ lost' = lost + 0 /\ n \in Int
        /\ q.op = r.op /\ q.at = "posted" /\ q.amt = r.amt
    BY <1>1, <1>2, <2>1 DEF b, Calls, Ats
  <2> HIDE DEF q
  <2>3. Held(q, b) = old + n
    BY <1>1, <1>2, <1>3, <2>1, <2>2 DEF Held
  <2> HIDE DEF n
  <2>4. Held(q, b) <= old + n + 0 * MaxBid
    BY <1>1, <1>3, <2>2, <2>3
  <2> QED BY <1>1, <1>4, <2>1, <2>2, <2>4
<1> QED BY <1>5, <1>6, <1>7, <1>8, <1>9, <1>10, <1>11

(* The pool holds the bids of every open auction, whatever the requests of *)
(* the auctions interleave with, less at most one bid for each answer lost.*)
THEOREM AuctionsAreBacked == AuctionSpec => []EscrowBacksBids
<1>1. AuctionInv /\ [AuctionNext]_auctionVars => AuctionInv'
  <2> SUFFICES ASSUME AuctionInv, [AuctionNext]_auctionVars PROVE AuctionInv'
    OBVIOUS
  <2>1. CASE AuctionNext
    BY <2>1, AuctionStepInv DEF AuctionNext
  <2>2. CASE UNCHANGED auctionVars
    BY <2>2 DEF auctionVars, AuctionInv, AuctionTypes, Requests, Backed, Stakes, Stake
  <2> QED BY <2>1, <2>2
<1>2. AuctionInv => EscrowBacksBids
  <2> SUFFICES ASSUME AuctionInv PROVE EscrowBacksBids
    OBVIOUS
  <2>1. \A m \in Lot : Stake(m) \in Int
    BY AuctionAssumption DEF AuctionInv, AuctionTypes, Stake, Bids, Calls, Leads
  <2>2. SumFunction(Stakes) \in Int
    BY <2>1, AuctionAssumption, TotalInt DEF Stakes
  <2>3. lost * MaxBid \in Int /\ escrow \in Int
    BY AuctionAssumption DEF AuctionInv, AuctionTypes
  <2> QED BY <2>2, <2>3 DEF AuctionInv, Backed, EscrowBacksBids, Stakes
<1> QED BY <1>1, <1>2, AuctionInitInv, PTL DEF AuctionSpec

-----------------------------------------------------------------------------
(* ----- Supply chain events -----                                         *)
NextFrames  == [at : {"next"}, who : Character, qty : Nat, seen : [Objective -> Nat],
                todo : SUBSET Objective]
CountFrames == [at : {"count"}, objective : Objective, qty : Nat, then : NextFrames]
TaskFrames  == {NoTask} \cup NextFrames \cup CountFrames

GroupFrames == [at : {"group"}, pool : Nat, todo : SUBSET Objective]
PayFrames   == [at : {"pay"}, bill : [Character -> Nat], due : SUBSET Character,
                then : GroupFrames]
PassFrames  == {NoPass, [at |-> "mark"]} \cup GroupFrames \cup PayFrames

ChainTypes ==
  /\ objectives \subseteq Objective
  /\ given \in [Objective -> [Character -> Nat]]
  /\ fulfilled \in [Objective -> Nat]
  /\ uncounted \in [Objective -> Nat]
  /\ task \in [Task -> TaskFrames]
  /\ pass \in [Pass -> PassFrames]
  /\ fund \in Int
  /\ paid \in [Character -> Nat] /\ served \in [Character -> Nat]
  /\ passes \in Nat

(* Passes that share money out find the event ended, so that its           *)
(* objectives no longer change, and one of them primary.                   *)
Sharing(frame) == frame.at \in {"group", "pay"}
SharedWhenEnded ==
  \A p \in Pass : Sharing(pass[p]) => stage = "ended" /\ Primary \in objectives

LEMMA ChainFacts ==
  /\ IsFiniteSet(Character) /\ IsFiniteSet(Objective) /\ IsFiniteSet(Task)
  /\ IsFiniteSet(Pass) /\ Primary \in Objective
  /\ Weight \in [Objective -> Nat \ {0}] /\ Ceiling \in [Objective -> Nat]
  /\ Rate \in Nat /\ MaxQuantity \in Nat /\ Treasure \in Nat
BY SupplyChainAssumption

(* ----- What counts and what was contributed -----                        *)
Counted(frame, o) == IF Counts(frame, o) THEN frame.qty ELSE 0
Counting(o) == [t \in Task |-> Counted(task[t], o)]

LEMMA CountedType ==
  ASSUME NEW frame \in TaskFrames, NEW o \in Objective
  PROVE  Counted(frame, o) \in Nat
BY DEF TaskFrames, CountFrames, NextFrames, NoTask, Counted, Counts

LEMMA PendingType ==
  ASSUME ChainTypes, NEW o \in Objective
  PROVE  /\ Counting(o) \in [Task -> Nat] /\ Pending(o) = SumFunction(Counting(o))
         /\ Pending(o) \in Nat
<1>1. Counting(o) \in [Task -> Nat]
  BY CountedType DEF ChainTypes, Counting
<1>2. Pending(o) = SumFunction(Counting(o))
  BY DEF Pending, Counting, Counted
<1> QED BY <1>1, <1>2, ChainFacts, TotalNat

LEMMA TaskMoves ==
  ASSUME ChainTypes, NEW t \in Task, NEW frame \in TaskFrames,
         task' = [task EXCEPT ![t] = frame], NEW o \in Objective
  PROVE  /\ Pending(o)' = Pending(o) + Counted(frame, o) - Counted(task[t], o)
         /\ Pending(o) \in Nat
<1>1. /\ Counting(o) \in [Task -> Int] /\ Counted(frame, o) \in Int
      /\ Counting(o)[t] = Counted(task[t], o)
  <2>1. /\ \A u \in Task : task[u] \in TaskFrames /\ Counted(task[u], o) \in Nat
        /\ Counted(frame, o) \in Nat
    BY CountedType DEF ChainTypes
  <2> QED BY <2>1 DEF Counting
<1>2. Counting(o)' = [Counting(o) EXCEPT ![t] = Counted(frame, o)]
  BY DEF Counting, ChainTypes
<1>3. Pending(o)' = SumFunction(Counting(o)')
  BY DEF Pending, Counting, Counted
<1> DEFINE g == Counting(o)
           v == Counted(frame, o)
<1>4. g \in [Task -> Int] /\ v \in Int /\ IsFiniteSet(Task)
  BY <1>1, ChainFacts
<1>5. Pending(o)' = SumFunction([g EXCEPT ![t] = v])
  BY <1>2, <1>3
<1>6. g[t] = Counted(task[t], o)
  BY <1>1
<1>7. Pending(o) = SumFunction(g)
  BY PendingType
<1>8. v = Counted(frame, o)
  OBVIOUS
<1> HIDE DEF g, v
<1>9. SumFunction([g EXCEPT ![t] = v]) = SumFunction(g) + v - g[t]
  BY <1>4, TotalChanged
<1>10. Pending(o) \in Nat
  BY PendingType
<1> QED BY <1>5, <1>6, <1>7, <1>8, <1>9, <1>10

(* ----- What the passes may still give -----                              *)
Shares(pool) ==
  [o \in Objective |-> (pool * Weight[o]) \div SumFunctionOnSet(Weight, objectives)]
Undistributed(frame) == SumFunctionOnSet(Shares(frame.pool), frame.todo)
Owed(frame) == [c \in Character |-> IF c \in frame.due THEN frame.bill[c] ELSE 0]
Left(frame) ==
  IF frame.at = "group" THEN Undistributed(frame)
  ELSE IF frame.at = "pay" THEN SumFunction(Owed(frame)) + Undistributed(frame.then)
  ELSE 0
Lefts == [p \in Pass |-> Left(pass[p])]

Spent == SumFunction(paid) + SumFunction(served) + SumFunction(Lefts)

ChainInv ==
  /\ ChainTypes /\ SharedWhenEnded /\ FulfilledCountsContributions
  /\ Spent <= passes * Rate * Ceiling[Primary]

(* Parts of n by whole weights, each rounded down, are at most n.          *)
LEMMA FloorShares ==
  ASSUME NEW S, IsFiniteSet(S), NEW w, \A x \in S : w[x] \in Nat,
         NEW n \in Nat, SumFunctionOnSet(w, S) >= 1,
         NEW g, \A x \in S : g[x] = (n * w[x]) \div SumFunctionOnSet(w, S)
  PROVE  /\ \A x \in S : g[x] \in Nat
         /\ SumFunctionOnSet(g, S) \in Nat
         /\ SumFunctionOnSet(g, S) <= n
<1> DEFINE T == SumFunctionOnSet(w, S)
<1>1. T \in Nat /\ T >= 1
  BY SumNat
<1>2. \A x \in S : g[x] = (n * w[x]) \div T
  OBVIOUS
<1> HIDE DEF T
<1>3. \A x \in Nat : (n * x) \div T \in Nat /\ T * ((n * x) \div T) <= n * x /\ n * x \in Nat
  BY <1>1
<1>4. \A x \in S : g[x] \in Nat /\ T * g[x] <= n * w[x] /\ n * w[x] \in Nat /\ T * g[x] \in Int
  BY <1>1, <1>2, <1>3
<1> DEFINE lhs == [x \in S |-> T * g[x]]
           rhs == [x \in S |-> n * w[x]]
<1>5. /\ SumFunctionOnSet(lhs, S) = T * SumFunctionOnSet(g, S)
      /\ SumFunctionOnSet(rhs, S) = n * T
  <2>1. \A x \in S : g[x] \in Int /\ w[x] \in Int /\ lhs[x] = T * g[x] /\ rhs[x] = n * w[x]
    BY <1>4
  <2> HIDE DEF lhs, rhs
  <2>2. SumFunctionOnSet(lhs, S) = T * SumFunctionOnSet(g, S)
    BY <1>1, <2>1, SumTimes
  <2>3. SumFunctionOnSet(rhs, S) = n * SumFunctionOnSet(w, S)
    BY <2>1, SumTimes
  <2> QED BY <2>2, <2>3 DEF T
<1>6. SumFunctionOnSet(lhs, S) <= SumFunctionOnSet(rhs, S)
  <2>1. \A x \in S : lhs[x] \in Int /\ rhs[x] \in Int /\ lhs[x] <= rhs[x]
    BY <1>4
  <2> HIDE DEF lhs, rhs
  <2> QED BY <2>1, SumLeq
<1>7. SumFunctionOnSet(g, S) \in Nat
  BY <1>4, SumNat
<1>8. \A s \in Nat : T * s <= n * T => s <= n
  <2> SUFFICES ASSUME NEW s \in Nat, s > n PROVE T * s > n * T
    BY <1>1
  <2>1. s - n \in Nat /\ s - n >= 1 /\ s = n + (s - n)
    OBVIOUS
  <2>2. T * s = T * n + T * (s - n) /\ T * (s - n) >= 1 /\ T * n = n * T
    BY <1>1, <2>1
  <2> QED BY <1>1, <2>1, <2>2
<1> QED BY <1>4, <1>5, <1>6, <1>7, <1>8

LEMMA WeightOf ==
  ASSUME objectives \subseteq Objective, Primary \in objectives
  PROVE  /\ SumFunctionOnSet(Weight, objectives) \in Nat
         /\ SumFunctionOnSet(Weight, objectives) >= 1
         /\ IsFiniteSet(objectives)
<1>1. /\ IsFiniteSet(objectives) /\ IsFiniteSet(objectives \ {Primary})
      /\ \A o \in objectives : Weight[o] \in Nat /\ Weight[o] \in Int
      /\ Weight[Primary] >= 1 /\ Weight[Primary] \in Nat
  BY ChainFacts, FS_Subset
<1>2. SumFunctionOnSet(Weight, objectives)
        = Weight[Primary] + SumFunctionOnSet(Weight, objectives \ {Primary})
  BY <1>1, SumTake
<1>3. SumFunctionOnSet(Weight, objectives \ {Primary}) \in Nat
  BY <1>1, SumNat
<1> QED BY <1>1, <1>2, <1>3

LEMMA SharesFit ==
  ASSUME objectives \subseteq Objective, Primary \in objectives, NEW n \in Nat
  PROVE  /\ Shares(n) \in [Objective -> Nat]
         /\ SumFunctionOnSet(Shares(n), objectives) <= n
<1> DEFINE T == SumFunctionOnSet(Weight, objectives)
           g == Shares(n)
<1>1. T \in Nat /\ T >= 1 /\ IsFiniteSet(objectives)
  BY WeightOf
<1>2. \A o \in Objective : Weight[o] \in Nat /\ n * Weight[o] \in Nat
  BY ChainFacts
<1>3. g = [o \in Objective |-> (n * Weight[o]) \div T]
  BY DEF Shares
<1>4. g \in [Objective -> Nat]
  <2> HIDE DEF T, g
  <2>1. \A m \in Nat : m \div T \in Nat
    BY <1>1
  <2> QED BY <1>2, <1>3, <2>1
<1>5. \A o \in objectives : g[o] = (n * Weight[o]) \div SumFunctionOnSet(Weight, objectives)
  BY <1>3
<1> HIDE DEF g
<1>6. SumFunctionOnSet(g, objectives) <= n
  BY <1>1, <1>2, <1>5, FloorShares
<1> QED BY <1>4, <1>6 DEF g

LEMMA UndistributedType ==
  ASSUME objectives \subseteq Objective, Primary \in objectives, NEW frame \in GroupFrames
  PROVE  Undistributed(frame) \in Nat
<1>1. frame.pool \in Nat /\ frame.todo \subseteq Objective /\ IsFiniteSet(frame.todo)
  BY ChainFacts, FS_Subset DEF GroupFrames
<1>2. Shares(frame.pool) \in [Objective -> Nat]
  BY <1>1, SharesFit
<1>3. \A o \in frame.todo : Shares(frame.pool)[o] \in Nat
  BY <1>1, <1>2
<1> QED BY <1>1, <1>3, SumNat DEF Undistributed

LEMMA OwedType ==
  ASSUME NEW frame \in PayFrames
  PROVE  Owed(frame) \in [Character -> Nat] /\ SumFunction(Owed(frame)) \in Nat
<1>1. \A c \in Character : frame.bill[c] \in Nat
  BY DEF PayFrames
<1>2. Owed(frame) \in [Character -> Nat]
  BY <1>1 DEF Owed
<1> QED BY <1>2, ChainFacts, TotalNat

LEMMA FrameShapes ==
  /\ \A f \in GroupFrames : f.at = "group" /\ f.pool \in Nat /\ f.todo \subseteq Objective
  /\ \A f \in PayFrames : /\ f.at = "pay" /\ f.bill \in [Character -> Nat]
                          /\ f.due \subseteq Character /\ f.then \in GroupFrames
  /\ \A f \in PassFrames : /\ f.at \in {"idle", "mark", "group", "pay"}
                           /\ f.at = "group" => f \in GroupFrames
                           /\ f.at = "pay" => f \in PayFrames
                           /\ f.at = "idle" => f = NoPass
<1>1. /\ \A f \in GroupFrames : f.at = "group" /\ f.pool \in Nat /\ f.todo \subseteq Objective
      /\ \A f \in PayFrames : /\ f.at = "pay" /\ f.bill \in [Character -> Nat]
                              /\ f.due \subseteq Character /\ f.then \in GroupFrames
  BY DEF GroupFrames, PayFrames
<1>2. NoPass.at = "idle" /\ [at |-> "mark"].at = "mark"
  BY DEF NoPass
<1> QED BY <1>1, <1>2 DEF PassFrames

LEMMA LeftType ==
  ASSUME objectives \subseteq Objective, NEW frame \in PassFrames,
         Sharing(frame) => Primary \in objectives
  PROVE  Left(frame) \in Nat
<1>1. CASE frame.at = "group"
  BY <1>1, FrameShapes, UndistributedType DEF Left, Sharing
<1>2. CASE frame.at = "pay"
  <2>1. frame \in PayFrames /\ frame.then \in GroupFrames
    BY <1>2, FrameShapes
  <2>2. SumFunction(Owed(frame)) \in Nat /\ Undistributed(frame.then) \in Nat
    BY <1>2, <2>1, OwedType, UndistributedType DEF Sharing
  <2> QED BY <1>2, <2>2 DEF Left
<1> QED BY <1>1, <1>2 DEF Left

LEMMA PassMoves ==
  ASSUME ChainTypes, SharedWhenEnded, UNCHANGED objectives,
         NEW p \in Pass, NEW frame \in PassFrames, pass' = [pass EXCEPT ![p] = frame],
         Sharing(frame) => Primary \in objectives
  PROVE  /\ SumFunction(Lefts') = SumFunction(Lefts) + Left(frame) - Left(pass[p])
         /\ SumFunction(Lefts) \in Nat /\ Left(frame) \in Nat /\ Left(pass[p]) \in Nat
         /\ pass' \in [Pass -> PassFrames] /\ pass'[p] = frame
         /\ \A r \in Pass \ {p} : pass'[r] = pass[r]
<1>1. /\ \A r \in Pass : Left(pass[r]) \in Nat
      /\ Left(frame) \in Nat
  BY LeftType DEF ChainTypes, SharedWhenEnded
<1>2. /\ Lefts \in [Pass -> Nat] /\ Lefts \in [Pass -> Int]
      /\ Lefts[p] = Left(pass[p]) /\ Left(frame) \in Int
  BY <1>1 DEF Lefts
<1>3. /\ pass' \in [Pass -> PassFrames] /\ pass'[p] = frame
      /\ \A r \in Pass \ {p} : pass'[r] = pass[r]
  BY DEF ChainTypes
<1>4. Lefts' = [Lefts EXCEPT ![p] = Left(frame)]
  <2>1. Lefts' = [r \in Pass |-> Left(pass'[r])]
    BY DEF Lefts, Left, Undistributed, Shares
  <2> QED BY <1>3, <2>1 DEF Lefts
<1>5. SumFunction(Lefts') = SumFunction(Lefts) + Left(frame) - Lefts[p]
  <2> DEFINE v == Left(frame)
  <2>1. v \in Int /\ Lefts' = [Lefts EXCEPT ![p] = v]
    BY <1>2, <1>4
  <2> HIDE DEF v
  <2>2. SumFunction(Lefts') = SumFunction(Lefts) + v - Lefts[p]
    BY <1>2, <2>1, ChainFacts, TotalChanged
  <2> QED BY <2>2 DEF v
<1>6. SumFunction(Lefts) \in Nat
  BY <1>2, ChainFacts, TotalNat
<1> QED BY <1>1, <1>2, <1>3, <1>5, <1>6

(* The share of one pass is paid once, whatever is paid in between.        *)
LEMMA PassKeeps ==
  ASSUME ChainInv, NEW p \in Pass, NEW frame \in PassFrames,
         pass' = [pass EXCEPT ![p] = frame],
         Sharing(frame) => stage = "ended" /\ Primary \in objectives,
         UNCHANGED <<stage, objectives, given, fulfilled, uncounted, task>>,
         fund' \in Int, paid' \in [Character -> Nat], served' \in [Character -> Nat],
         NEW k \in Nat, passes' = passes + k,
         SumFunction(paid') + SumFunction(served') + Left(frame)
           <= SumFunction(paid) + SumFunction(served) + Left(pass[p])
                + k * Rate * Ceiling[Primary]
  PROVE  ChainInv'
<1>1. /\ SumFunction(Lefts') = SumFunction(Lefts) + Left(frame) - Left(pass[p])
      /\ SumFunction(Lefts) \in Nat /\ Left(frame) \in Nat /\ Left(pass[p]) \in Nat
      /\ pass' \in [Pass -> PassFrames] /\ pass'[p] = frame
      /\ \A r \in Pass \ {p} : pass'[r] = pass[r]
  BY PassMoves DEF ChainInv
<1>2. ChainTypes'
  BY <1>1 DEF ChainInv, ChainTypes
<1>3. SharedWhenEnded'
  BY <1>1 DEF ChainInv, SharedWhenEnded, Sharing
<1>4. FulfilledCountsContributions'
  BY DEF ChainInv, FulfilledCountsContributions, Pending, Counts
<1>5. /\ SumFunction(paid) \in Nat /\ SumFunction(served) \in Nat
      /\ SumFunction(paid') \in Nat /\ SumFunction(served') \in Nat
  BY ChainFacts, TotalNat DEF ChainInv, ChainTypes
<1>6. passes' * Rate * Ceiling[Primary]
        = passes * Rate * Ceiling[Primary] + k * Rate * Ceiling[Primary]
      /\ passes * Rate * Ceiling[Primary] \in Int /\ k * Rate * Ceiling[Primary] \in Int
  <2>1. /\ passes \in Int /\ k \in Int /\ Rate \in Int /\ Ceiling[Primary] \in Int
        /\ passes' = passes + k
    BY ChainFacts DEF ChainInv, ChainTypes
  <2>2. \A a, b, r, c \in Int :
          /\ (a + b) * r * c = a * r * c + b * r * c
          /\ a * r * c \in Int
    OBVIOUS
  <2> QED BY <2>1, <2>2
<1>7. (Spent <= passes * Rate * Ceiling[Primary])'
  BY <1>1, <1>5, <1>6 DEF ChainInv, Spent
<1> QED BY <1>2, <1>3, <1>4, <1>7 DEF ChainInv

LEMMA BeginKeeps ==
  ASSUME ChainInv, NEW p \in Pass, Begin(p)
  PROVE  ChainInv'
<1> DEFINE frame == IF Pool = 0 THEN [at |-> "mark"]
                    ELSE [at |-> "group", pool |-> Pool, todo |-> objectives]
<1>1. /\ pass' = [pass EXCEPT ![p] = frame] /\ passes' = passes + 1
      /\ stage = "ended" /\ pass[p].at = "idle"
      /\ UNCHANGED <<stage, objectives, given, fulfilled, uncounted, task>>
      /\ UNCHANGED <<fund, paid, served>>
  BY DEF Begin, Free, event, money
<1>2. /\ objectives \subseteq Objective /\ fund \in Int
      /\ paid \in [Character -> Nat] /\ served \in [Character -> Nat]
      /\ Pool \in Nat /\ Pool <= Rate * Ceiling[Primary]
      /\ Pool # 0 => Primary \in objectives
      /\ Rate * Ceiling[Primary] \in Nat
  <2>1. /\ fulfilled[Primary] \in Nat /\ Ceiling[Primary] \in Nat /\ Rate \in Nat
        /\ objectives \subseteq Objective /\ fund \in Int
        /\ paid \in [Character -> Nat] /\ served \in [Character -> Nat]
    BY ChainFacts DEF ChainInv, ChainTypes
  <2>2. \A r, x, y \in Nat : x <= y => r * x \in Nat /\ r * x <= r * y
    <3> SUFFICES ASSUME NEW r \in Nat, NEW x \in Nat, NEW y \in Nat, x <= y
                 PROVE  r * x \in Nat /\ r * x <= r * y
      OBVIOUS
    <3>1. y - x \in Nat /\ y = x + (y - x)
      OBVIOUS
    <3>2. r * y = r * x + r * (y - x) /\ r * (y - x) >= 0 /\ r * x \in Nat
          /\ r * (y - x) \in Int
      BY <3>1
    <3> QED BY <3>2
  <2>3. Smaller(fulfilled[Primary], Ceiling[Primary]) \in Nat
        /\ Smaller(fulfilled[Primary], Ceiling[Primary]) <= Ceiling[Primary]
    BY <2>1 DEF Smaller
  <2>4. /\ Rate * Smaller(fulfilled[Primary], Ceiling[Primary]) \in Nat
        /\ Rate * Smaller(fulfilled[Primary], Ceiling[Primary]) <= Rate * Ceiling[Primary]
        /\ Rate * Ceiling[Primary] \in Nat
    BY <2>1, <2>2, <2>3
  <2> QED BY <2>1, <2>4 DEF Pool
<1>3. /\ frame \in PassFrames
      /\ Sharing(frame) => stage = "ended" /\ Primary \in objectives
  BY <1>1, <1>2 DEF PassFrames, GroupFrames, Sharing
<1>4. Left(frame) \in Nat /\ Left(frame) <= Rate * Ceiling[Primary]
  <2>1. CASE Pool = 0
    BY <1>2, <2>1 DEF Left
  <2>2. CASE Pool # 0
    <3>1. Left(frame) = SumFunctionOnSet(Shares(Pool), objectives)
      BY <2>2 DEF Left, Undistributed
    <3>2. SumFunctionOnSet(Shares(Pool), objectives) <= Pool
      BY <1>2, <2>2, SharesFit
    <3>3. Left(frame) \in Nat
      BY <1>2, <1>3, LeftType
    <3> QED BY <1>2, <3>1, <3>2, <3>3
  <2> QED BY <2>1, <2>2
<1>5. Left(pass[p]) = 0
  BY <1>1 DEF Left
<1> HIDE DEF frame
<1>6. SumFunction(paid) \in Nat /\ SumFunction(served) \in Nat
  BY <1>2, ChainFacts, TotalNat
<1>7. SumFunction(paid') + SumFunction(served') + Left(frame)
        <= SumFunction(paid) + SumFunction(served) + Left(pass[p])
             + 1 * Rate * Ceiling[Primary]
  <2>1. 1 * Rate * Ceiling[Primary] = Rate * Ceiling[Primary]
    BY ChainFacts
  <2> QED BY <1>1, <1>2, <1>4, <1>5, <1>6, <2>1
<1>8. 1 \in Nat
  OBVIOUS
<1>9. fund' \in Int /\ paid' \in [Character -> Nat] /\ served' \in [Character -> Nat]
  BY <1>1, <1>2
<1> QED BY <1>1, <1>3, <1>7, <1>8, <1>9, PassKeeps

(* A pass that gives nothing more and begins no new share.                 *)
LEMMA PassGoesOn ==
  ASSUME ChainInv, NEW p \in Pass, NEW frame \in PassFrames,
         pass' = [pass EXCEPT ![p] = frame],
         Sharing(frame) => stage = "ended" /\ Primary \in objectives,
         UNCHANGED <<stage, objectives, given, fulfilled, uncounted, task, passes>>,
         fund' \in Int, paid' \in [Character -> Nat], served' \in [Character -> Nat],
         SumFunction(paid') + SumFunction(served') + Left(frame)
           <= SumFunction(paid) + SumFunction(served) + Left(pass[p])
  PROVE  ChainInv'
<1>1. /\ SumFunction(paid) \in Nat /\ SumFunction(served) \in Nat
      /\ SumFunction(paid') \in Nat /\ SumFunction(served') \in Nat
  BY ChainFacts, TotalNat DEF ChainInv, ChainTypes
<1>2. Left(pass[p]) \in Nat /\ Left(frame) \in Nat
  BY PassMoves DEF ChainInv
<1>3. 0 * Rate * Ceiling[Primary] = 0 /\ passes' = passes + 0 /\ 0 \in Nat
  BY ChainFacts DEF ChainInv, ChainTypes
<1>4. SumFunction(paid') + SumFunction(served') + Left(frame)
        <= SumFunction(paid) + SumFunction(served) + Left(pass[p])
             + 0 * Rate * Ceiling[Primary]
  BY <1>1, <1>2, <1>3
<1> QED BY <1>3, <1>4, PassKeeps

LEMMA PassRests ==
  ASSUME ChainInv, NEW p \in Pass, NEW frame \in PassFrames, ~Sharing(frame),
         pass' = [pass EXCEPT ![p] = frame],
         UNCHANGED <<stage, objectives, given, fulfilled, uncounted, task, passes>>,
         UNCHANGED <<fund, paid, served>>
  PROVE  ChainInv'
<1>1. /\ SumFunction(paid) \in Nat /\ SumFunction(served) \in Nat
      /\ fund \in Int /\ paid \in [Character -> Nat] /\ served \in [Character -> Nat]
  BY ChainFacts, TotalNat DEF ChainInv, ChainTypes
<1>2. Left(pass[p]) \in Nat /\ Left(frame) = 0
  BY PassMoves DEF ChainInv, Left, Sharing
<1>3. SumFunction(paid') + SumFunction(served') + Left(frame)
        <= SumFunction(paid) + SumFunction(served) + Left(pass[p])
  BY <1>1, <1>2
<1> QED BY <1>1, <1>3, PassGoesOn

(* One objective's share is what its bill adds up to at most.              *)
LEMMA BillFits ==
  ASSUME ChainInv, NEW p \in Pass, pass[p] \in GroupFrames, Primary \in objectives,
         NEW o \in Objective
  PROVE  /\ Bill(p, o) \in [Character -> Nat]
         /\ SumFunction(Bill(p, o)) \in Nat
         /\ SumFunction(Bill(p, o)) <= Shares(pass[p].pool)[o]
         /\ Shares(pass[p].pool)[o] \in Nat
<1> DEFINE total == SumFunction(given[o])
           share == Share(p, o)
           bill == Bill(p, o)
<1>1. /\ given[o] \in [Character -> Nat] /\ total \in Nat
      /\ total = SumFunctionOnSet(given[o], Character)
      /\ pass[p].pool \in Nat
  <2>1. given[o] \in [Character -> Nat]
    BY DEF ChainInv, ChainTypes
  <2> QED BY <2>1, FrameShapes, ChainFacts, TotalNat DEF SumFunction
<1>2. share \in Nat /\ share = Shares(pass[p].pool)[o]
  BY <1>1, SharesFit DEF ChainInv, ChainTypes, Share, Shares
<1>3. bill = [c \in Character |->
                IF total = 0 THEN 0 ELSE (share * given[o][c]) \div total]
  BY DEF Bill
<1> HIDE DEF share, bill
<1>4. CASE total = 0
  <2>1. bill \in [Character -> Nat] /\ bill \in [Character -> Int]
        /\ \A c \in Character : bill[c] = 0
    BY <1>3, <1>4
  <2>2. SumFunction(bill) = 0
    BY <2>1, ChainFacts, TotalZero
  <2> QED BY <1>2, <2>1, <2>2 DEF bill
<1>5. CASE total # 0
  <2> DEFINE w == given[o]
  <2>1. /\ \A c \in Character : w[c] \in Nat
        /\ SumFunctionOnSet(w, Character) >= 1
        /\ \A c \in Character : bill[c] = (share * w[c]) \div SumFunctionOnSet(w, Character)
    BY <1>1, <1>3, <1>5
  <2> HIDE DEF w
  <2>2. /\ \A c \in Character : bill[c] \in Nat
        /\ SumFunctionOnSet(bill, Character) \in Nat
        /\ SumFunctionOnSet(bill, Character) <= share
    BY <1>2, <2>1, ChainFacts, FloorShares
  <2>3. bill \in [Character -> Nat] /\ SumFunction(bill) = SumFunctionOnSet(bill, Character)
    BY <1>3, <2>2 DEF SumFunction
  <2> QED BY <1>2, <2>2, <2>3 DEF bill
<1> QED BY <1>4, <1>5

LEMMA PayingLeft ==
  ASSUME objectives \subseteq Objective, Primary \in objectives, NEW frame \in PayFrames
  PROVE  /\ Paying(frame) \in PassFrames
         /\ Left(Paying(frame)) = SumFunction(Owed(frame)) + Undistributed(frame.then)
<1>1. /\ frame.at = "pay" /\ frame.then \in GroupFrames /\ frame.then.at = "group"
      /\ SumFunction(Owed(frame)) \in Nat /\ Undistributed(frame.then) \in Nat
  BY FrameShapes, OwedType, UndistributedType
<1>2. CASE frame.due = {}
  <2>1. Owed(frame) \in [Character -> Int] /\ \A c \in Character : Owed(frame)[c] = 0
    BY <1>2 DEF Owed
  <2>2. SumFunction(Owed(frame)) = 0
    BY <2>1, ChainFacts, TotalZero
  <2> QED BY <1>1, <1>2, <2>2 DEF Paying, Left, PassFrames
<1>3. CASE frame.due # {}
  BY <1>1, <1>3 DEF Paying, Left, PassFrames
<1> QED BY <1>2, <1>3

LEMMA GroupKeeps ==
  ASSUME ChainInv, NEW p \in Pass, Group(p)
  PROVE  ChainInv'
<1> DEFINE g == pass[p]
<1>1. /\ UNCHANGED <<stage, objectives, given, fulfilled, uncounted, task, passes>>
      /\ UNCHANGED <<fund, paid, served>>
      /\ g.at = "group" /\ g \in PassFrames
      /\ objectives \subseteq Objective
      /\ fund \in Int /\ paid \in [Character -> Nat] /\ served \in [Character -> Nat]
  BY DEF Group, event, money, ChainInv, ChainTypes
<1>2. /\ g \in GroupFrames /\ g.pool \in Nat /\ g.todo \subseteq Objective
      /\ stage = "ended" /\ Primary \in objectives
  BY <1>1, FrameShapes DEF ChainInv, SharedWhenEnded, Sharing
<1>3. CASE g.todo = {}
  <2>1. pass' = [pass EXCEPT ![p] = [at |-> "mark"]]
    BY <1>3 DEF Group
  <2>2. [at |-> "mark"] \in PassFrames /\ ~Sharing([at |-> "mark"])
    BY DEF PassFrames, Sharing
  <2> QED BY <1>1, <2>1, <2>2, PassRests
<1>4. CASE g.todo # {}
  <2> DEFINE o == CHOOSE x \in g.todo : TRUE
  <2>0. o \in g.todo /\ o \in Objective
    BY <1>2, <1>4
  <2>1. pass' = [pass EXCEPT ![p] =
            Paying([at |-> "pay", bill |-> Bill(p, o),
                    due |-> {c \in Character : Bill(p, o)[c] > 0},
                    then |-> [g EXCEPT !.todo = @ \ {o}]])]
    BY <1>4 DEF Group
  <2> HIDE DEF o
  <2> DEFINE bill == Bill(p, o)
             rest == [g EXCEPT !.todo = @ \ {o}]
             frame == [at |-> "pay", bill |-> bill,
                       due |-> {c \in Character : bill[c] > 0}, then |-> rest]
  <2>2. /\ bill \in [Character -> Nat] /\ SumFunction(bill) \in Nat
        /\ SumFunction(bill) <= Shares(g.pool)[o] /\ Shares(g.pool)[o] \in Nat
    BY <1>2, <2>0, BillFits
  <2>3. rest \in GroupFrames /\ rest.pool = g.pool /\ rest.todo = g.todo \ {o}
    BY <1>2 DEF GroupFrames
  <2>4. /\ frame \in PayFrames /\ frame.then = rest
        /\ frame.bill = bill /\ frame.due = {c \in Character : bill[c] > 0}
    BY <2>2, <2>3 DEF PayFrames
  <2>5. SumFunction(Owed(frame)) = SumFunction(bill)
    <3>1. Owed(frame) = bill
      BY <2>2, <2>4 DEF Owed
    <3> QED BY <3>1
  <2>6. Undistributed(g) = Shares(g.pool)[o] + Undistributed(rest)
    <3>1. IsFiniteSet(g.todo)
      BY <1>2, ChainFacts, FS_Subset
    <3>2. Shares(g.pool) \in [Objective -> Nat]
      BY <1>1, <1>2, SharesFit
    <3>3. \A x \in g.todo : Shares(g.pool)[x] \in Int
      BY <1>2, <3>2
    <3> DEFINE f == Shares(g.pool)
               todo == g.todo
    <3> HIDE DEF f, todo
    <3>4. SumFunctionOnSet(f, todo) = f[o] + SumFunctionOnSet(f, todo \ {o})
      <4>1. IsFiniteSet(todo) /\ o \in todo /\ \A x \in todo : f[x] \in Int
        BY <2>0, <3>1, <3>3 DEF f, todo
      <4> QED BY <4>1, SumTake
    <3> QED BY <2>3, <3>4 DEF Undistributed, f, todo
  <2> HIDE DEF bill, rest, frame
  <2>7. /\ Paying(frame) \in PassFrames
        /\ Left(Paying(frame)) = SumFunction(bill) + Undistributed(rest)
    BY <1>1, <1>2, <2>4, <2>5, PayingLeft
  <2>8. Left(g) = Undistributed(g) /\ Undistributed(rest) \in Nat
    BY <1>1, <1>2, <2>3, UndistributedType DEF Left
  <2>9. SumFunction(paid) \in Nat /\ SumFunction(served) \in Nat
    BY <1>1, ChainFacts, TotalNat
  <2>10. SumFunction(paid') + SumFunction(served') + Left(Paying(frame))
           <= SumFunction(paid) + SumFunction(served) + Left(g)
    BY <1>1, <2>2, <2>6, <2>7, <2>8, <2>9
  <2>11. pass' = [pass EXCEPT ![p] = Paying(frame)]
    BY <2>1 DEF bill, rest, frame
  <2> DEFINE next == Paying(frame)
  <2>12. next \in PassFrames /\ pass' = [pass EXCEPT ![p] = next]
    BY <2>7, <2>11
  <2>13. SumFunction(paid') + SumFunction(served') + Left(next)
           <= SumFunction(paid) + SumFunction(served) + Left(pass[p])
    BY <2>10
  <2>14. fund' \in Int /\ paid' \in [Character -> Nat] /\ served' \in [Character -> Nat]
    BY <1>1
  <2> HIDE DEF next
  <2> QED BY <1>1, <1>2, <2>12, <2>13, <2>14, PassGoesOn
<1> QED BY <1>3, <1>4

LEMMA PayKeeps ==
  ASSUME ChainInv, NEW p \in Pass, Pay(p)
  PROVE  ChainInv'
<1> DEFINE g == pass[p]
<1>1. /\ UNCHANGED <<stage, objectives, given, fulfilled, uncounted, task, passes>>
      /\ g.at = "pay" /\ g \in PassFrames
      /\ objectives \subseteq Objective
      /\ fund \in Int /\ paid \in [Character -> Nat] /\ served \in [Character -> Nat]
  BY DEF Pay, event, ChainInv, ChainTypes
<1>2. /\ g \in PayFrames /\ g.bill \in [Character -> Nat]
      /\ g.due \subseteq Character /\ g.then \in GroupFrames
      /\ stage = "ended" /\ Primary \in objectives
  BY <1>1, FrameShapes DEF ChainInv, SharedWhenEnded, Sharing
<1>3. PICK c \in g.due :
        /\ Reward(c, g.bill[c])
        /\ pass' = [pass EXCEPT ![p] = Paying([g EXCEPT !.due = @ \ {c}])]
  BY DEF Pay
<1> DEFINE n == g.bill[c]
           frame == [g EXCEPT !.due = @ \ {c}]
<1>4. c \in Character /\ n \in Nat
  BY <1>2
<1>5. /\ frame \in PayFrames /\ frame.then = g.then /\ frame.bill = g.bill
      /\ frame.due = g.due \ {c}
  BY <1>2 DEF PayFrames
<1>6. SumFunction(Owed(frame)) = SumFunction(Owed(g)) - n
  <2> DEFINE f == Owed(g)
  <2>1. f \in [Character -> Nat] /\ SumFunction(f) \in Nat
    BY <1>2, OwedType
  <2>2. f \in [Character -> Int] /\ f[c] = n
    <3>1. c \in g.due
      BY <1>3
    <3> QED BY <1>4, <2>1, <3>1 DEF Owed
  <2>3. Owed(frame) = [f EXCEPT ![c] = 0]
    <3> HIDE DEF frame, n, g
    <3>1. \A x \in Character : Owed(frame)[x] = IF x = c THEN 0 ELSE Owed(g)[x]
      BY <1>4, <1>5 DEF Owed
    <3>2. DOMAIN Owed(frame) = Character /\ DOMAIN f = Character
      BY DEF Owed
    <3>3. Owed(frame) = [x \in Character |-> Owed(frame)[x]]
      BY DEF Owed
    <3>4. [f EXCEPT ![c] = 0] = [x \in Character |-> IF x = c THEN 0 ELSE Owed(g)[x]]
      BY <3>2
    <3> QED BY <3>1, <3>3, <3>4
  <2> HIDE DEF f, n
  <2>4. SumFunction([f EXCEPT ![c] = 0]) = SumFunction(f) + 0 - f[c]
    <3>1. 0 \in Int /\ IsFiniteSet(Character) /\ c \in Character
      BY <1>4, ChainFacts
    <3> QED BY <2>2, <3>1, TotalChanged
  <2> QED BY <1>4, <2>1, <2>2, <2>3, <2>4 DEF f
<1>7. /\ fund' \in Int /\ paid' \in [Character -> Nat] /\ served' \in [Character -> Nat]
      /\ SumFunction(paid') + SumFunction(served')
           <= SumFunction(paid) + SumFunction(served) + n
      /\ SumFunction(paid') + SumFunction(served') \in Int
      /\ SumFunction(paid) + SumFunction(served) \in Int
  <2> HIDE DEF n, frame, g
  <2>1. /\ paid[c] + n \in Nat /\ served[c] + n \in Nat /\ paid[c] \in Nat /\ served[c] \in Nat
        /\ paid \in [Character -> Int] /\ served \in [Character -> Int]
        /\ SumFunction(paid) \in Nat /\ SumFunction(served) \in Nat
    BY <1>1, <1>4, ChainFacts, TotalNat
  <2>2. /\ SumFunction([paid EXCEPT ![c] = paid[c] + n]) = SumFunction(paid) + (paid[c] + n) - paid[c]
        /\ SumFunction([served EXCEPT ![c] = served[c] + n])
             = SumFunction(served) + (served[c] + n) - served[c]
    <3>1. paid[c] + n \in Int /\ served[c] + n \in Int
      BY <2>1
    <3> QED BY <1>4, <2>1, <3>1, ChainFacts, TotalChanged
  <2>3. CASE c \in GovEmployee
    <3>1. /\ served' = [served EXCEPT ![c] = served[c] + n]
          /\ UNCHANGED <<fund, paid>>
      BY <1>3, <2>3 DEF Reward, n
    <3> QED BY <1>1, <1>4, <2>1, <2>2, <3>1
  <2>4. CASE c \notin GovEmployee /\ n <= fund
    <3>1. /\ fund' = fund - n /\ paid' = [paid EXCEPT ![c] = paid[c] + n]
          /\ UNCHANGED served
      BY <1>3, <2>4 DEF Reward, n
    <3> QED BY <1>1, <1>4, <2>1, <2>2, <3>1
  <2>5. CASE c \notin GovEmployee /\ ~(n <= fund)
    <3>1. UNCHANGED <<fund, paid, served>>
      BY <1>3, <2>5 DEF Reward, n
    <3> QED BY <1>1, <1>4, <2>1, <3>1
  <2> QED BY <2>3, <2>4, <2>5
<1>8. /\ Paying(frame) \in PassFrames
      /\ Left(Paying(frame)) = SumFunction(Owed(g)) - n + Undistributed(g.then)
  <2> HIDE DEF frame, n
  <2>1. /\ Paying(frame) \in PassFrames
        /\ Left(Paying(frame)) = SumFunction(Owed(frame)) + Undistributed(frame.then)
    BY <1>1, <1>2, <1>5, PayingLeft
  <2> QED BY <1>5, <1>6, <2>1
<1>9. /\ Left(g) = SumFunction(Owed(g)) + Undistributed(g.then)
      /\ SumFunction(Owed(g)) \in Nat /\ Undistributed(g.then) \in Nat
  BY <1>1, <1>2, OwedType, UndistributedType DEF Left
<1> DEFINE next == Paying(frame)
<1>10. next \in PassFrames /\ pass' = [pass EXCEPT ![p] = next]
  BY <1>3, <1>8
<1>11. SumFunction(paid') + SumFunction(served') + Left(next)
         <= SumFunction(paid) + SumFunction(served) + Left(pass[p])
  <2> HIDE DEF n, frame
  <2> QED BY <1>4, <1>7, <1>8, <1>9
<1> HIDE DEF next, n, frame
<1> QED BY <1>1, <1>2, <1>7, <1>10, <1>11, PassGoesOn

LEMMA PassEnds ==
  ASSUME ChainInv, NEW p \in Pass, Mark(p) \/ Fail(p)
  PROVE  ChainInv'
<1>1. pass' = [pass EXCEPT ![p] = NoPass] /\ NoPass \in PassFrames /\ ~Sharing(NoPass)
      /\ UNCHANGED <<stage, objectives, given, fulfilled, uncounted, task, passes>>
      /\ UNCHANGED <<fund, paid, served>>
  BY DEF Mark, Fail, PassFrames, Sharing, NoPass, event, money
<1> QED BY <1>1, PassRests

-----------------------------------------------------------------------------
(* A step of a delivery keeps what it contributed and counted together.    *)
LEMMA TaskKeeps ==
  ASSUME ChainInv, NEW t \in Task, NEW frame \in TaskFrames,
         task' = [task EXCEPT ![t] = frame],
         UNCHANGED <<stage, objectives, pass, fund, paid, served, passes, uncounted>>,
         given' \in [Objective -> [Character -> Nat]], fulfilled' \in [Objective -> Nat],
         \A o \in Objective :
           SumFunction(given'[o]) + fulfilled[o] + Counted(task[t], o)
             = SumFunction(given[o]) + fulfilled'[o] + Counted(frame, o)
  PROVE  ChainInv'
<1>1. ChainTypes'
  BY DEF ChainInv, ChainTypes
<1>2. SharedWhenEnded'
  BY DEF ChainInv, SharedWhenEnded, Sharing
<1>3. FulfilledCountsContributions'
  <2> SUFFICES ASSUME NEW o \in Objective
               PROVE  SumFunction(given'[o]) = fulfilled'[o] + Pending(o)' + uncounted'[o]
    BY DEF FulfilledCountsContributions
  <2>1. Pending(o)' = Pending(o) + Counted(frame, o) - Counted(task[t], o)
        /\ Pending(o) \in Nat
    BY TaskMoves DEF ChainInv
  <2>2. /\ fulfilled[o] \in Nat /\ fulfilled'[o] \in Nat /\ uncounted[o] \in Nat
        /\ SumFunction(given[o]) \in Nat /\ SumFunction(given'[o]) \in Nat
    <3>1. given[o] \in [Character -> Nat] /\ given'[o] \in [Character -> Nat]
      BY DEF ChainInv, ChainTypes
    <3> QED BY <3>1, ChainFacts, TotalNat DEF ChainInv, ChainTypes
  <2>3. Counted(frame, o) \in Nat /\ Counted(task[t], o) \in Nat
    BY CountedType DEF ChainInv, ChainTypes
  <2>4. /\ SumFunction(given[o]) = fulfilled[o] + Pending(o) + uncounted[o]
        /\ SumFunction(given'[o]) + fulfilled[o] + Counted(task[t], o)
             = SumFunction(given[o]) + fulfilled'[o] + Counted(frame, o)
        /\ uncounted'[o] = uncounted[o]
    BY DEF ChainInv, FulfilledCountsContributions
  <2> DEFINE a == SumFunction(given[o])   b == SumFunction(given'[o])
             x == fulfilled[o]            y == fulfilled'[o]
             m == Counted(task[t], o)     n == Counted(frame, o)
             d == Pending(o)              e == Pending(o)'
             u == uncounted[o]
  <2>5. a \in Nat /\ b \in Nat /\ x \in Nat /\ y \in Nat /\ m \in Nat /\ n \in Nat
        /\ d \in Nat /\ u \in Nat /\ e = d + n - m
    BY <2>1, <2>2, <2>3
  <2>6. a = x + d + u /\ b + x + m = a + y + n
    BY <2>4
  <2> HIDE DEF a, b, x, y, m, n, d, e, u
  <2>7. b = y + e + u
    BY <2>5, <2>6
  <2> QED BY <2>4, <2>7 DEF b, y, e, u
<1>4. (Spent <= passes * Rate * Ceiling[Primary])'
  BY DEF ChainInv, Spent, Lefts, Left, Undistributed, Shares
<1> QED BY <1>1, <1>2, <1>3, <1>4 DEF ChainInv

LEMMA LoopFrames ==
  ASSUME NEW frame \in NextFrames, NEW o \in Objective
  PROVE  Loop(frame) \in TaskFrames /\ Counted(Loop(frame), o) = 0
<1>1. frame.at = "next"
  BY DEF NextFrames
<1> QED BY <1>1 DEF Loop, TaskFrames, Counted, Counts, NoTask

LEMMA TaskShapes ==
  /\ \A f \in NextFrames : /\ f.at = "next" /\ f.who \in Character /\ f.qty \in Nat
                           /\ f.seen \in [Objective -> Nat] /\ f.todo \subseteq Objective
  /\ \A f \in CountFrames : /\ f.at = "count" /\ f.objective \in Objective
                            /\ f.qty \in Nat /\ f.then \in NextFrames
  /\ \A f \in TaskFrames : /\ f.at = "next" => f \in NextFrames
                           /\ f.at = "count" => f \in CountFrames
                           /\ f.at # "count" => \A o : Counted(f, o) = 0
<1>1. /\ \A f \in NextFrames : /\ f.at = "next" /\ f.who \in Character /\ f.qty \in Nat
                               /\ f.seen \in [Objective -> Nat] /\ f.todo \subseteq Objective
      /\ \A f \in CountFrames : /\ f.at = "count" /\ f.objective \in Objective
                                /\ f.qty \in Nat /\ f.then \in NextFrames
  BY DEF NextFrames, CountFrames
<1>2. NoTask.at = "idle"
  BY DEF NoTask
<1> QED BY <1>1, <1>2 DEF TaskFrames, Counted, Counts

LEMMA DeliverKeeps ==
  ASSUME ChainInv, NEW t \in Task, Deliver(t)
  PROVE  ChainInv'
<1>1. PICK c \in Character, q \in 1 .. MaxQuantity, matching \in (SUBSET objectives) \ {{}} :
        /\ task' = [task EXCEPT ![t] = [at |-> "next", who |-> c, qty |-> q,
                                        seen |-> fulfilled, todo |-> matching]]
        /\ task[t].at = "idle"
        /\ UNCHANGED <<stage, objectives, pass, fund, paid, served, passes, uncounted,
                       given, fulfilled>>
  BY DEF Deliver, Free, event, money
<1> DEFINE frame == [at |-> "next", who |-> c, qty |-> q,
                     seen |-> fulfilled, todo |-> matching]
<1>2. frame \in NextFrames
  BY <1>1, ChainFacts DEF NextFrames, ChainInv, ChainTypes
<1>3. frame \in TaskFrames /\ task' = [task EXCEPT ![t] = frame]
  BY <1>1, <1>2 DEF TaskFrames
<1>4. frame.at # "count" /\ task[t] \in TaskFrames
  BY DEF ChainInv, ChainTypes
<1> HIDE DEF frame
<1>5. \A o \in Objective : Counted(frame, o) = 0 /\ Counted(task[t], o) = 0
  BY <1>1, <1>3, <1>4, TaskShapes
<1>6. /\ given' \in [Objective -> [Character -> Nat]] /\ fulfilled' \in [Objective -> Nat]
      /\ \A o \in Objective :
           SumFunction(given'[o]) + fulfilled[o] + Counted(task[t], o)
             = SumFunction(given[o]) + fulfilled'[o] + Counted(frame, o)
  BY <1>1, <1>5 DEF ChainInv, ChainTypes
<1>7. UNCHANGED <<stage, objectives, pass, fund, paid, served, passes, uncounted>>
  BY <1>1
<1> QED BY <1>3, <1>6, <1>7, TaskKeeps

LEMMA RecordKeeps ==
  ASSUME ChainInv, NEW t \in Task, Record(t)
  PROVE  ChainInv'
<1> DEFINE f == task[t]
<1>1. /\ UNCHANGED <<stage, objectives, pass, fund, paid, served, passes, uncounted,
                     fulfilled>>
      /\ f.at = "next" /\ f \in TaskFrames
      /\ given \in [Objective -> [Character -> Nat]] /\ fulfilled \in [Objective -> Nat]
  BY DEF Record, event, money, ChainInv, ChainTypes
<1>2. /\ f \in NextFrames /\ f.who \in Character /\ f.qty \in Nat
      /\ f.seen \in [Objective -> Nat] /\ f.todo \subseteq Objective
      /\ \A o \in Objective : Counted(f, o) = 0
  BY <1>1, TaskShapes
<1>3. PICK o \in f.todo :
        LET r == Rewardable(t, o) rest == [f EXCEPT !.todo = @ \ {o}] IN
        IF r = 0
        THEN task' = [task EXCEPT ![t] = Loop(rest)] /\ UNCHANGED given
        ELSE /\ given' = [given EXCEPT ![o][f.who] = @ + r]
             /\ task' = [task EXCEPT ![t] =
                  [at |-> "count", objective |-> o, qty |-> r, then |-> rest]]
  BY DEF Record
<1> DEFINE r == Rewardable(t, o)
           rest == [f EXCEPT !.todo = @ \ {o}]
           c == f.who
<1>4. rest \in NextFrames /\ o \in Objective
  BY <1>2 DEF NextFrames
<1>5. r \in Nat
  <2>1. Ceiling[o] \in Nat /\ f.seen[o] \in Nat
    BY <1>2, <1>4, ChainFacts
  <2>2. Remaining(t, o) \in Nat
    BY <2>1 DEF Remaining
  <2> QED BY <1>2, <2>2 DEF Rewardable, Smaller
<1> HIDE DEF r, rest
<1>6. CASE r = 0
  <2>1. task' = [task EXCEPT ![t] = Loop(rest)] /\ given' = given
    BY <1>3, <1>6 DEF r, rest
  <2>2. Loop(rest) \in TaskFrames /\ \A x \in Objective : Counted(Loop(rest), x) = 0
    BY <1>4, LoopFrames
  <2>3. /\ given' \in [Objective -> [Character -> Nat]] /\ fulfilled' \in [Objective -> Nat]
        /\ \A x \in Objective :
             SumFunction(given'[x]) + fulfilled[x] + Counted(task[t], x)
               = SumFunction(given[x]) + fulfilled'[x] + Counted(Loop(rest), x)
    BY <1>1, <1>2, <2>1, <2>2
  <2> QED BY <1>1, <2>1, <2>2, <2>3, TaskKeeps
<1>7. CASE r # 0
  <2> DEFINE frame == [at |-> "count", objective |-> o, qty |-> r, then |-> rest]
             sums == given[o]
             n == sums[c] + r
  <2>1. /\ task' = [task EXCEPT ![t] = frame]
        /\ given' = [given EXCEPT ![o] = [sums EXCEPT ![c] = n]]
    BY <1>3, <1>7 DEF r, rest
  <2>2. frame \in TaskFrames /\ frame.at = "count" /\ frame.objective = o /\ frame.qty = r
    BY <1>4, <1>5 DEF TaskFrames, CountFrames
  <2>3. /\ sums \in [Character -> Nat] /\ sums \in [Character -> Int] /\ sums[c] \in Nat
        /\ n \in Nat /\ n \in Int /\ SumFunction(sums) \in Nat
    BY <1>1, <1>2, <1>4, <1>5, ChainFacts, TotalNat
  <2>4. SumFunction([sums EXCEPT ![c] = n]) = SumFunction(sums) + r
    <3> HIDE DEF sums, n
    <3>1. SumFunction([sums EXCEPT ![c] = n]) = SumFunction(sums) + n - sums[c]
      BY <1>2, <2>3, ChainFacts, TotalChanged
    <3> QED BY <1>5, <2>3, <3>1 DEF n
  <2>5. /\ given' \in [Objective -> [Character -> Nat]]
        /\ given'[o] = [sums EXCEPT ![c] = n]
        /\ \A x \in Objective \ {o} : given'[x] = given[x]
    BY <1>1, <1>2, <1>4, <2>1, <2>3
  <2>6. \A x \in Objective : Counted(frame, x) = IF x = o THEN r ELSE 0
    BY <2>2 DEF Counted, Counts
  <2> HIDE DEF frame, sums, n
  <2>7. \A x \in Objective :
           SumFunction(given'[x]) + fulfilled[x] + Counted(task[t], x)
             = SumFunction(given[x]) + fulfilled'[x] + Counted(frame, x)
    <3> TAKE x \in Objective
    <3>1. CASE x = o
      <4>1. /\ SumFunction(given'[x]) = SumFunction(sums) + r /\ fulfilled'[x] = fulfilled[x]
            /\ SumFunction(given[x]) = SumFunction(sums) /\ Counted(frame, x) = r
            /\ Counted(task[t], x) = 0 /\ fulfilled[x] \in Nat
        BY <1>1, <1>2, <2>4, <2>5, <2>6, <3>1 DEF sums
      <4> QED BY <1>5, <2>3, <4>1
    <3>2. CASE x # o
      BY <1>1, <1>2, <2>5, <2>6, <3>2
    <3> QED BY <3>1, <3>2
  <2>8. fulfilled' \in [Objective -> Nat] /\ frame \in TaskFrames
    BY <1>1, <2>2
  <2>9. UNCHANGED <<stage, objectives, pass, fund, paid, served, passes, uncounted>>
    BY <1>1
  <2>10. task' = [task EXCEPT ![t] = frame] /\ given' \in [Objective -> [Character -> Nat]]
    BY <2>1, <2>5
  <2> QED BY <2>7, <2>8, <2>9, <2>10, TaskKeeps
<1> QED BY <1>6, <1>7

LEMMA CountKeeps ==
  ASSUME ChainInv, NEW t \in Task, Count(t)
  PROVE  ChainInv'
<1> DEFINE f == task[t]
           o == f.objective
           next == Loop(f.then)
<1>1. /\ UNCHANGED <<stage, objectives, pass, fund, paid, served, passes, uncounted, given>>
      /\ f.at = "count" /\ f \in TaskFrames
      /\ fulfilled' = [fulfilled EXCEPT ![o] = @ + f.qty]
      /\ task' = [task EXCEPT ![t] = next]
      /\ given \in [Objective -> [Character -> Nat]] /\ fulfilled \in [Objective -> Nat]
  BY DEF Count, event, money, ChainInv, ChainTypes
<1>2. /\ o \in Objective /\ f.qty \in Nat /\ f.then \in NextFrames
      /\ \A x \in Objective : Counted(f, x) = IF x = o THEN f.qty ELSE 0
  BY <1>1, TaskShapes DEF Counted, Counts
<1>3. next \in TaskFrames /\ \A x \in Objective : Counted(next, x) = 0
  BY <1>2, LoopFrames
<1> HIDE DEF next
<1>4. /\ fulfilled' \in [Objective -> Nat] /\ given' \in [Objective -> [Character -> Nat]]
      /\ \A x \in Objective : fulfilled'[x] = fulfilled[x] + Counted(f, x)
  BY <1>1, <1>2
<1>5. \A x \in Objective :
        SumFunction(given'[x]) + fulfilled[x] + Counted(task[t], x)
          = SumFunction(given[x]) + fulfilled'[x] + Counted(next, x)
  <2> TAKE x \in Objective
  <2>1. given[x] \in [Character -> Nat] /\ fulfilled[x] \in Nat /\ Counted(f, x) \in Nat
    BY <1>1, CountedType
  <2>2. SumFunction(given[x]) \in Nat
    BY <2>1, ChainFacts, TotalNat
  <2> QED BY <1>1, <1>3, <1>4, <2>1, <2>2
<1>6. task' = [task EXCEPT ![t] = next] /\ next \in TaskFrames
  BY <1>1, <1>3
<1>7. UNCHANGED <<stage, objectives, pass, fund, paid, served, passes, uncounted>>
  BY <1>1
<1>8. fulfilled' \in [Objective -> Nat] /\ given' \in [Objective -> [Character -> Nat]]
  BY <1>4
<1> QED BY <1>5, <1>6, <1>7, <1>8, TaskKeeps

-----------------------------------------------------------------------------
(* When no pass shares, none has anything left to give.                    *)
LEMMA NothingLeft ==
  ASSUME \A p \in Pass : ~Sharing(pass[p])
  PROVE  SumFunction(Lefts) = 0
<1>1. Lefts = [p \in Pass |-> Lefts[p]] /\ DOMAIN Lefts = Pass
      /\ \A p \in Pass : Lefts[p] = 0
  BY DEF Lefts, Left, Sharing
<1>2. Lefts \in [Pass -> Int]
  BY <1>1
<1> QED BY <1>1, <1>2, ChainFacts, TotalZero

LEMMA ChainInitInv ==
  ASSUME ChainInit
  PROVE  ChainInv
<1>1. ChainTypes
  BY ChainFacts DEF ChainInit, ChainTypes, None, TaskFrames, PassFrames
<1>2. \A p \in Pass : ~Sharing(pass[p])
  BY DEF ChainInit, Sharing, NoPass
<1>3. SumFunction(None) = 0
  <2>1. None \in [Character -> Int] /\ \A c \in Character : None[c] = 0
    BY DEF None
  <2> QED BY <2>1, ChainFacts, TotalZero
<1>4. FulfilledCountsContributions
  <2> SUFFICES ASSUME NEW o \in Objective
               PROVE  SumFunction(given[o]) = fulfilled[o] + Pending(o) + uncounted[o]
    BY DEF FulfilledCountsContributions
  <2>1. Pending(o) = 0
    <3>1. /\ Counting(o) \in [Task -> Int] /\ \A t \in Task : Counting(o)[t] = 0
          /\ Pending(o) = SumFunction(Counting(o))
      BY <1>1, PendingType DEF ChainInit, Counting, Counted, Counts, NoTask
    <3>2. \A g \in [Task -> Int] : (\A t \in Task : g[t] = 0) => SumFunction(g) = 0
      BY ChainFacts, TotalZero
    <3> QED BY <3>1, <3>2
  <2>2. given[o] = None /\ fulfilled[o] = 0 /\ uncounted[o] = 0
    BY DEF ChainInit
  <2> QED BY <1>3, <2>1, <2>2
<1>5. Spent <= passes * Rate * Ceiling[Primary]
  <2>1. Spent = 0
    BY <1>2, <1>3, NothingLeft DEF Spent, ChainInit
  <2>2. passes = 0 /\ Rate \in Int /\ Ceiling[Primary] \in Int
    BY ChainFacts DEF ChainInit
  <2>3. \A r, c \in Int : 0 * r * c = 0
    OBVIOUS
  <2> QED BY <2>1, <2>2, <2>3
<1> QED BY <1>1, <1>2, <1>4, <1>5 DEF ChainInv, SharedWhenEnded

(* The objectives change, and the event moves on, before any pass shares.  *)
LEMMA EventKeeps ==
  ASSUME ChainInv, stage # "ended", objectives' \subseteq Objective,
         UNCHANGED <<given, fulfilled, uncounted, task, pass, fund, paid, served, passes>>
  PROVE  ChainInv'
<1>1. \A p \in Pass : ~Sharing(pass[p])
  BY DEF ChainInv, SharedWhenEnded
<1>2. \A p \in Pass : ~Sharing(pass'[p])
  BY <1>1
<1>3. SumFunction(Lefts) = 0
  BY <1>1, NothingLeft
<1>4. SumFunction(Lefts') = 0
  <2>1. Lefts' = Lefts
    BY <1>1, <1>2 DEF Lefts, Left, Sharing
  <2> QED BY <1>3, <2>1
<1>5. ChainTypes'
  BY DEF ChainInv, ChainTypes
<1>6. SharedWhenEnded'
  BY <1>2 DEF SharedWhenEnded
<1>7. FulfilledCountsContributions'
  BY DEF ChainInv, FulfilledCountsContributions, Pending, Counts
<1>8. (Spent <= passes * Rate * Ceiling[Primary])'
  BY <1>3, <1>4 DEF ChainInv, Spent
<1> QED BY <1>5, <1>6, <1>7, <1>8 DEF ChainInv

(* A restart drops the passes and the deliveries, with what was to count.  *)
LEMMA RestartKeeps ==
  ASSUME ChainInv, Restart
  PROVE  ChainInv'
<1>1. /\ uncounted' = [o \in Objective |-> uncounted[o] + Pending(o)]
      /\ task' = [t \in Task |-> NoTask] /\ pass' = [p \in Pass |-> NoPass]
      /\ UNCHANGED <<stage, objectives, given, fulfilled, fund, paid, served, passes>>
  BY DEF Restart, event, money
<1>2. \A o \in Objective : Pending(o) \in Nat /\ uncounted[o] \in Nat
  BY PendingType DEF ChainInv, ChainTypes
<1>3. ChainTypes'
  <2>1. uncounted' \in [Objective -> Nat]
    BY <1>1, <1>2
  <2>2. task' \in [Task -> TaskFrames] /\ pass' \in [Pass -> PassFrames]
    BY <1>1 DEF TaskFrames, PassFrames
  <2> QED BY <1>1, <2>1, <2>2 DEF ChainInv, ChainTypes
<1>4. \A p \in Pass : ~Sharing(pass'[p])
  BY <1>1 DEF Sharing, NoPass
<1>5. SharedWhenEnded'
  BY <1>4 DEF SharedWhenEnded
<1>6. FulfilledCountsContributions'
  <2> SUFFICES ASSUME NEW o \in Objective
               PROVE  SumFunction(given'[o]) = fulfilled'[o] + Pending(o)' + uncounted'[o]
    BY DEF FulfilledCountsContributions
  <2>1. Pending(o)' = 0
    <3> DEFINE g == [t \in Task |-> IF Counts(task'[t], o) THEN task'[t].qty ELSE 0]
    <3>1. g \in [Task -> Int] /\ \A t \in Task : g[t] = 0
      BY <1>1 DEF Counts, NoTask
    <3>2. Pending(o)' = SumFunction(g)
      BY DEF Pending, Counts
    <3> HIDE DEF g
    <3> QED BY <3>1, <3>2, ChainFacts, TotalZero
  <2>2. fulfilled[o] \in Nat
    BY DEF ChainInv, ChainTypes
  <2>3. SumFunction(given[o]) = fulfilled[o] + Pending(o) + uncounted[o]
    BY DEF ChainInv, FulfilledCountsContributions
  <2>4. /\ given'[o] = given[o] /\ fulfilled'[o] = fulfilled[o]
        /\ uncounted'[o] = uncounted[o] + Pending(o)
    BY <1>1
  <2>5. fulfilled[o] + Pending(o) + uncounted[o] = fulfilled[o] + 0 + (uncounted[o] + Pending(o))
    BY <1>2, <2>2
  <2> QED BY <2>1, <2>3, <2>4, <2>5
<1>7. (Spent <= passes * Rate * Ceiling[Primary])'
  <2>1. SumFunction(Lefts)' = 0
    <3> DEFINE g == Lefts'
    <3>1. g \in [Pass -> Int] /\ \A p \in Pass : g[p] = 0
      BY <1>4 DEF Sharing, Lefts, Left
    <3> HIDE DEF g
    <3>2. SumFunction(g) = 0
      BY <3>1, ChainFacts, TotalZero
    <3> QED BY <3>2 DEF g
  <2>2. /\ SumFunction(Lefts) \in Nat
        /\ SumFunction(paid) \in Nat /\ SumFunction(served) \in Nat
    <3>1. \A p \in Pass : Left(pass[p]) \in Nat
      BY LeftType DEF ChainInv, ChainTypes, SharedWhenEnded
    <3>2. Lefts \in [Pass -> Nat]
      BY <3>1 DEF Lefts
    <3> QED BY <3>2, ChainFacts, TotalNat DEF ChainInv, ChainTypes
  <2>3. Spent' <= Spent
    BY <1>1, <2>1, <2>2 DEF Spent
  <2>4. Spent \in Int /\ Spent' \in Int
    BY <1>1, <2>1, <2>2 DEF Spent
  <2>5. passes * Rate * Ceiling[Primary] \in Int
    <3>1. \A a, b, c \in Nat : a * b * c \in Int
      OBVIOUS
    <3> QED BY <3>1, ChainFacts DEF ChainInv, ChainTypes
  <2>6. Spent' <= passes * Rate * Ceiling[Primary]
    BY <2>3, <2>4, <2>5 DEF ChainInv
  <2> QED BY <1>1, <2>6
<1> QED BY <1>3, <1>5, <1>6, <1>7 DEF ChainInv

LEMMA ChainStepInv ==
  ASSUME ChainInv, [ChainNext]_chainVars
  PROVE  ChainInv'
<1>1. CASE \E o \in Objective : AddObjective(o)
  BY <1>1, EventKeeps DEF AddObjective, money, ChainInv, ChainTypes
<1>2. CASE Made \/ Abandoned \/ End
  BY <1>2, EventKeeps DEF Made, Abandoned, End, money, ChainInv, ChainTypes
<1>3. CASE Restart
  BY <1>3, RestartKeeps
<1>4. ASSUME NEW t \in Task, Deliver(t) \/ Record(t) \/ Count(t) PROVE ChainInv'
  BY <1>4, DeliverKeeps, RecordKeeps, CountKeeps
<1>5. ASSUME NEW p \in Pass, Begin(p) \/ Group(p) \/ Pay(p) \/ Mark(p) \/ Fail(p)
      PROVE  ChainInv'
  BY <1>5, BeginKeeps, GroupKeeps, PayKeeps, PassEnds
<1>6. CASE UNCHANGED chainVars
  BY <1>6 DEF chainVars, ChainInv, ChainTypes, SharedWhenEnded, Sharing, Spent, Lefts,
              Left, Undistributed, Shares, FulfilledCountsContributions, Pending, Counts
<1> QED BY <1>1, <1>2, <1>3, <1>4, <1>5, <1>6 DEF ChainNext

LEMMA ChainIsInv == ChainSpec => []ChainInv
<1>1. ChainInit => ChainInv
  BY ChainInitInv
<1>2. ChainInv /\ [ChainNext]_chainVars => ChainInv'
  BY ChainStepInv
<1> QED BY <1>1, <1>2, PTL DEF ChainSpec

(* Whatever deliveries race past the ceiling and however the pool is       *)
(* divided, each pass of the monitor gives at most the pool at its ceiling. *)
THEOREM RewardsAreWithinPool == ChainSpec => []RewardsWithinPool
<1>1. ChainInv => RewardsWithinPool
  <2> SUFFICES ASSUME ChainInv PROVE RewardsWithinPool
    OBVIOUS
  <2>1. /\ SumFunction(Lefts) \in Nat
        /\ SumFunction(paid) \in Nat /\ SumFunction(served) \in Nat
    <3>1. \A p \in Pass : Left(pass[p]) \in Nat
      BY LeftType DEF ChainInv, ChainTypes, SharedWhenEnded
    <3>2. Lefts \in [Pass -> Nat]
      BY <3>1 DEF Lefts
    <3> QED BY <3>2, ChainFacts, TotalNat DEF ChainInv, ChainTypes
  <2>2. passes * Rate * Ceiling[Primary] \in Int
    <3>1. \A a, b, c \in Nat : a * b * c \in Int
      OBVIOUS
    <3> QED BY <3>1, ChainFacts DEF ChainInv, ChainTypes
  <2> QED BY <2>1, <2>2 DEF ChainInv, Spent, RewardsWithinPool
<1> QED BY <1>1, ChainIsInv, PTL

(* What the contributors are paid by is what counts towards the ceiling,   *)
(* but for the writes a restart separated, however deliveries interleave.  *)
THEOREM CountsMatch == ChainSpec => []FulfilledCountsContributions
<1>1. ChainInv => FulfilledCountsContributions
  BY DEF ChainInv
<1> QED BY <1>1, ChainIsInv, PTL

-----------------------------------------------------------------------------
(* ----- Vouchers -----                                                    *)
Claims == [at : {"idle", "floor", "fund", "bank", "mark"}, who : Player \cup {Nobody}]

VoucherTypes ==
  /\ claimedBy \in Player \cup {Nobody}
  /\ treasury \in Int /\ banked \in [Player -> Nat]
  /\ claim \in [Claim -> Claims]
  /\ overlaps \in Nat /\ refusals \in Nat /\ restarts \in Nat
  /\ \A k \in Claim : claim[k].at # "idle" => claim[k].who \in Player

(* What the claims in progress may still pay.                              *)
Due(c)  == IF c.at \in {"floor", "fund", "bank"} THEN Amount ELSE 0
Dues    == [k \in Claim |-> Due(claim[k])]
Claiming == \E k \in Claim : claim[k].at # "idle"

(* One payment is the first claim's: it is in progress or has left its     *)
(* mark, unless a restart has swept it away.                               *)
Earned == Amount * (overlaps + restarts
                      + (IF Claiming \/ claimedBy # Nobody THEN 1 ELSE 0))
PaidOnce == Banked + SumFunction(Dues) <= Earned

(* A claim about to be marked was paid, or refused below the floor.        *)
Satisfied == Banked >= Amount * (1 - refusals)
MarksArePaid ==
  (claimedBy # Nobody \/ \E k \in Claim : claim[k].at = "mark") => Satisfied

VoucherInv == VoucherTypes /\ PaidOnce /\ MarksArePaid

LEMMA BankedIsNat == ASSUME VoucherTypes PROVE Banked \in Nat
BY VoucherAssumption, TotalNat DEF VoucherTypes, Banked

LEMMA VoucherInitInv == ASSUME VoucherInit PROVE VoucherInv
<1>1. VoucherTypes
  BY VoucherAssumption DEF VoucherInit, VoucherTypes, Claims, NoClaim
<1>2. Banked = 0 /\ SumFunction(Dues) = 0
  <2>1. banked \in [Player -> Int] /\ \A p \in Player : banked[p] = 0
    BY DEF VoucherInit
  <2>2. Dues \in [Claim -> Int] /\ \A k \in Claim : Dues[k] = 0
    BY DEF VoucherInit, Dues, Due, NoClaim
  <2> QED BY <2>1, <2>2, VoucherAssumption, TotalZero DEF Banked
<1>3. ~Claiming /\ claimedBy = Nobody /\ overlaps = 0 /\ restarts = 0
  BY DEF VoucherInit, Claiming, NoClaim
<1>4. PaidOnce
  BY <1>2, <1>3, VoucherAssumption DEF PaidOnce, Earned
<1>5. MarksArePaid
  BY <1>3 DEF MarksArePaid, Claiming
<1> QED BY <1>1, <1>4, <1>5 DEF VoucherInv

(* A step of one claim: it pays b and goes from claim[k] to c.             *)
LEMMA ClaimMoves ==
  ASSUME VoucherTypes, NEW k \in Claim, NEW c \in Claims,
         claim' = [claim EXCEPT ![k] = c]
  PROVE  /\ SumFunction(Dues') = SumFunction(Dues) + Due(c) - Due(claim[k])
         /\ SumFunction(Dues) \in Int
         /\ claim'[k] = c /\ \A j \in Claim \ {k} : claim'[j] = claim[j]
         /\ claim' \in [Claim -> Claims]
<1>1. /\ claim'[k] = c /\ \A j \in Claim \ {k} : claim'[j] = claim[j]
      /\ claim' \in [Claim -> Claims]
  BY DEF VoucherTypes
<1>2. /\ Dues \in [Claim -> Int] /\ Due(c) \in Int /\ IsFiniteSet(Claim)
      /\ Dues[k] = Due(claim[k])
  BY VoucherAssumption DEF Dues, Due
<1>3. Dues' = [Dues EXCEPT ![k] = Due(c)]
  BY <1>1 DEF Dues
<1>4. SumFunction(Dues') = SumFunction(Dues) + Due(c) - Dues[k]
  BY <1>2, <1>3, TotalChanged
<1> QED BY <1>1, <1>2, <1>4, TotalInt

LEMMA Multiples ==
  \A n, m \in Int : Amount * n \in Int /\ Amount * (n + m) = Amount * n + Amount * m
                    /\ Amount * (n + 1) = Amount * n + Amount
                    /\ (n >= 0 => Amount * n >= 0) /\ (n <= 0 => Amount * n <= 0)
                    /\ Amount \in Int /\ Amount >= 1
<1>1. Amount \in Nat \ {0}
  BY VoucherAssumption
<1> QED BY <1>1

LEMMA ReadKeeps ==
  ASSUME VoucherInv, NEW k \in Claim, Read(k)
  PROVE  VoucherInv'
<1>1. PICK p \in Player :
        /\ claim' = [claim EXCEPT ![k] = [at |-> "floor", who |-> p]]
        /\ claim[k].at = "idle" /\ claimedBy = Nobody
        /\ overlaps' = overlaps + (IF Claiming THEN 1 ELSE 0)
        /\ UNCHANGED <<owner, claimedBy, treasury, banked, refusals, restarts>>
  BY DEF Read, Claimable, Claiming
<1> DEFINE c == [at |-> "floor", who |-> p]
<1>2. c \in Claims /\ c.at = "floor" /\ c.who = p /\ claim' = [claim EXCEPT ![k] = c]
  BY <1>1 DEF Claims
<1> HIDE DEF c
<1>3. /\ SumFunction(Dues') = SumFunction(Dues) + Due(c) - Due(claim[k])
      /\ SumFunction(Dues) \in Int
      /\ claim'[k] = c /\ \A j \in Claim \ {k} : claim'[j] = claim[j]
      /\ claim' \in [Claim -> Claims]
  BY <1>2, ClaimMoves DEF VoucherInv
<1>4. VoucherTypes'
  BY <1>1, <1>2, <1>3 DEF VoucherInv, VoucherTypes
<1>5. PaidOnce'
  <2>1. Claiming' /\ Due(c) = Amount /\ Due(claim[k]) = 0
    BY <1>1, <1>2, <1>3 DEF Claiming, Due
  <2>2. overlaps \in Nat /\ restarts \in Nat /\ Banked \in Int /\ Banked' = Banked
    BY <1>1, BankedIsNat DEF VoucherInv, VoucherTypes, Banked
  <2> DEFINE n == overlaps + restarts + (IF Claiming THEN 1 ELSE 0)
  <2>3. /\ Earned = Amount * n /\ Earned' = Amount * (n + 1)
        /\ n \in Int
    BY <1>1, <2>1, <2>2 DEF Earned
  <2> HIDE DEF n
  <2>4. Earned' = Earned + Amount /\ Earned \in Int /\ Amount \in Int
    BY <2>3, Multiples
  <2> QED BY <1>3, <2>1, <2>2, <2>4 DEF VoucherInv, PaidOnce
<1>6. MarksArePaid'
  BY <1>1, <1>2, <1>3 DEF VoucherInv, MarksArePaid, Satisfied, Banked
<1> QED BY <1>4, <1>5, <1>6 DEF VoucherInv

(* A claim that was read stays in progress until its mark.                 *)
LEMMA ClaimKeeps ==
  ASSUME VoucherInv, NEW k \in Claim, claim[k].at # "idle", NEW c \in Claims,
         claim' = [claim EXCEPT ![k] = c], NEW b \in Nat,
         VoucherTypes', Banked' = Banked + b,
         b + Due(c) <= Due(claim[k]),
         c.at # "idle" \/ claimedBy' # Nobody,
         claimedBy # Nobody => claimedBy' # Nobody,
         UNCHANGED <<overlaps, restarts>>, refusals' >= refusals,
         (c.at = "mark" \/ claimedBy' # claimedBy) => Satisfied'
  PROVE  VoucherInv'
<1>1. /\ SumFunction(Dues') = SumFunction(Dues) + Due(c) - Due(claim[k])
      /\ SumFunction(Dues) \in Int
      /\ claim'[k] = c /\ \A j \in Claim \ {k} : claim'[j] = claim[j]
  BY ClaimMoves DEF VoucherInv
<1>2. Banked \in Int /\ refusals \in Int /\ refusals' \in Int
  BY BankedIsNat DEF VoucherInv, VoucherTypes
<1>3. Due(c) \in Int /\ Due(claim[k]) \in Int /\ Earned \in Int
  <2>1. overlaps \in Nat /\ restarts \in Nat
    BY DEF VoucherInv, VoucherTypes
  <2> QED BY <2>1, Multiples DEF Due, Earned
<1>4. Earned' = Earned
  BY <1>1 DEF Earned, Claiming
<1>5. PaidOnce'
  BY <1>1, <1>2, <1>3, <1>4 DEF VoucherInv, PaidOnce
<1>6. Satisfied => Satisfied'
  <2>0. \A x, y \in Int : x <= y =>
          /\ 1 - x = (1 - y) + (y - x) /\ 1 - y \in Int
          /\ y - x \in Int /\ y - x >= 0
    OBVIOUS
  <2>1. /\ 1 - refusals = (1 - refusals') + (refusals' - refusals)
        /\ 1 - refusals' \in Int
        /\ refusals' - refusals \in Int /\ refusals' - refusals >= 0
    <3>1. refusals <= refusals'
      BY <1>2
    <3> QED BY <1>2, <2>0, <3>1
  <2>2. /\ Amount * (1 - refusals) = Amount * (1 - refusals') + Amount * (refusals' - refusals)
        /\ Amount * (refusals' - refusals) >= 0
        /\ Amount * (1 - refusals') \in Int /\ Amount * (refusals' - refusals) \in Int
    BY <2>1, Multiples
  <2> QED BY <1>2, <2>2 DEF Satisfied
<1>7. MarksArePaid'
  BY <1>1, <1>6 DEF VoucherInv, MarksArePaid
<1> QED BY <1>5, <1>7 DEF VoucherInv

LEMMA VoucherStepInv ==
  ASSUME VoucherInv, NEW k \in Claim,
         CheckFloor(k) \/ FromTreasury(k) \/ ToChecking(k) \/ MarkClaimed(k)
  PROVE  VoucherInv'
<1>1. /\ VoucherTypes /\ VoucherTypes' /\ claim[k].at # "idle" /\ claim[k] \in Claims
      /\ claim[k].who \in Player
      /\ Amount \in Nat /\ Nobody \notin Player
      /\ Banked \in Nat /\ refusals \in Nat
  <2>1. VoucherTypes /\ Amount \in Nat /\ Nobody \notin Player
    BY VoucherAssumption DEF VoucherInv
  <2>2. claim[k].at # "idle" /\ claim[k] \in Claims /\ claim[k].who \in Player
    BY <2>1 DEF VoucherTypes, CheckFloor, FromTreasury, ToChecking, MarkClaimed
  <2>3. ASSUME CheckFloor(k) PROVE VoucherTypes'
    BY <2>1, <2>2, <2>3 DEF CheckFloor, VoucherTypes, Claims
  <2>4. ASSUME FromTreasury(k) PROVE VoucherTypes'
    BY <2>1, <2>2, <2>4 DEF FromTreasury, VoucherTypes, Claims
  <2>5. ASSUME ToChecking(k) PROVE VoucherTypes'
    BY <2>1, <2>2, <2>5 DEF ToChecking, VoucherTypes, Claims
  <2>6. ASSUME MarkClaimed(k) PROVE VoucherTypes'
    BY <2>1, <2>2, <2>6 DEF MarkClaimed, VoucherTypes, Claims, NoClaim
  <2>7. VoucherTypes'
    BY <2>3, <2>4, <2>5, <2>6
  <2> QED BY <2>1, <2>2, <2>7, BankedIsNat DEF VoucherTypes
<1>2. CASE CheckFloor(k)
  <2> DEFINE at == IF Amount <= treasury THEN "fund" ELSE "mark"
             c == [claim[k] EXCEPT !.at = at]
  <2>1. /\ claim' = [claim EXCEPT ![k] = c] /\ claim[k].at = "floor"
        /\ refusals' = (IF at = "fund" THEN refusals ELSE refusals + 1)
        /\ UNCHANGED <<claimedBy, banked, overlaps, restarts>>
    BY <1>2 DEF CheckFloor
  <2>2. c \in Claims /\ c.at = at /\ at \in {"fund", "mark"}
    BY <1>1 DEF Claims
  <2> HIDE DEF c, at
  <2>3. 0 + Due(c) <= Due(claim[k])
    BY <1>1, <2>1, <2>2 DEF Due
  <2>4. at = "mark" => Satisfied'
    <3>1. CASE at = "mark"
      <4>1. 1 - refusals' \in Int /\ 1 - refusals' <= 0 /\ Banked' = Banked
        BY <1>1, <2>1, <3>1 DEF Banked
      <4>2. Amount * (1 - refusals') <= 0 /\ Amount * (1 - refusals') \in Int
        BY <4>1, Multiples
      <4> QED BY <1>1, <4>1, <4>2 DEF Satisfied
    <3> QED BY <3>1
  <2>5. Banked' = Banked + 0 /\ refusals' >= refusals /\ 0 \in Nat
    BY <1>1, <2>1 DEF Banked
  <2> QED BY <1>1, <2>1, <2>2, <2>3, <2>4, <2>5, ClaimKeeps
<1>3. CASE FromTreasury(k)
  <2> DEFINE c == [claim[k] EXCEPT !.at = "bank"]
  <2>1. /\ claim' = [claim EXCEPT ![k] = c] /\ claim[k].at = "fund"
        /\ UNCHANGED <<claimedBy, banked, overlaps, refusals, restarts>>
    BY <1>3 DEF FromTreasury
  <2>2. c \in Claims /\ c.at = "bank"
    BY <1>1 DEF Claims
  <2> HIDE DEF c
  <2>3. 0 + Due(c) <= Due(claim[k])
    BY <1>1, <2>1, <2>2 DEF Due
  <2>5. Banked' = Banked + 0 /\ refusals' >= refusals /\ 0 \in Nat
    BY <1>1, <2>1 DEF Banked
  <2> QED BY <1>1, <2>1, <2>2, <2>3, <2>5, ClaimKeeps
<1>4. CASE ToChecking(k)
  <2> DEFINE c == [claim[k] EXCEPT !.at = "mark"]
             p == claim[k].who
  <2>1. /\ claim' = [claim EXCEPT ![k] = c] /\ claim[k].at = "bank"
        /\ banked' = [banked EXCEPT ![p] = banked[p] + Amount]
        /\ UNCHANGED <<claimedBy, overlaps, refusals, restarts>>
    BY <1>4 DEF ToChecking
  <2>2. c \in Claims /\ c.at = "mark"
    BY <1>1 DEF Claims
  <2> HIDE DEF c
  <2>3. Amount + Due(c) <= Due(claim[k])
    BY <1>1, <2>1, <2>2 DEF Due
  <2>4. Banked' = Banked + Amount
    <3>1. /\ banked \in [Player -> Int] /\ banked[p] \in Int /\ banked[p] + Amount \in Int
          /\ IsFiniteSet(Player) /\ p \in Player
      BY <1>1, VoucherAssumption DEF VoucherTypes
    <3> HIDE DEF p
    <3>2. SumFunction(banked') = SumFunction(banked) + (banked[p] + Amount) - banked[p]
      BY <2>1, <3>1, TotalChanged
    <3>3. SumFunction(banked) \in Int
      BY <3>1, TotalInt
    <3> QED BY <1>1, <3>1, <3>2, <3>3 DEF Banked
  <2>5. Satisfied'
    <3>1. 1 - refusals \in Int /\ -refusals \in Int /\ 1 - refusals = -refusals + 1 /\ -refusals <= 0
      BY <1>1
    <3>2. /\ Amount * (1 - refusals) = Amount * (-refusals) + Amount
          /\ Amount * (-refusals) <= 0 /\ Amount * (-refusals) \in Int
      BY <3>1, Multiples
    <3> QED BY <1>1, <2>1, <2>4, <3>2 DEF Satisfied
  <2>6. refusals' >= refusals
    BY <1>1, <2>1
  <2> QED BY <1>1, <2>1, <2>2, <2>3, <2>4, <2>5, <2>6, ClaimKeeps
<1>5. CASE MarkClaimed(k)
  <2>1. /\ claim' = [claim EXCEPT ![k] = NoClaim] /\ claim[k].at = "mark"
        /\ claimedBy' = claim[k].who
        /\ UNCHANGED <<banked, overlaps, refusals, restarts>>
    BY <1>5 DEF MarkClaimed
  <2>2. NoClaim \in Claims /\ NoClaim.at = "idle" /\ claimedBy' # Nobody
    BY <1>1, <2>1 DEF Claims, NoClaim
  <2>3. 0 + Due(NoClaim) <= Due(claim[k])
    BY <1>1, <2>1, <2>2 DEF Due
  <2>4. Satisfied'
    BY <2>1 DEF VoucherInv, MarksArePaid, Satisfied, Banked
  <2>5. Banked' = Banked + 0 /\ refusals' >= refusals /\ 0 \in Nat
    BY <1>1, <2>1 DEF Banked
  <2> QED BY <1>1, <2>1, <2>2, <2>3, <2>4, <2>5, ClaimKeeps
<1> QED BY <1>2, <1>3, <1>4, <1>5

LEMMA RestartedKeeps ==
  ASSUME VoucherInv, Restarted
  PROVE  VoucherInv'
<1>1. /\ restarts' = restarts + 1 /\ claim' = [k \in Claim |-> NoClaim]
      /\ UNCHANGED <<owner, claimedBy, treasury, banked, overlaps, refusals>>
  BY DEF Restarted
<1>2. VoucherTypes'
  BY <1>1 DEF VoucherInv, VoucherTypes, Claims, NoClaim
<1>3. SumFunction(Dues') = 0
  <2>1. Dues' \in [Claim -> Int] /\ \A k \in Claim : Dues'[k] = 0
    BY <1>1 DEF Dues, Due, NoClaim
  <2> QED BY <2>1, VoucherAssumption, TotalZero
<1>4. SumFunction(Dues) \in Int /\ SumFunction(Dues) >= 0
  <2>1. Dues \in [Claim -> Nat]
    BY VoucherAssumption DEF Dues, Due
  <2> QED BY <2>1, VoucherAssumption, TotalNat
<1>5. PaidOnce'
  <2> DEFINE n == overlaps + restarts + (IF Claiming \/ claimedBy # Nobody THEN 1 ELSE 0)
             m == overlaps + restarts + 1 + (IF claimedBy # Nobody THEN 1 ELSE 0)
  <2>1. /\ n \in Int /\ m \in Int /\ m - n \in Int /\ m - n >= 0 /\ m = n + (m - n)
        /\ Banked \in Int /\ Banked' = Banked
    BY <1>1, BankedIsNat DEF VoucherInv, VoucherTypes, Banked
  <2>2. ~Claiming'
    BY <1>1 DEF Claiming, NoClaim
  <2>3. Earned = Amount * n /\ Earned' = Amount * m
    BY <1>1, <2>2 DEF Earned, VoucherInv, VoucherTypes
  <2> HIDE DEF n, m
  <2>4. /\ Amount * m = Amount * n + Amount * (m - n) /\ Amount * (m - n) >= 0
        /\ Amount * n \in Int /\ Amount * (m - n) \in Int
    BY <2>1, Multiples
  <2> QED BY <1>3, <1>4, <2>1, <2>3, <2>4 DEF VoucherInv, PaidOnce
<1>6. MarksArePaid'
  BY <1>1 DEF VoucherInv, MarksArePaid, Satisfied, Banked, NoClaim
<1> QED BY <1>2, <1>5, <1>6 DEF VoucherInv

(* However claims of one voucher overlap, restart or find the treasury at  *)
(* its floor, it is paid once and once more for each overlap and restart;  *)
(* and a mark means it was paid, or refused by the treasury.               *)
THEOREM VouchersArePaidOnce == VoucherSpec => []VoucherPaidOnce
<1>1. VoucherInit => VoucherInv
  BY VoucherInitInv
<1>2. VoucherInv /\ [VoucherNext]_voucherVars => VoucherInv'
  <2> SUFFICES ASSUME VoucherInv, [VoucherNext]_voucherVars PROVE VoucherInv'
    OBVIOUS
  <2>1. CASE VoucherNext
    BY <2>1, RestartedKeeps, ReadKeeps, VoucherStepInv DEF VoucherNext
  <2>2. CASE UNCHANGED voucherVars
    BY <2>2 DEF voucherVars, VoucherInv, VoucherTypes, PaidOnce, MarksArePaid,
                Satisfied, Banked, Dues, Earned, Claiming
  <2> QED BY <2>1, <2>2
<1>3. VoucherInv => VoucherPaidOnce
  <2> SUFFICES ASSUME VoucherInv PROVE VoucherPaidOnce
    OBVIOUS
  <2>1. SumFunction(Dues) \in Int /\ SumFunction(Dues) >= 0
    <3>1. Dues \in [Claim -> Nat]
      BY VoucherAssumption DEF Dues, Due
    <3> QED BY <3>1, VoucherAssumption, TotalNat
  <2> DEFINE n == overlaps + restarts + (IF Claiming \/ claimedBy # Nobody THEN 1 ELSE 0)
             m == 1 + overlaps + restarts
  <2>2. /\ n \in Int /\ m \in Int /\ m - n \in Int /\ m - n >= 0 /\ m = n + (m - n)
        /\ Banked \in Int /\ Earned = Amount * n
    BY BankedIsNat DEF VoucherInv, VoucherTypes, Earned
  <2> HIDE DEF n
  <2>3. /\ Amount * m = Amount * n + Amount * (m - n) /\ Amount * (m - n) >= 0
        /\ Amount * n \in Int /\ Amount * (m - n) \in Int
    BY <2>2, Multiples
  <2>4. Banked <= Amount * m
    BY <2>1, <2>2, <2>3 DEF VoucherInv, PaidOnce
  <2> QED BY <2>4 DEF VoucherPaidOnce, VoucherInv, MarksArePaid, Satisfied
<1> QED BY <1>1, <1>2, <1>3, PTL DEF VoucherSpec

-----------------------------------------------------------------------------
(* ----- Guilds -----                                                      *)
Place == Guild \cup {NoGuild}
HandlerSteps == {"idle", "find", "end", "look", "replace", "create", "join"}

GuildTypes ==
  /\ seat \in Place /\ session \in Place
  /\ handler \in [Handler -> [at : HandlerSteps, guild : Place]]
  /\ moves \in Nat /\ orderly \in BOOLEAN

(* Only the task of a guild's vehicle gets as far as its session.          *)
Activating(h) == handler[h].at \in {"look", "replace", "create", "join"}
ForGuilds == \A h \in Handler : Activating(h) => handler[h].guild \in Guild

(* Who has the session is a member, or becomes one.                        *)
Joins == session # NoGuild =>
  \/ session \in members
  \/ \E h \in Handler : handler[h].at = "join" /\ handler[h].guild = session

(* After an orderly move the task of that move is the only one, and it is  *)
(* about the vehicle that the player is in.                                *)
OneHandler == orderly =>
  \A h, j \in Handler :
    handler[h].at # "idle" /\ handler[j].at # "idle" => h = j
Follows == orderly =>
  \A h \in Handler :
    /\ handler[h].at # "idle" => handler[h].guild = seat
    /\ handler[h].at = "end" => seat = NoGuild
    /\ handler[h].at = "create" => session = NoGuild
    /\ handler[h].at = "join" => session = seat
Settles == orderly /\ AllIdle => session = seat

GuildInv == GuildTypes /\ ForGuilds /\ Joins /\ OneHandler /\ Follows /\ Settles

LEMMA GuildInitInv == GuildInit => GuildInv
BY GuildsAssumption DEF GuildInit, GuildInv, GuildTypes, Place, HandlerSteps, Idle,
     ForGuilds, Activating, Joins, OneHandler, Follows, Settles

-----------------------------------------------------------------------------
(* A log line: orderly afterwards only if it found every task idle.        *)
LEMMA MoveKeeps ==
  ASSUME NEW h \in Handler, NEW spot \in Place, NEW step \in {"find", "end"},
         step = "end" => spot = NoGuild,
         GuildInv, Move(h, spot, step)
  PROVE  GuildInv'
<1>1. handler' = [handler EXCEPT ![h] = [at |-> step, guild |-> spot]]
      /\ seat' = spot /\ session' = session /\ members' = members
      /\ orderly' = AllIdle /\ moves' = moves + 1
  BY DEF Move
<1>2. \A j \in Handler : j # h => handler'[j] = handler[j]
  BY <1>1 DEF GuildInv, GuildTypes
<1>3. handler'[h].at = step /\ handler'[h].guild = spot
  BY <1>1 DEF GuildInv, GuildTypes
<1>4. GuildTypes'
  BY <1>1 DEF GuildInv, GuildTypes, HandlerSteps, Place, AllIdle
<1>5. ForGuilds'
  BY <1>2, <1>3 DEF GuildInv, ForGuilds, Activating
<1>6. Joins'
  <2>1. handler[h].at # "join"
    BY DEF Move
  <2> QED
    BY <1>1, <1>2, <2>1 DEF GuildInv, Joins
<1>7. OneHandler' /\ Follows' /\ Settles'
  BY <1>1, <1>2, <1>3 DEF AllIdle, OneHandler, Follows, Settles
<1> QED
  BY <1>4, <1>5, <1>6, <1>7 DEF GuildInv

(* The steps of a task that only take it further.                          *)
LEMMA GoOnKeeps ==
  ASSUME NEW h \in Handler, NEW step \in HandlerSteps, GuildInv, Step(h, step),
         UNCHANGED <<seat, session, members, moves>>,
         orderly' \in BOOLEAN, orderly' => orderly,
         handler[h].at \notin {"idle", "join"}, step \notin {"idle", "join", "create"},
         step \in {"look", "replace"} => handler[h].guild \in Guild,
         orderly' /\ step = "end" => handler[h].guild = NoGuild
  PROVE  GuildInv'
<1>1. handler' = [handler EXCEPT ![h].at = step]
  BY DEF Step
<1>2. \A j \in Handler : j # h => handler'[j] = handler[j]
  BY <1>1 DEF GuildInv, GuildTypes
<1>3. handler'[h].at = step /\ handler'[h].guild = handler[h].guild
  BY <1>1 DEF GuildInv, GuildTypes
<1>4. GuildTypes'
  BY <1>1 DEF GuildInv, GuildTypes
<1>5. ForGuilds'
  BY <1>2, <1>3 DEF GuildInv, ForGuilds, Activating
<1>6. Joins'
  BY <1>2, <1>3 DEF GuildInv, Joins
<1>7. OneHandler'
  BY <1>2, <1>3 DEF GuildInv, OneHandler
<1>8. Follows'
  BY <1>2, <1>3 DEF GuildInv, Follows
<1>9. Settles'
  BY <1>3 DEF Settles, AllIdle
<1> QED
  BY <1>4, <1>5, <1>6, <1>7, <1>8, <1>9 DEF GuildInv

LEMMA EndKeeps ==
  ASSUME NEW h \in Handler, GuildInv, EndActiveSession(h)
  PROVE  GuildInv'
<1>1. /\ handler' = [handler EXCEPT ![h] = Idle] /\ session' = NoGuild
      /\ UNCHANGED <<seat, members, moves, orderly>> /\ handler[h].at = "end"
  BY DEF EndActiveSession, Done
<1>2. \A j \in Handler : j # h => handler'[j] = handler[j]
  BY <1>1 DEF GuildInv, GuildTypes
<1>3. handler'[h].at = "idle"
  BY <1>1 DEF GuildInv, GuildTypes, Idle
<1>4. GuildTypes'
  BY <1>1 DEF GuildInv, GuildTypes, HandlerSteps, Place, Idle
<1>5. ForGuilds' /\ Joins'
  BY <1>1, <1>2, <1>3 DEF GuildInv, ForGuilds, Activating, Joins
<1>6. orderly' => \A j \in Handler : handler'[j].at = "idle"
  BY <1>1, <1>2, <1>3 DEF GuildInv, OneHandler
<1>7. OneHandler' /\ Follows'
  BY <1>6 DEF OneHandler, Follows
<1>8. Settles'
  BY <1>1 DEF GuildInv, Follows, Settles
<1> QED
  BY <1>4, <1>5, <1>7, <1>8 DEF GuildInv

(* _activate_guild finds the session, or goes on to replace it.            *)
LEMMA LookKeeps ==
  ASSUME NEW h \in Handler, GuildInv, Look(h)
  PROVE  GuildInv'
<1>1. CASE session # handler[h].guild
  <2>1. Step(h, "replace")
    BY <1>1 DEF Look
  <2>2. handler[h].at = "look" /\ UNCHANGED <<seat, session, members, moves, orderly>>
    BY DEF Look
  <2>3. handler[h].guild \in Guild
    BY <2>2 DEF GuildInv, ForGuilds, Activating
  <2> QED
    BY <2>1, <2>2, <2>3, GoOnKeeps DEF GuildInv, GuildTypes, HandlerSteps
<1>2. CASE session = handler[h].guild
  <2>1. /\ handler' = [handler EXCEPT ![h] = Idle] /\ handler[h].at = "look"
        /\ UNCHANGED <<seat, session, members, moves, orderly>>
    BY <1>2 DEF Look, Done
  <2>2. \A j \in Handler : j # h => handler'[j] = handler[j]
    BY <2>1 DEF GuildInv, GuildTypes
  <2>3. handler'[h].at = "idle"
    BY <2>1 DEF GuildInv, GuildTypes, Idle
  <2>4. GuildTypes'
    BY <2>1 DEF GuildInv, GuildTypes, HandlerSteps, Place, Idle
  <2>5. ForGuilds' /\ Joins'
    BY <2>1, <2>2, <2>3 DEF GuildInv, ForGuilds, Activating, Joins
  <2>6. orderly' => \A j \in Handler : handler'[j].at = "idle"
    BY <2>1, <2>2, <2>3 DEF GuildInv, OneHandler
  <2>7. OneHandler' /\ Follows'
    BY <2>6 DEF OneHandler, Follows
  <2>8. Settles'
    BY <1>2, <2>1 DEF GuildInv, Follows, Settles
  <2> QED
    BY <2>4, <2>5, <2>7, <2>8 DEF GuildInv
<1> QED
  BY <1>1, <1>2

LEMMA ReplaceKeeps ==
  ASSUME NEW h \in Handler, GuildInv, Replace(h)
  PROVE  GuildInv'
<1>1. /\ handler' = [handler EXCEPT ![h].at = "create"] /\ session' = NoGuild
      /\ UNCHANGED <<seat, members, moves, orderly>> /\ handler[h].at = "replace"
  BY DEF Replace, Step
<1>2. \A j \in Handler : j # h => handler'[j] = handler[j]
  BY <1>1 DEF GuildInv, GuildTypes
<1>3. handler'[h].at = "create" /\ handler'[h].guild = handler[h].guild
  BY <1>1 DEF GuildInv, GuildTypes
<1>4. GuildTypes'
  BY <1>1 DEF GuildInv, GuildTypes, HandlerSteps, Place
<1>5. ForGuilds' /\ Joins'
  BY <1>1, <1>2, <1>3 DEF GuildInv, ForGuilds, Activating, Joins
<1>6. OneHandler'
  BY <1>1, <1>2, <1>3 DEF GuildInv, OneHandler
<1>7. Follows'
  <2>1. orderly => \A j \in Handler : j # h => handler[j].at = "idle"
    BY <1>1 DEF GuildInv, OneHandler
  <2> QED
    BY <1>1, <1>2, <1>3, <2>1 DEF GuildInv, Follows
<1>8. Settles'
  BY <1>3 DEF Settles, AllIdle
<1> QED
  BY <1>4, <1>5, <1>6, <1>7, <1>8 DEF GuildInv

(* The constraint lets a task create only where no session is; an orderly  *)
(* task finds none, since it has just ended what there was.                *)
LEMMA CreateKeeps ==
  ASSUME NEW h \in Handler, GuildInv, Create(h)
  PROVE  GuildInv'
<1>0. handler[h].at = "create" /\ UNCHANGED <<seat, members, moves, orderly>>
  BY DEF Create
<1>g. handler[h].guild \in Guild
  BY <1>0 DEF GuildInv, ForGuilds, Activating
<1>1. CASE session = NoGuild
  <2>1. session' = handler[h].guild /\ handler' = [handler EXCEPT ![h].at = "join"]
    BY <1>1 DEF Create, Step
  <2>2. \A j \in Handler : j # h => handler'[j] = handler[j]
    BY <2>1 DEF GuildInv, GuildTypes
  <2>3. handler'[h].at = "join" /\ handler'[h].guild = handler[h].guild
    BY <2>1 DEF GuildInv, GuildTypes
  <2>4. GuildTypes'
    BY <1>0, <1>g, <2>1 DEF GuildInv, GuildTypes, HandlerSteps, Place
  <2>5. ForGuilds' /\ Joins'
    BY <1>0, <2>1, <2>2, <2>3 DEF GuildInv, ForGuilds, Activating, Joins
  <2>6. OneHandler'
    BY <1>0, <2>2, <2>3 DEF GuildInv, OneHandler
  <2>7. Follows'
    <3>1. orderly => \A j \in Handler : j # h => handler[j].at = "idle"
      BY <1>0 DEF GuildInv, OneHandler
    <3> QED
      BY <1>0, <2>1, <2>2, <2>3, <3>1 DEF GuildInv, Follows
  <2>8. Settles'
    BY <2>3 DEF Settles, AllIdle
  <2> QED
    BY <2>4, <2>5, <2>6, <2>7, <2>8 DEF GuildInv
<1>2. CASE session # NoGuild
  <2>1. handler' = [handler EXCEPT ![h] = Idle] /\ session' = session
    BY <1>2 DEF Create, Done
  <2>2. \A j \in Handler : j # h => handler'[j] = handler[j]
    BY <2>1 DEF GuildInv, GuildTypes
  <2>3. handler'[h].at = "idle"
    BY <2>1 DEF GuildInv, GuildTypes, Idle
  <2>4. ~orderly
    BY <1>0, <1>2 DEF GuildInv, Follows
  <2>5. GuildTypes'
    BY <1>0, <2>1 DEF GuildInv, GuildTypes, HandlerSteps, Place, Idle
  <2>6. ForGuilds' /\ Joins'
    BY <1>0, <2>1, <2>2, <2>3 DEF GuildInv, ForGuilds, Activating, Joins
  <2> QED
    BY <1>0, <2>4, <2>5, <2>6 DEF GuildInv, OneHandler, Follows, Settles
<1> QED
  BY <1>1, <1>2

LEMMA JoinKeeps ==
  ASSUME NEW h \in Handler, GuildInv, Join(h)
  PROVE  GuildInv'
<1>1. /\ handler' = [handler EXCEPT ![h] = Idle] /\ handler[h].at = "join"
      /\ members' = members \cup {handler[h].guild}
      /\ UNCHANGED <<seat, session, moves, orderly>>
  BY DEF Join, Done
<1>2. \A j \in Handler : j # h => handler'[j] = handler[j]
  BY <1>1 DEF GuildInv, GuildTypes
<1>3. handler'[h].at = "idle"
  BY <1>1 DEF GuildInv, GuildTypes, Idle
<1>4. GuildTypes'
  BY <1>1 DEF GuildInv, GuildTypes, HandlerSteps, Place, Idle
<1>5. ForGuilds' /\ Joins'
  BY <1>1, <1>2, <1>3 DEF GuildInv, ForGuilds, Activating, Joins
<1>6. orderly' => \A j \in Handler : handler'[j].at = "idle"
  BY <1>1, <1>2, <1>3 DEF GuildInv, OneHandler
<1>7. OneHandler' /\ Follows'
  BY <1>6 DEF OneHandler, Follows
<1>8. Settles'
  BY <1>1 DEF GuildInv, Follows, Settles
<1> QED
  BY <1>4, <1>5, <1>7, <1>8 DEF GuildInv

-----------------------------------------------------------------------------
LEMMA GuildStepKeeps == GuildInv /\ [GuildNext]_guildVars => GuildInv'
<1> SUFFICES ASSUME GuildInv, [GuildNext]_guildVars PROVE GuildInv'
  OBVIOUS
<1>1. CASE UNCHANGED guildVars
  BY <1>1 DEF guildVars, GuildInv, GuildTypes, ForGuilds, Activating, Joins,
       OneHandler, Follows, Settles, AllIdle
<1>2. ASSUME NEW h \in Handler, Enter(h) PROVE GuildInv'
  <2>1. PICK g \in Place : Move(h, g, "find")
    BY <1>2 DEF Enter, Place
  <2> QED
    BY <2>1, MoveKeeps
<1>3. ASSUME NEW h \in Handler, Exit(h) PROVE GuildInv'
  BY <1>3, MoveKeeps DEF Exit, Place
<1>4. ASSUME NEW h \in Handler, Find(h) PROVE GuildInv'
  <2>1. handler[h].guild \in Place
    BY DEF GuildInv, GuildTypes
  <2>2. /\ UNCHANGED <<seat, session, members, moves, orderly>>
        /\ handler[h].at = "find" /\ orderly' \in BOOLEAN
    BY <1>4 DEF Find, GuildInv, GuildTypes
  <2>3. CASE handler[h].guild = NoGuild
    <3>1. Step(h, "end")
      BY <1>4, <2>3 DEF Find
    <3> QED
      BY <2>2, <2>3, <3>1, GoOnKeeps DEF HandlerSteps
  <2>4. CASE handler[h].guild # NoGuild
    <3>1. Step(h, "look") /\ handler[h].guild \in Guild
      BY <1>4, <2>1, <2>4 DEF Find, Place
    <3> QED
      BY <2>2, <3>1, GoOnKeeps DEF HandlerSteps
  <2> QED
    BY <2>3, <2>4
<1>5. ASSUME NEW h \in Handler, FindFailed(h) PROVE GuildInv'
  BY <1>5, GoOnKeeps DEF FindFailed, HandlerSteps
<1>6. QED
  BY <1>1, <1>2, <1>3, <1>4, <1>5, EndKeeps, LookKeeps, ReplaceKeeps,
     CreateKeeps, JoinKeeps DEF GuildNext

(* However the tasks of earlier log lines overtook each other, a move whose *)
(* task runs alone leaves the session and the membership right             *)
(* (guilds.py:64-117).                                                     *)
THEOREM SessionIsOfSeat == GuildSpec => []SessionFollowsSeat
<1>1. GuildInv => SessionFollowsSeat
  BY GuildsAssumption DEF GuildInv, GuildTypes, Joins, Settles, AllIdle, SessionFollowsSeat
<1> QED
  BY <1>1, GuildInitInv, GuildStepKeeps, PTL DEF GuildSpec

(* ----- The government employees -----                                     *)

Legs   == {"base", "contract", "subsidy"}
Steps  == {"idle", "route", "donate", "count", "refresh", "promote", "subsidise",
           "takeBack"}
Pays   == [base : Nat, contract : Nat, subsidy : Nat]
Income == [at : Steps, until : Nat, rank : Nat, pay : Pays, leg : Legs,
           due : SUBSET Legs, new : Nat]

ServiceTypes ==
  /\ until \in Nat /\ rank \in Nat /\ contributed \in Nat
  /\ issued \in Nat /\ ended \in Nat
  /\ expiring \in BOOLEAN /\ caught \in BOOLEAN /\ alone \in BOOLEAN
  /\ earn \in [Earner -> Income]
  /\ clerk \in [at : {"idle", "activate"}, contributed : Nat]

Busy(e) == earn[e].at # "idle"

(* Who found the last term expired may only meet a term that began since.  *)
PassIsLate == expiring /\ Serving(issued) => caught

(* Nobody carries more than has been contributed.                          *)
CopiesAreOld ==
  /\ clerk.contributed <= contributed
  /\ \A e \in Earner : earn[e].new <= RankOf(contributed)
  /\ \A e \in Earner : Busy(e) => earn[e].pay \in Incomes

(* A coroutine that met no other is the only one, and what it carries is   *)
(* what the character is.                                                  *)
Alone == alone =>
  /\ clerk.at # "idle" => ~expiring
  /\ \A e \in Earner : Busy(e) =>
       /\ clerk.at = "idle" /\ ~expiring
       /\ \A f \in Earner : Busy(f) => e = f

CopiesAreTrue == alone =>
  /\ clerk.at # "idle" => clerk.contributed = contributed
  /\ \A e \in Earner : Busy(e) =>
       /\ earn[e].rank = rank /\ earn[e].until = until
       /\ earn[e].at = "promote" => earn[e].new = RankOf(contributed)

ServiceInv == /\ ServiceTypes /\ PassIsLate /\ CopiesAreOld /\ Alone /\ CopiesAreTrue
              /\ TermIsServed /\ LevelFollows

-----------------------------------------------------------------------------
(* Whoever has contributed more has no lower level.                        *)
LEMMA RankIsMonotone ==
  ASSUME NEW a \in Nat, NEW b \in Nat, a <= b
  PROVE  RankOf(a) \in Nat /\ RankOf(a) <= RankOf(b)
<1>1. LevelStep \in Nat \ {0}
  BY ServiceAssumption
<1> QED
  BY <1>1 DEF RankOf

LEMMA NothingCarried == NoEarn \in Income /\ NoEarn.at = "idle" /\ NoEarn.new = 0
BY DEF NoEarn, NoPay, Income, Steps, Pays, Legs

(* An income goes on with one of its legs, unless there is none left.      *)
LEMMA NextLegGoesOn ==
  ASSUME NEW income \in Income
  PROVE  LET next == NextLeg(income) IN
         \/ next = NoEarn /\ income.due = {}
         \/ /\ next \in Income /\ next.at \in {"donate", "subsidise"}
            /\ next.rank = income.rank /\ next.until = income.until
            /\ next.pay = income.pay /\ next.new = income.new
<1>1. CASE "base" \in income.due
  <2>1. NextLeg(income) = Take(income, "base", "donate")
    BY <1>1 DEF NextLeg
  <2> QED
    BY <2>1 DEF Take, Income, Steps, Legs
<1>2. CASE "base" \notin income.due /\ "contract" \in income.due
  <2>1. income.due \cap {"base", "contract"} = {"contract"}
    BY <1>2
  <2>2. NextLeg(income) = Take(income, "contract", "donate")
    BY <1>2, <2>1 DEF NextLeg
  <2> QED
    BY <2>2 DEF Take, Income, Steps, Legs
<1>3. CASE "base" \notin income.due /\ "contract" \notin income.due
           /\ "subsidy" \in income.due
  <2>1. income.due = {"subsidy"}
    BY <1>3 DEF Income, Legs
  <2>2. NextLeg(income) = Take(income, "subsidy", "subsidise")
    BY <2>1 DEF NextLeg
  <2> QED
    BY <2>2 DEF Take, Income, Steps, Legs
<1>4. CASE "base" \notin income.due /\ "contract" \notin income.due
           /\ "subsidy" \notin income.due
  <2>1. income.due = {}
    BY <1>4 DEF Income, Legs
  <2> QED
    BY <2>1 DEF NextLeg
<1> QED
  BY <1>1, <1>2, <1>3, <1>4

-----------------------------------------------------------------------------
LEMMA ServiceInitInv == ServiceInit => ServiceInv
<1> SUFFICES ASSUME ServiceInit
             PROVE  ServiceInv
  OBVIOUS
<1>1. \A e \in Earner : earn[e] = NoEarn
  BY DEF ServiceInit
<1>2. ServiceTypes
  <2>1. earn \in [Earner -> Income]
    BY NothingCarried DEF ServiceInit
  <2>2. clerk \in [at : {"idle", "activate"}, contributed : Nat]
    BY DEF ServiceInit, NoClerk
  <2> QED
    BY <2>1, <2>2 DEF ServiceInit, ServiceTypes
<1>3. PassIsLate /\ TermIsServed /\ Alone /\ CopiesAreTrue
  BY <1>1, NothingCarried DEF ServiceInit, PassIsLate, TermIsServed, Alone, CopiesAreTrue,
     Serving, Busy, NoClerk
<1>4. RankOf(0) \in Nat
  BY RankIsMonotone
<1>5. CopiesAreOld /\ LevelFollows
  BY <1>1, <1>4, NothingCarried
     DEF ServiceInit, CopiesAreOld, LevelFollows, Serving, Busy, NoClerk
<1> QED
  BY <1>2, <1>3, <1>5 DEF ServiceInv

(* The steps of an income, but the promotion.                              *)
LEMMA IncomeKeeps ==
  ASSUME ServiceInv, NEW e \in Earner, NEW next \in Income, Busy(e),
         earn' = [earn EXCEPT ![e] = next],
         UNCHANGED <<until, rank, clerk, expiring, issued, ended, caught, alone>>,
         contributed' \in Nat, contributed <= contributed',
         next.at # "idle" => /\ next.rank = earn[e].rank
                             /\ next.until = earn[e].until /\ next.pay = earn[e].pay,
         next.at = "promote" => next.new = RankOf(contributed'),
         next.new <= RankOf(contributed'),
         next.at = "idle" => \/ ~Serving(earn[e].until)
                             \/ RankOf(contributed') = earn[e].rank
  PROVE  ServiceInv'
<1>1. earn'[e] = next /\ \A f \in Earner : f # e => earn'[f] = earn[f]
  BY DEF ServiceInv, ServiceTypes
<1>2. ServiceTypes'
  BY DEF ServiceInv, ServiceTypes
<1>3. PassIsLate' /\ TermIsServed'
  BY DEF ServiceInv, PassIsLate, TermIsServed, Serving
<1>4. RankOf(contributed) \in Nat /\ RankOf(contributed') \in Nat
      /\ RankOf(contributed) <= RankOf(contributed')
  BY RankIsMonotone DEF ServiceInv, ServiceTypes
<1>5. CopiesAreOld'
  <2>1. clerk'.contributed <= contributed'
    BY DEF ServiceInv, ServiceTypes, CopiesAreOld
  <2>2. ASSUME NEW f \in Earner
        PROVE  earn'[f].new <= RankOf(contributed') /\ (Busy(f)' => earn'[f].pay \in Incomes)
    BY <1>1, <1>4, <2>2 DEF ServiceInv, ServiceTypes, Income, CopiesAreOld, Busy
  <2>3. RankOf(contributed)' = RankOf(contributed')
    BY DEF RankOf
  <2> QED
    BY <2>1, <2>2, <2>3 DEF CopiesAreOld
<1>6. Alone'
  BY <1>1 DEF ServiceInv, Alone, Busy
<1>7. CopiesAreTrue'
  <2> SUFFICES ASSUME alone'
               PROVE  CopiesAreTrue'
    BY DEF CopiesAreTrue
  <2>1. alone /\ clerk'.at = "idle"
    BY DEF ServiceInv, Alone
  <2>2. \A f \in Earner : Busy(f)' => f = e
    BY <1>1, <2>1 DEF ServiceInv, Alone, Busy
  <2>3. earn[e].rank = rank /\ earn[e].until = until
    BY <2>1 DEF ServiceInv, CopiesAreTrue
  <2>4. RankOf(contributed)' = RankOf(contributed')
    BY DEF RankOf
  <2> QED
    BY <1>1, <2>1, <2>2, <2>3, <2>4 DEF CopiesAreTrue, Busy
<1>8. LevelFollows'
  <2>1. rank' <= RankOf(contributed')
    BY <1>4 DEF ServiceInv, ServiceTypes, LevelFollows
  <2>2. RankOf(contributed)' = RankOf(contributed')
    BY DEF RankOf
  <2>3. ASSUME AtRest', alone', Serving(until)'
        PROVE  rank' = RankOf(contributed')
    <3>1. next.at = "idle" /\ alone
      BY <1>1, <2>3 DEF AtRest
    <3>2. earn[e].rank = rank /\ earn[e].until = until
      BY <3>1 DEF ServiceInv, CopiesAreTrue
    <3> QED
      BY <2>3, <3>1, <3>2 DEF Serving
  <2> QED
    BY <2>1, <2>2, <2>3 DEF LevelFollows
<1> QED
  BY <1>2, <1>3, <1>5, <1>6, <1>7, <1>8 DEF ServiceInv

(* An income or a bonus begins with a copy of the character.               *)
LEMMA StartKeeps ==
  ASSUME ServiceInv, NEW e \in Earner, NEW next \in Income, ~Busy(e),
         earn' = [earn EXCEPT ![e] = next],
         UNCHANGED <<until, rank, contributed, clerk, expiring, issued, ended, caught>>,
         alone' = AtRest, next.at \notin {"idle", "promote"}, next.new = 0,
         next.rank = rank, next.until = until, next.pay \in Incomes
  PROVE  ServiceInv'
<1>1. earn'[e] = next /\ \A f \in Earner : f # e => earn'[f] = earn[f]
  BY DEF ServiceInv, ServiceTypes
<1>2. ServiceTypes'
  BY DEF ServiceInv, ServiceTypes, AtRest
<1>3. PassIsLate' /\ TermIsServed'
  BY DEF ServiceInv, PassIsLate, TermIsServed, Serving
<1>4. RankOf(contributed)' = RankOf(contributed) /\ RankOf(contributed) \in Nat
  BY RankIsMonotone DEF ServiceInv, ServiceTypes, RankOf
<1>5. CopiesAreOld'
  BY <1>1, <1>4 DEF ServiceInv, CopiesAreOld, Busy
<1>6. Alone' /\ CopiesAreTrue'
  BY <1>1 DEF Alone, CopiesAreTrue, Busy, AtRest
<1>7. LevelFollows'
  BY <1>1, <1>4 DEF ServiceInv, LevelFollows, AtRest
<1> QED
  BY <1>2, <1>3, <1>5, <1>6, <1>7 DEF ServiceInv

LEMMA EarnKeeps ==
  ASSUME ServiceInv, NEW e \in Earner, Earn(e) \/ Bonus(e)
  PROVE  ServiceInv'
<1>1. PICK next \in Income :
        /\ earn' = [earn EXCEPT ![e] = next]
        /\ next.at \in {"route", "count"} /\ next.new = 0
        /\ next.rank = rank /\ next.until = until /\ next.pay \in Incomes
  <2>1. CASE Earn(e)
    <3>1. PICK pay \in Incomes : earn' = [earn EXCEPT ![e] =
            [NoEarn EXCEPT !.at = "route", !.until = until, !.rank = rank, !.pay = pay]]
      BY <2>1 DEF Earn
    <3> DEFINE next == [NoEarn EXCEPT !.at = "route", !.until = until, !.rank = rank,
                                      !.pay = pay]
    <3>2. /\ next \in Income /\ next.at = "route" /\ next.new = 0
          /\ next.rank = rank /\ next.until = until /\ next.pay = pay
      BY NothingCarried, ServiceAssumption
         DEF Income, Steps, Pays, ServiceInv, ServiceTypes
    <3>3. earn' = [earn EXCEPT ![e] = next]
      BY <3>1
    <3> HIDE DEF next
    <3> QED
      BY <3>2, <3>3
  <2>2. CASE Bonus(e)
    <3>1. PICK pay \in Incomes : earn' = [earn EXCEPT ![e] =
            [NoEarn EXCEPT !.at = "count", !.until = until, !.rank = rank, !.pay = pay,
                           !.leg = "subsidy"]]
      BY <2>2 DEF Bonus
    <3> DEFINE next == [NoEarn EXCEPT !.at = "count", !.until = until, !.rank = rank,
                                      !.pay = pay, !.leg = "subsidy"]
    <3>2. /\ next \in Income /\ next.at = "count" /\ next.new = 0
          /\ next.rank = rank /\ next.until = until /\ next.pay = pay
      BY NothingCarried, ServiceAssumption
         DEF Income, Steps, Legs, Pays, ServiceInv, ServiceTypes
    <3>3. earn' = [earn EXCEPT ![e] = next]
      BY <3>1
    <3> HIDE DEF next
    <3> QED
      BY <3>2, <3>3
  <2> QED
    BY <2>1, <2>2
<1>2. /\ UNCHANGED <<until, rank, contributed, clerk, expiring, issued, ended, caught>>
      /\ alone' = AtRest /\ ~Busy(e)
  BY DEF Earn, Bonus, Starts, Busy, roleVars, cashVars
<1> QED
  BY <1>1, <1>2, StartKeeps

-----------------------------------------------------------------------------
LEMMA KeepKeeps ==
  ASSUME ServiceInv, NEW e \in Earner, Keep(e)
  PROVE  ServiceInv'
<1>1. /\ Busy(e) /\ ~Serving(earn[e].until) /\ earn' = [earn EXCEPT ![e] = NoEarn]
      /\ UNCHANGED <<until, rank, contributed, clerk, expiring, issued, ended, caught, alone>>
  BY DEF Keep, Busy, roleVars
<1>2. contributed' \in Nat /\ RankOf(contributed') \in Nat /\ contributed <= contributed'
  BY <1>1, RankIsMonotone DEF ServiceInv, ServiceTypes
<1> DEFINE next == NoEarn
<1>3. /\ next \in Income /\ next.at = "idle" /\ next.new <= RankOf(contributed')
      /\ earn' = [earn EXCEPT ![e] = next]
  BY <1>1, <1>2, NothingCarried
<1> HIDE DEF next
<1> QED
  BY <1>1, <1>2, <1>3, IncomeKeeps

LEMMA ConfiscateKeeps ==
  ASSUME ServiceInv, NEW e \in Earner, Confiscate(e)
  PROVE  ServiceInv'
<1> DEFINE pay  == earn[e].pay
           due  == {leg \in DOMAIN pay : pay[leg] > 0}
           from == [earn[e] EXCEPT !.due = due]
           next == NextLeg(from)
<1>1. /\ Busy(e) /\ earn' = [earn EXCEPT ![e] = next]
      /\ UNCHANGED <<until, rank, contributed, clerk, expiring, issued, ended, caught, alone>>
  BY DEF Confiscate, Busy, roleVars
<1>2. earn[e] \in Income /\ pay \in Incomes /\ pay \in Pays
  BY <1>1, ServiceAssumption DEF ServiceInv, ServiceTypes, CopiesAreOld, Pays
<1>3. due # {} /\ due \subseteq Legs
  <2>1. pay.base > 0 \/ pay.contract > 0 \/ pay.subsidy > 0
    BY <1>2, ServiceAssumption DEF Pays
  <2>2. DOMAIN pay = Legs
    BY <1>2 DEF Pays, Legs
  <2> QED
    BY <2>1, <2>2 DEF Legs
<1>4. from \in Income /\ from.due = due /\ from.rank = earn[e].rank
      /\ from.until = earn[e].until /\ from.pay = pay /\ from.new = earn[e].new
  BY <1>2, <1>3 DEF Income
<1>5. /\ next \in Income /\ next.at \in {"donate", "subsidise"} /\ next.pay = pay
      /\ next.rank = earn[e].rank /\ next.until = earn[e].until /\ next.new = earn[e].new
  BY <1>3, <1>4, NextLegGoesOn
<1>6. contributed' \in Nat /\ contributed <= contributed'
      /\ next.new <= RankOf(contributed')
  BY <1>1, <1>5 DEF ServiceInv, ServiceTypes, CopiesAreOld
<1> HIDE DEF next
<1> QED
  BY <1>1, <1>5, <1>6, IncomeKeeps

(* The steps that only take an income further.                             *)
LEMMA MoveOnKeeps ==
  ASSUME ServiceInv, NEW e \in Earner,
         Donate(e) \/ CountIncome(e) \/ Subsidise(e) \/ TakeBack(e)
  PROVE  ServiceInv'
<1>1. PICK step \in {"count", "refresh", "takeBack"} : StepOf(e, step)
  BY DEF Donate, CountIncome, Subsidise, TakeBack
<1>2. /\ Busy(e)
      /\ UNCHANGED <<until, rank, clerk, expiring, issued, ended, caught, alone>>
  BY DEF Donate, CountIncome, Subsidise, TakeBack, Busy, roleVars
<1>3. earn[e] \in Income
  BY DEF ServiceInv, ServiceTypes
<1>4. contributed' \in Nat /\ contributed <= contributed'
  <2>1. earn[e].pay[earn[e].leg] \in Nat
    BY <1>3 DEF Income, Pays, Legs
  <2> QED
    BY <2>1 DEF Donate, CountIncome, Subsidise, TakeBack, ServiceInv, ServiceTypes
<1> DEFINE next == [earn[e] EXCEPT !.at = step]
<1>5. /\ next \in Income /\ next.at = step /\ next.pay = earn[e].pay
      /\ next.rank = earn[e].rank /\ next.until = earn[e].until /\ next.new = earn[e].new
  BY <1>3 DEF Income, Steps
<1>6. earn' = [earn EXCEPT ![e] = next]
  BY <1>1, <1>3 DEF StepOf
<1>7. next.new <= RankOf(contributed')
  <2>1. earn[e].new <= RankOf(contributed)
    BY DEF ServiceInv, CopiesAreOld
  <2>2. RankOf(contributed) <= RankOf(contributed') /\ RankOf(contributed) \in Nat
        /\ RankOf(contributed') \in Nat
    BY <1>4, RankIsMonotone DEF ServiceInv, ServiceTypes
  <2> QED
    BY <1>3, <1>5, <2>1, <2>2 DEF Income
<1> HIDE DEF next
<1> QED
  BY <1>2, <1>4, <1>5, <1>6, <1>7, IncomeKeeps

LEMMA RefreshKeeps ==
  ASSUME ServiceInv, NEW e \in Earner, RefreshCount(e)
  PROVE  ServiceInv'
<1>1. /\ Busy(e) /\ earn[e] \in Income
      /\ UNCHANGED <<until, rank, contributed, clerk, expiring, issued, ended, caught, alone>>
  BY DEF RefreshCount, Busy, roleVars, ServiceInv, ServiceTypes
<1>2. /\ contributed' \in Nat /\ contributed <= contributed'
      /\ RankOf(contributed') = RankOf(contributed) /\ RankOf(contributed) \in Nat
      /\ earn[e].new <= RankOf(contributed)
  BY <1>1, RankIsMonotone DEF ServiceInv, ServiceTypes, CopiesAreOld
<1>3. CASE RankOf(contributed) = earn[e].rank
  <2> DEFINE next == NextLeg(earn[e])
  <2>1. earn' = [earn EXCEPT ![e] = next]
    BY <1>3 DEF RefreshCount
  <2>2. /\ next \in Income /\ next.at # "promote" /\ next.new <= RankOf(contributed)
        /\ next.at # "idle" => /\ next.rank = earn[e].rank
                               /\ next.until = earn[e].until /\ next.pay = earn[e].pay
    BY <1>1, <1>2, NextLegGoesOn, NothingCarried
  <2> HIDE DEF next
  <2> QED
    BY <1>1, <1>2, <1>3, <2>1, <2>2, IncomeKeeps
<1>4. CASE RankOf(contributed) # earn[e].rank
  <2> DEFINE next == [earn[e] EXCEPT !.at = "promote", !.new = RankOf(contributed)]
  <2>1. earn' = [earn EXCEPT ![e] = next]
    BY <1>4 DEF RefreshCount
  <2>2. /\ next \in Income /\ next.at = "promote" /\ next.new = RankOf(contributed)
        /\ next.rank = earn[e].rank /\ next.until = earn[e].until /\ next.pay = earn[e].pay
    BY <1>1, <1>2 DEF Income, Steps
  <2>3. next.at # "idle" /\ next.new = RankOf(contributed') /\ next.new <= RankOf(contributed')
    BY <1>2, <2>2
  <2> HIDE DEF next
  <2> QED
    BY <1>1, <1>2, <2>1, <2>2, <2>3, IncomeKeeps
<1> QED
  BY <1>3, <1>4

(* The level that was counted becomes the character's, and the copy's.     *)
LEMMA PromoteKeeps ==
  ASSUME ServiceInv, NEW e \in Earner, Promote(e)
  PROVE  ServiceInv'
<1> DEFINE from == [earn[e] EXCEPT !.rank = earn[e].new]
           next == NextLeg(from)
<1>1. /\ earn[e].at = "promote" /\ rank' = earn[e].new /\ earn' = [earn EXCEPT ![e] = next]
      /\ UNCHANGED <<until, contributed, clerk, expiring, issued, ended, caught, alone>>
  BY DEF Promote, cashVars
<1>2. earn[e] \in Income
  BY DEF ServiceInv, ServiceTypes
<1>3. from \in Income /\ from.rank = earn[e].new /\ from.until = earn[e].until
      /\ from.pay = earn[e].pay /\ from.new = earn[e].new
  BY <1>2 DEF Income
<1>4. /\ next \in Income /\ next.at # "promote"
      /\ next.at # "idle" => /\ next.rank = rank' /\ next.until = earn[e].until
                             /\ next.pay = earn[e].pay
      /\ next.new = 0 \/ next.new = earn[e].new
  BY <1>1, <1>3, NextLegGoesOn, NothingCarried
<1> HIDE DEF next
<1>5. earn'[e] = next /\ \A f \in Earner : f # e => earn'[f] = earn[f]
  BY <1>1 DEF ServiceInv, ServiceTypes
<1>6. /\ RankOf(contributed)' = RankOf(contributed) /\ RankOf(contributed) \in Nat
      /\ earn[e].new <= RankOf(contributed) /\ earn[e].new \in Nat
  BY <1>1, <1>2, RankIsMonotone DEF ServiceInv, ServiceTypes, CopiesAreOld, RankOf, Income
<1>7. ServiceTypes'
  BY <1>1, <1>4, <1>6 DEF ServiceInv, ServiceTypes
<1>8. PassIsLate' /\ TermIsServed'
  BY <1>1 DEF ServiceInv, PassIsLate, TermIsServed, Serving
<1>9. CopiesAreOld' /\ Alone'
  BY <1>1, <1>4, <1>5, <1>6 DEF ServiceInv, CopiesAreOld, Alone, Busy
<1>10. CopiesAreTrue'
  BY <1>1, <1>4, <1>5 DEF ServiceInv, Alone, CopiesAreTrue, Busy
<1>11. LevelFollows'
  <2>1. alone => earn[e].new = RankOf(contributed)
    BY <1>1 DEF ServiceInv, CopiesAreTrue, Busy
  <2> QED
    BY <1>1, <1>6, <2>1 DEF LevelFollows
<1> QED
  BY <1>7, <1>8, <1>9, <1>10, <1>11 DEF ServiceInv

-----------------------------------------------------------------------------
LEMMA ApplyKeeps ==
  ASSUME ServiceInv, Apply
  PROVE  ServiceInv'
<1>1. /\ clerk' = [at |-> "activate", contributed |-> contributed]
      /\ alone' = AtRest /\ ~Serving(until)
      /\ UNCHANGED <<until, rank, contributed, earn, expiring, issued, ended, caught>>
  BY DEF Apply, roleVars
<1>2. ServiceTypes'
  BY <1>1 DEF ServiceInv, ServiceTypes, AtRest
<1>3. PassIsLate' /\ TermIsServed'
  BY <1>1 DEF ServiceInv, PassIsLate, TermIsServed, Serving
<1>4. CopiesAreOld'
  BY <1>1 DEF ServiceInv, ServiceTypes, CopiesAreOld, Busy, RankOf
<1>5. Alone' /\ CopiesAreTrue'
  BY <1>1 DEF Alone, CopiesAreTrue, Busy, AtRest
<1>6. LevelFollows'
  BY <1>1 DEF ServiceInv, LevelFollows, AtRest, RankOf
<1> QED
  BY <1>2, <1>3, <1>4, <1>5, <1>6 DEF ServiceInv

(* The new term is the newest; a pass that is under way has caught it.     *)
LEMMA ActivateKeeps ==
  ASSUME ServiceInv, Activate
  PROVE  ServiceInv'
<1>1. /\ clerk.at = "activate" /\ clerk' = NoClerk
      /\ issued' = issued + 1 /\ until' = issued + 1
      /\ rank' = RankOf(clerk.contributed) /\ caught' = expiring
      /\ UNCHANGED <<contributed, earn, expiring, ended, alone>>
  BY DEF Activate
<1>2. /\ RankOf(clerk.contributed) \in Nat /\ RankOf(contributed)' = RankOf(contributed)
      /\ RankOf(clerk.contributed) <= RankOf(contributed)
  <2>1. clerk.contributed \in Nat /\ contributed \in Nat /\ clerk.contributed <= contributed
    BY DEF ServiceInv, ServiceTypes, CopiesAreOld
  <2> QED
    BY <1>1, <2>1, RankIsMonotone DEF RankOf
<1>3. ServiceTypes'
  BY <1>1, <1>2 DEF ServiceInv, ServiceTypes, NoClerk
<1>4. PassIsLate' /\ TermIsServed'
  BY <1>1 DEF PassIsLate, TermIsServed, Serving
<1>5. CopiesAreOld'
  BY <1>1, <1>2 DEF ServiceInv, ServiceTypes, CopiesAreOld, Busy, NoClerk
<1>6. Alone' /\ CopiesAreTrue'
  BY <1>1 DEF ServiceInv, Alone, CopiesAreTrue, Busy, NoClerk
<1>7. LevelFollows'
  <2>1. alone => clerk.contributed = contributed
    BY <1>1 DEF ServiceInv, CopiesAreTrue
  <2> QED
    BY <1>1, <1>2, <2>1 DEF LevelFollows
<1> QED
  BY <1>3, <1>4, <1>5, <1>6, <1>7 DEF ServiceInv

LEMMA TermOverKeeps ==
  ASSUME ServiceInv, TermOver
  PROVE  ServiceInv'
<1>1. /\ ended' = ended + 1
      /\ UNCHANGED <<until, rank, contributed, earn, clerk, expiring, issued, caught, alone>>
  BY DEF TermOver, roleVars
<1>2. ServiceTypes'
  BY <1>1 DEF ServiceInv, ServiceTypes
<1>3. PassIsLate' /\ TermIsServed'
  BY <1>1 DEF ServiceInv, ServiceTypes, PassIsLate, TermIsServed, Serving
<1>4. CopiesAreOld' /\ Alone' /\ CopiesAreTrue'
  BY <1>1 DEF ServiceInv, CopiesAreOld, Alone, CopiesAreTrue, Busy, RankOf
<1>5. LevelFollows'
  BY <1>1 DEF ServiceInv, ServiceTypes, LevelFollows, AtRest, Serving, RankOf
<1> QED
  BY <1>2, <1>3, <1>4, <1>5 DEF ServiceInv

(* A pass finds a term that is over, which the newest is then as well.     *)
LEMMA FindExpiredKeeps ==
  ASSUME ServiceInv, FindExpired
  PROVE  ServiceInv'
<1>1. /\ expiring' = TRUE /\ alone' = AtRest /\ ~Serving(until)
      /\ UNCHANGED <<until, rank, contributed, earn, clerk, issued, ended, caught>>
  BY DEF FindExpired, roleVars
<1>2. ServiceTypes'
  BY <1>1 DEF ServiceInv, ServiceTypes, AtRest
<1>3. PassIsLate' /\ TermIsServed'
  BY <1>1 DEF ServiceInv, PassIsLate, TermIsServed, Serving
<1>4. CopiesAreOld' /\ Alone' /\ CopiesAreTrue'
  BY <1>1 DEF ServiceInv, CopiesAreOld, Alone, CopiesAreTrue, Busy, AtRest, RankOf
<1>5. LevelFollows'
  BY <1>1 DEF ServiceInv, LevelFollows, AtRest, RankOf
<1> QED
  BY <1>2, <1>3, <1>4, <1>5 DEF ServiceInv

LEMMA DeactivateKeeps ==
  ASSUME ServiceInv, Deactivate
  PROVE  ServiceInv'
<1>1. /\ expiring /\ until' = 0 /\ rank' = 0 /\ expiring' = FALSE
      /\ UNCHANGED <<contributed, earn, clerk, issued, ended, caught, alone>>
  BY DEF Deactivate
<1>2. RankOf(contributed) \in Nat /\ RankOf(contributed)' = RankOf(contributed)
  BY <1>1, RankIsMonotone DEF ServiceInv, ServiceTypes, RankOf
<1>3. ServiceTypes'
  BY <1>1 DEF ServiceInv, ServiceTypes
<1>4. PassIsLate' /\ TermIsServed'
  BY <1>1 DEF ServiceInv, PassIsLate, TermIsServed, Serving
<1>5. CopiesAreOld' /\ Alone'
  BY <1>1, <1>2 DEF ServiceInv, CopiesAreOld, Alone, Busy
<1>6. CopiesAreTrue'
  BY <1>1, <1>2 DEF ServiceInv, Alone, CopiesAreTrue, Busy
<1>7. LevelFollows'
  BY <1>1, <1>2 DEF ServiceInv, ServiceTypes, LevelFollows, Serving
<1> QED
  BY <1>3, <1>4, <1>5, <1>6, <1>7 DEF ServiceInv

-----------------------------------------------------------------------------
(* A hitch leaves nobody alone, and nobody with more than was contributed. *)
LEMMA HitchKeeps ==
  ASSUME ServiceInv, UNCHANGED <<until, rank, issued, ended, caught>>,
         alone' \in BOOLEAN, ~alone',
         contributed' \in Nat, contributed <= contributed',
         expiring' \in BOOLEAN, expiring' => expiring,
         clerk' = clerk \/ clerk' = NoClerk,
         earn' \in [Earner -> Income],
         \A e \in Earner : earn'[e] = earn[e] \/ earn'[e] = NoEarn
  PROVE  ServiceInv'
<1>1. ServiceTypes'
  <2>1. clerk' \in [at : {"idle", "activate"}, contributed : Nat]
    BY DEF ServiceInv, ServiceTypes, NoClerk
  <2>2. caught' \in BOOLEAN
    BY DEF ServiceInv, ServiceTypes
  <2> QED
    BY <2>1, <2>2 DEF ServiceInv, ServiceTypes
<1>2. PassIsLate' /\ TermIsServed'
  BY DEF ServiceInv, PassIsLate, TermIsServed, Serving
<1>3. /\ RankOf(contributed) \in Nat /\ RankOf(contributed') \in Nat
      /\ RankOf(contributed) <= RankOf(contributed')
      /\ RankOf(contributed)' = RankOf(contributed')
  BY RankIsMonotone DEF ServiceInv, ServiceTypes, RankOf
<1>4. CopiesAreOld'
  <2>1. clerk'.contributed <= contributed'
    BY DEF ServiceInv, ServiceTypes, CopiesAreOld, NoClerk
  <2>2. ASSUME NEW e \in Earner
        PROVE  earn'[e].new <= RankOf(contributed)' /\ (Busy(e)' => earn'[e].pay \in Incomes)
    <3>1. earn[e].new <= RankOf(contributed) /\ earn[e].new \in Nat
      BY DEF ServiceInv, ServiceTypes, CopiesAreOld, Income
    <3> QED
      BY <1>3, <3>1, NothingCarried DEF ServiceInv, CopiesAreOld, Busy
  <2> QED
    BY <2>1, <2>2 DEF CopiesAreOld
<1>5. Alone' /\ CopiesAreTrue'
  BY DEF Alone, CopiesAreTrue
<1>6. LevelFollows'
  BY <1>3 DEF ServiceInv, ServiceTypes, LevelFollows
<1> QED
  BY <1>1, <1>2, <1>4, <1>5, <1>6 DEF ServiceInv

LEMMA MishapKeeps ==
  ASSUME ServiceInv,
         BillTarget \/ StopService \/ \E e \in Earner : IncomeFails(e)
  PROVE  ServiceInv'
<1>1. /\ UNCHANGED <<until, rank, issued, ended, caught>>
      /\ alone' \in BOOLEAN /\ ~alone'
  BY DEF BillTarget, StopService, IncomeFails, Hitch, roleVars
<1>2. contributed' \in Nat /\ contributed <= contributed'
  BY ServiceAssumption DEF BillTarget, StopService, IncomeFails, ServiceInv, ServiceTypes
<1>3. expiring' \in BOOLEAN /\ (expiring' => expiring)
      /\ (clerk' = clerk \/ clerk' = NoClerk)
  <2>1. expiring \in BOOLEAN
    BY DEF ServiceInv, ServiceTypes
  <2>2. (expiring' = expiring \/ expiring' = FALSE) /\ (clerk' = clerk \/ clerk' = NoClerk)
    BY DEF BillTarget, StopService, IncomeFails
  <2>3. CASE expiring' = expiring
    BY <2>1, <2>2, <2>3
  <2>4. CASE expiring' = FALSE
    <3>1. expiring' \in BOOLEAN /\ ~expiring'
      BY <2>4
    <3> QED
      BY <2>2, <3>1
  <2> QED
    BY <2>2, <2>3, <2>4
<1>4. /\ earn' \in [Earner -> Income]
      /\ \A e \in Earner : earn'[e] = earn[e] \/ earn'[e] = NoEarn
  BY NothingCarried DEF BillTarget, StopService, IncomeFails, ServiceInv, ServiceTypes
<1> QED
  BY <1>1, <1>2, <1>3, <1>4, HitchKeeps

LEMMA ServiceNextKeeps == ServiceInv /\ [ServiceNext]_serviceVars => ServiceInv'
<1> SUFFICES ASSUME ServiceInv, [ServiceNext]_serviceVars
             PROVE  ServiceInv'
  OBVIOUS
<1>1. CASE UNCHANGED serviceVars
  <2>1. UNCHANGED <<until, rank, contributed, earn, clerk, expiring, issued, ended,
                    caught, alone>>
    BY <1>1 DEF serviceVars, roleVars
  <2> QED
    BY <2>1 DEF ServiceInv, ServiceTypes, PassIsLate, CopiesAreOld, Alone, CopiesAreTrue,
       TermIsServed, LevelFollows, Serving, Busy, AtRest, RankOf
<1>2. CASE Apply \/ Activate \/ TermOver \/ FindExpired \/ Deactivate
  BY <1>2, ApplyKeeps, ActivateKeeps, TermOverKeeps, FindExpiredKeeps, DeactivateKeeps
<1>3. CASE BillTarget \/ StopService \/ \E e \in Earner : IncomeFails(e)
  BY <1>3, MishapKeeps
<1>4. ASSUME NEW e \in Earner,
             \/ Earn(e) \/ Bonus(e) \/ Keep(e) \/ Confiscate(e) \/ Donate(e)
             \/ CountIncome(e) \/ RefreshCount(e) \/ Promote(e) \/ Subsidise(e)
             \/ TakeBack(e)
      PROVE  ServiceInv'
  BY <1>4, EarnKeeps, KeepKeeps, ConfiscateKeeps, MoveOnKeeps, RefreshKeeps, PromoteKeeps
<1> QED
  BY <1>1, <1>2, <1>3, <1>4 DEF ServiceNext

-----------------------------------------------------------------------------
(* What an income has taken out of the wallet and is still to book.        *)
Part(income, leg) ==
  IF leg \in income.due \/ (income.at = "donate" /\ income.leg = leg)
  THEN income.pay[leg] ELSE 0
Carried(income) == Part(income, "base") + Part(income, "contract")
Carrieds == [e \in Earner |-> Carried(earn[e])]

(* A leg is booked once, and nothing before it is taken.                   *)
Shaped(income) ==
  /\ income.at \in {"idle", "route"} => income.due = {}
  /\ income.at = "donate" => income.leg \in {"base", "contract"} /\ income.leg \notin income.due

CashTypes ==
  /\ wallet \in Int /\ donated \in Int /\ deposited \in Int /\ unbooked \in Int
  /\ hitches \in Nat

AllBooked ==
  hitches = 0 => wallet + donated + unbooked + SumFunction(Carrieds) = deposited

CashInv == CashTypes /\ (\A e \in Earner : Shaped(earn[e])) /\ AllBooked

LEMMA CarriedType ==
  ASSUME NEW income \in Income
  PROVE  /\ Part(income, "base") \in Nat /\ Part(income, "contract") \in Nat
         /\ Carried(income) \in Nat
<1>1. income.pay["base"] \in Nat /\ income.pay["contract"] \in Nat
  BY DEF Income, Pays
<1> QED
  BY <1>1 DEF Part, Carried

LEMMA NothingIsCarried == Carried(NoEarn) = 0 /\ Shaped(NoEarn)
BY DEF Carried, Part, Shaped, NoEarn

(* Going on with a leg moves it from what is due to what is in hand.       *)
LEMMA NextLegCarries ==
  ASSUME NEW income \in Income, income.at # "donate"
  PROVE  Carried(NextLeg(income)) = Carried(income) /\ Shaped(NextLeg(income))
<1>1. CASE "base" \in income.due
  <2>1. NextLeg(income) = Take(income, "base", "donate")
    BY <1>1 DEF NextLeg
  <2> DEFINE next == Take(income, "base", "donate")
  <2>2. /\ next.at = "donate" /\ next.leg = "base" /\ next.due = income.due \ {"base"}
        /\ next.pay = income.pay
    BY DEF Take, Income
  <2> HIDE DEF next
  <2>3. /\ Part(next, "base") = Part(income, "base")
        /\ Part(next, "contract") = Part(income, "contract") /\ Shaped(next)
    BY <1>1, <2>2 DEF Part, Shaped
  <2> QED
    BY <2>1, <2>3 DEF Carried, next
<1>2. CASE "base" \notin income.due /\ "contract" \in income.due
  <2>1. income.due \cap {"base", "contract"} = {"contract"}
    BY <1>2
  <2>2. NextLeg(income) = Take(income, "contract", "donate")
    BY <1>2, <2>1 DEF NextLeg
  <2> DEFINE next == Take(income, "contract", "donate")
  <2>3. /\ next.at = "donate" /\ next.leg = "contract"
        /\ next.due = income.due \ {"contract"} /\ next.pay = income.pay
    BY DEF Take, Income
  <2> HIDE DEF next
  <2>4. /\ Part(next, "base") = Part(income, "base")
        /\ Part(next, "contract") = Part(income, "contract") /\ Shaped(next)
    BY <1>2, <2>3 DEF Part, Shaped
  <2> QED
    BY <2>2, <2>4 DEF Carried, next
<1>3. CASE "base" \notin income.due /\ "contract" \notin income.due
           /\ "subsidy" \in income.due
  <2>1. income.due = {"subsidy"}
    BY <1>3 DEF Income, Legs
  <2>2. NextLeg(income) = Take(income, "subsidy", "subsidise")
    BY <2>1 DEF NextLeg
  <2> DEFINE next == Take(income, "subsidy", "subsidise")
  <2>3. next.at = "subsidise" /\ next.due = {} /\ next.pay = income.pay
    BY <2>1 DEF Take, Income
  <2> HIDE DEF next
  <2>4. /\ Part(next, "base") = Part(income, "base")
        /\ Part(next, "contract") = Part(income, "contract") /\ Shaped(next)
    BY <2>1, <2>3 DEF Part, Shaped
  <2> QED
    BY <2>2, <2>4 DEF Carried, next
<1>4. CASE "base" \notin income.due /\ "contract" \notin income.due
           /\ "subsidy" \notin income.due
  <2>1. income.due = {}
    BY <1>4 DEF Income, Legs
  <2>2. NextLeg(income) = NoEarn
    BY <2>1 DEF NextLeg
  <2> QED
    BY <2>1, <2>2, NothingIsCarried DEF Carried, Part
<1> QED
  BY <1>1, <1>2, <1>3, <1>4

(* A step of one income changes what all carry by what it carries.         *)
LEMMA IncomeBooks ==
  ASSUME ServiceTypes, CashInv, NEW e \in Earner, NEW income \in Income,
         earn' = [earn EXCEPT ![e] = income], Shaped(income), CashTypes', hitches' = hitches,
         wallet' + donated' + unbooked' + Carried(income) - deposited'
           = wallet + donated + unbooked + Carried(earn[e]) - deposited
  PROVE  CashInv'
<1>1. /\ Carrieds \in [Earner -> Int] /\ Carried(income) \in Int
      /\ Carrieds[e] = Carried(earn[e]) /\ Carried(earn[e]) \in Int
      /\ SumFunction(Carrieds) \in Int
  <2>1. /\ \A f \in Earner : Carried(earn[f]) \in Nat
        /\ Carried(income) \in Nat
    BY CarriedType DEF ServiceTypes
  <2>2. Carrieds \in [Earner -> Int]
    BY <2>1 DEF Carrieds
  <2> QED
    BY <2>1, <2>2, ServiceAssumption, TotalInt DEF Carrieds
<1>2. Carrieds' = [Carrieds EXCEPT ![e] = Carried(income)]
  BY DEF Carrieds, ServiceTypes
<1>3. SumFunction(Carrieds') = SumFunction(Carrieds) + Carried(income) - Carried(earn[e])
  <2> DEFINE g == Carrieds
             v == Carried(income)
  <2>1. g \in [Earner -> Int] /\ v \in Int /\ IsFiniteSet(Earner)
    BY <1>1, ServiceAssumption
  <2> HIDE DEF g, v
  <2>2. SumFunction([g EXCEPT ![e] = v]) = SumFunction(g) + v - g[e]
    BY <2>1, TotalChanged
  <2> QED
    BY <1>1, <1>2, <2>2 DEF g, v
<1>4. AllBooked'
  <2> SUFFICES ASSUME hitches = 0
               PROVE  wallet' + donated' + unbooked' + SumFunction(Carrieds') = deposited'
    BY DEF AllBooked
  <2>1. wallet + donated + unbooked + SumFunction(Carrieds) = deposited
    BY DEF CashInv, AllBooked
  <2>2. /\ wallet \in Int /\ donated \in Int /\ deposited \in Int /\ unbooked \in Int
        /\ wallet' \in Int /\ donated' \in Int /\ deposited' \in Int /\ unbooked' \in Int
    BY DEF CashInv, CashTypes
  <2> DEFINE s == SumFunction(Carrieds)   t == SumFunction(Carrieds')
             a == Carried(income)         b == Carried(earn[e])
  <2>3. s \in Int /\ a \in Int /\ b \in Int /\ t = s + a - b
    BY <1>1, <1>3
  <2>4. wallet + donated + unbooked + s = deposited
    BY <2>1
  <2>5. wallet' + donated' + unbooked' + a - deposited'
          = wallet + donated + unbooked + b - deposited
    OBVIOUS
  <2> HIDE DEF s, t, a, b
  <2> DEFINE w == wallet    d == donated    u == unbooked    m == deposited
             x == wallet'   y == donated'   z == unbooked'   n == deposited'
  <2>6. /\ w \in Int /\ d \in Int /\ u \in Int /\ m \in Int
        /\ x \in Int /\ y \in Int /\ z \in Int /\ n \in Int
        /\ w + d + u + s = m /\ x + y + z + a - n = w + d + u + b - m
    BY <2>2, <2>4, <2>5
  <2> HIDE DEF w, d, u, m, x, y, z, n
  <2>7. x + y + z + t = n
    BY <2>3, <2>6
  <2> QED
    BY <2>7 DEF t, x, y, z, n
<1>5. \A f \in Earner : Shaped(earn'[f])
  BY DEF CashInv, ServiceTypes
<1> QED
  BY <1>4, <1>5 DEF CashInv

LEMMA EarnBooks ==
  ASSUME ServiceTypes, CashInv, NEW e \in Earner, Earn(e) \/ Bonus(e), earn' \in [Earner -> Income]
  PROVE  CashInv'
<1> DEFINE income == earn'[e]
<1>1. /\ \E pay \in Incomes :
           \/ /\ wallet' = wallet + pay.base + pay.contract
              /\ deposited' = deposited + pay.base + pay.contract
           \/ UNCHANGED <<wallet, deposited>>
      /\ UNCHANGED <<donated, unbooked, hitches>>
      /\ earn[e].at = "idle"
  BY DEF Earn, Bonus, Starts, cashVars
<1>2. /\ income.due = {} /\ income.at # "donate"
      /\ earn' = [earn EXCEPT ![e] = income]
  <2>1. \A pay : /\ [NoEarn EXCEPT !.at = "route", !.until = until, !.rank = rank,
                                    !.pay = pay].due = {}
                 /\ [NoEarn EXCEPT !.at = "route", !.until = until, !.rank = rank,
                                    !.pay = pay].at = "route"
    BY DEF NoEarn
  <2>2. CASE Earn(e)
    BY <2>1, <2>2 DEF Earn, ServiceTypes
  <2>3. \A pay : /\ [NoEarn EXCEPT !.at = "count", !.until = until, !.rank = rank,
                                    !.pay = pay, !.leg = "subsidy"].due = {}
                 /\ [NoEarn EXCEPT !.at = "count", !.until = until, !.rank = rank,
                                    !.pay = pay, !.leg = "subsidy"].at = "count"
    BY DEF NoEarn
  <2>4. CASE Bonus(e)
    BY <2>3, <2>4 DEF Bonus, ServiceTypes
  <2> QED
    BY <2>2, <2>4
<1>3. income \in Income
  OBVIOUS
<1> HIDE DEF income
<1>4. Shaped(income) /\ Carried(income) = 0
  BY <1>2 DEF Shaped, Carried, Part
<1>5. Carried(earn[e]) = 0
  BY <1>1 DEF CashInv, Shaped, Carried, Part
<1>6. \A pay \in Incomes : pay.base \in Nat /\ pay.contract \in Nat
  BY ServiceAssumption
<1>7. CashTypes'
  BY <1>1, <1>6 DEF CashInv, CashTypes
<1>8. wallet' + donated' + unbooked' + 0 - deposited' = wallet + donated + unbooked + 0 - deposited
  BY <1>1, <1>6 DEF CashInv, CashTypes
<1>9. wallet' + donated' + unbooked' + Carried(income) - deposited'
        = wallet + donated + unbooked + Carried(earn[e]) - deposited
  BY <1>4, <1>5, <1>8
<1>10. hitches' = hitches
  BY <1>1
<1> QED
  BY <1>2, <1>3, <1>4, <1>7, <1>9, <1>10, IncomeBooks

(* What is confiscated is carried, whichever of its parts are zero.        *)
LEMMA ConfiscateBooks ==
  ASSUME ServiceTypes, CashInv, NEW e \in Earner, Confiscate(e)
  PROVE  CashInv'
<1> DEFINE income == earn[e]
           pay == income.pay
           taken == [income EXCEPT !.due = {leg \in DOMAIN pay : pay[leg] > 0}]
           next == NextLeg(taken)
<1>1. /\ wallet' = wallet - pay["base"] - pay["contract"]
      /\ earn' = [earn EXCEPT ![e] = next]
      /\ income.at = "route"
      /\ UNCHANGED <<donated, unbooked, deposited, hitches>>
  BY DEF Confiscate, counts, ServiceTypes
<1>2. /\ income \in Income /\ pay \in Pays /\ DOMAIN pay = Legs
      /\ pay["base"] \in Nat /\ pay["contract"] \in Nat
  BY DEF ServiceTypes, Income, Pays, Legs
<1>3. taken \in Income /\ taken.at = "route" /\ taken.pay = pay
      /\ taken.due = {leg \in Legs : pay[leg] > 0}
  BY <1>1, <1>2 DEF Income
<1>4. Carried(taken) = pay["base"] + pay["contract"]
  <2> HIDE DEF taken, pay, income
  <2>1. /\ Part(taken, "base") = pay["base"] /\ Part(taken, "contract") = pay["contract"]
    BY <1>2, <1>3 DEF Part, Legs
  <2> QED
    BY <2>1 DEF Carried
<1>5. Carried(next) = Carried(taken) /\ Shaped(next)
  <2> HIDE DEF taken
  <2> QED
    BY <1>3, NextLegCarries
<1>6. next \in Income
  <2> HIDE DEF taken
  <2> QED
    BY <1>3, NextLegGoesOn, NothingCarried
<1>7. Carried(income) = 0
  BY <1>1 DEF CashInv, Shaped, Carried, Part
<1>8. CashTypes'
  BY <1>1, <1>2 DEF CashInv, CashTypes
<1>9. wallet' + donated' + unbooked' + (pay["base"] + pay["contract"]) - deposited'
        = wallet + donated + unbooked + 0 - deposited
  <2> HIDE DEF pay
  <2> QED
    BY <1>1, <1>2 DEF CashInv, CashTypes
<1>10. wallet' + donated' + unbooked' + Carried(next) - deposited'
        = wallet + donated + unbooked + Carried(earn[e]) - deposited
  <2>1. Carried(next) = pay["base"] + pay["contract"] /\ Carried(earn[e]) = 0
    BY <1>4, <1>5, <1>7
  <2> HIDE DEF next, pay
  <2> QED
    BY <1>9, <2>1
<1>11. earn' = [earn EXCEPT ![e] = next] /\ hitches' = hitches
  BY <1>1
<1> HIDE DEF next
<1> QED
  BY <1>5, <1>6, <1>8, <1>10, <1>11, IncomeBooks

(* Nothing is carried anew by the other steps of an income.                *)
LEMMA GoOnBooks ==
  ASSUME ServiceTypes, CashInv, NEW e \in Earner, earn' \in [Earner -> Income],
         \/ Keep(e) \/ Donate(e) \/ CountIncome(e) \/ RefreshCount(e) \/ Promote(e)
         \/ Subsidise(e) \/ TakeBack(e)
  PROVE  CashInv'
<1> DEFINE income == earn[e]
           next == earn'[e]
<1>1. income \in Income /\ Shaped(income) /\ CashTypes /\ next \in Income
  BY DEF ServiceTypes, CashInv
<1>2. income.pay["base"] \in Nat /\ income.pay["contract"] \in Nat /\ income.pay["subsidy"] \in Nat
  BY <1>1 DEF Income, Pays
<1>3. SUFFICES ASSUME TRUE
               PROVE  /\ earn' = [earn EXCEPT ![e] = next] /\ Shaped(next) /\ CashTypes'
                      /\ hitches' = hitches
                      /\ wallet' + donated' + unbooked' + Carried(next) - deposited'
                           = wallet + donated + unbooked + Carried(income) - deposited
  <2> HIDE DEF next
  <2> QED
    BY <1>1, IncomeBooks DEF income
<1>4. CASE Keep(e)
  <2>1. income.at = "route" /\ earn' = [earn EXCEPT ![e] = NoEarn] /\ next = NoEarn
        /\ UNCHANGED <<wallet, donated, deposited, unbooked, hitches>>
    BY <1>4 DEF Keep, cashVars, counts, ServiceTypes
  <2>2. Carried(income) = 0
    BY <1>1, <2>1 DEF Shaped, Carried, Part
  <2> QED
    BY <1>1, <2>1, <2>2, NothingIsCarried DEF CashTypes
<1>5. CASE CountIncome(e) \/ Subsidise(e) \/ TakeBack(e)
  <2>1. /\ earn' = [earn EXCEPT ![e] = next]
        /\ next.due = income.due /\ next.pay = income.pay
        /\ next.at \in {"refresh", "takeBack", "count"}
        /\ income.at \in {"count", "subsidise", "takeBack"}
        /\ hitches' = hitches
    BY <1>1, <1>5 DEF CountIncome, Subsidise, TakeBack, StepOf, counts, ServiceTypes, Income
  <2>2. Carried(next) = Carried(income) /\ Shaped(next)
    BY <2>1 DEF Carried, Part, Shaped
  <2>3. /\ wallet' \in Int /\ donated' = donated /\ deposited' \in Int /\ unbooked' \in Int
        /\ wallet' + unbooked' - deposited' = wallet + unbooked - deposited
    BY <1>1, <1>2, <1>5, ServiceAssumption DEF CountIncome, Subsidise, TakeBack, cashVars, CashTypes
  <2>4. Carried(income) \in Int /\ Carried(next) = Carried(income)
    BY <1>1, <2>2, CarriedType
  <2>5. wallet' + donated' + unbooked' + Carried(next) - deposited'
          = wallet + donated + unbooked + Carried(income) - deposited
    <3> DEFINE a == Carried(next)   b == Carried(income)
    <3>1. a \in Int /\ a = b
      BY <2>4
    <3> HIDE DEF a, b
    <3>2. /\ wallet \in Int /\ donated \in Int /\ deposited \in Int /\ unbooked \in Int
      BY <1>1 DEF CashTypes
    <3> DEFINE w == wallet    d == donated    u == unbooked    m == deposited
               x == wallet'   y == donated'   z == unbooked'   n == deposited'
    <3>3. /\ w \in Int /\ d \in Int /\ u \in Int /\ m \in Int
          /\ x \in Int /\ y = d /\ z \in Int /\ n \in Int
          /\ x + z - n = w + u - m
      BY <2>3, <3>2
    <3> HIDE DEF w, d, u, m, x, y, z, n
    <3>4. x + y + z + a - n = w + d + u + b - m
      BY <3>1, <3>3
    <3> QED
      BY <3>4 DEF a, b, w, d, u, m, x, y, z, n
  <2>6. CashTypes'
    BY <1>1, <2>1, <2>3 DEF CashTypes
  <2> QED
    BY <2>1, <2>2, <2>5, <2>6
<1>6. CASE Donate(e)
  <2>1. /\ earn' = [earn EXCEPT ![e] = next]
        /\ next.due = income.due /\ next.pay = income.pay /\ next.leg = income.leg
        /\ next.at = "count" /\ income.at = "donate"
        /\ donated' = donated + income.pay[income.leg]
        /\ UNCHANGED <<wallet, deposited, unbooked, hitches>>
    BY <1>1, <1>6 DEF Donate, StepOf, counts, ServiceTypes, Income
  <2>2. income.leg \in {"base", "contract"} /\ income.leg \notin income.due
    BY <1>1, <2>1 DEF Shaped
  <2>3. Shaped(next)
    BY <2>1 DEF Shaped
  <2>4. /\ Part(income, "base") \in Nat /\ Part(income, "contract") \in Nat
        /\ Part(next, "base") \in Nat /\ Part(next, "contract") \in Nat
    BY <1>1, CarriedType
  <2>5. Carried(income) = Carried(next) + income.pay[income.leg]
    <3>1. CASE income.leg = "base"
      <4>1. /\ Part(income, "base") = income.pay["base"] /\ Part(next, "base") = 0
            /\ Part(income, "contract") = Part(next, "contract")
        BY <2>1, <2>2, <3>1 DEF Part
      <4> QED
        BY <1>2, <2>4, <3>1, <4>1 DEF Carried
    <3>2. CASE income.leg = "contract"
      <4>1. /\ Part(income, "contract") = income.pay["contract"] /\ Part(next, "contract") = 0
            /\ Part(income, "base") = Part(next, "base")
        BY <2>1, <2>2, <3>2 DEF Part
      <4> QED
        BY <1>2, <2>4, <3>2, <4>1 DEF Carried
    <3> QED
      BY <2>2, <3>1, <3>2
  <2>6. Carried(next) \in Nat /\ income.pay[income.leg] \in Nat
    BY <1>1, <1>2, <2>2, CarriedType
  <2>7. CashTypes'
    BY <1>1, <2>1, <2>6 DEF CashTypes
  <2>8. wallet' + donated' + unbooked' + Carried(next) - deposited'
          = wallet + donated + unbooked + Carried(income) - deposited
    <3> DEFINE a == Carried(next)   b == Carried(income)   k == income.pay[income.leg]
    <3>1. a \in Nat /\ k \in Nat /\ b = a + k /\ donated' = donated + k
      BY <2>1, <2>5, <2>6
    <3> HIDE DEF a, b, k
    <3>2. wallet' + donated' + unbooked' + a - deposited'
            = wallet + donated + unbooked + b - deposited
      BY <1>1, <2>1, <3>1 DEF CashTypes
    <3> QED
      BY <3>2 DEF a, b
  <2> QED
    BY <2>1, <2>3, <2>7, <2>8
<1>7. ASSUME NEW other \in Income, other.due = income.due, other.pay = income.pay,
             other.at # "donate", income.at # "donate",
             earn' = [earn EXCEPT ![e] = NextLeg(other)],
             UNCHANGED <<wallet, donated, deposited, unbooked, hitches>>
      PROVE  /\ earn' = [earn EXCEPT ![e] = next] /\ Shaped(next) /\ CashTypes'
             /\ hitches' = hitches
             /\ wallet' + donated' + unbooked' + Carried(next) - deposited'
                  = wallet + donated + unbooked + Carried(income) - deposited
  <2>1. next = NextLeg(other)
    BY <1>7 DEF ServiceTypes
  <2>2. Carried(other) = Carried(income)
    BY <1>7 DEF Carried, Part
  <2>3. Carried(next) = Carried(income) /\ Shaped(next)
    BY <1>7, <2>1, <2>2, NextLegCarries
  <2>4. CashTypes'
    BY <1>1, <1>7 DEF CashTypes
  <2> QED
    BY <1>7, <2>1, <2>3, <2>4
<1>8. CASE RefreshCount(e) /\ RankOf(contributed) = income.rank
  <2>1. /\ income.at = "refresh" /\ earn' = [earn EXCEPT ![e] = NextLeg(income)]
        /\ UNCHANGED <<wallet, donated, deposited, unbooked, hitches>>
    BY <1>8 DEF RefreshCount, cashVars, counts, ServiceTypes
  <2> HIDE DEF income, next
  <2> QED
    BY <1>1, <1>7, <2>1
<1>9. CASE RefreshCount(e) /\ RankOf(contributed) # income.rank
  <2>1. /\ earn' = [earn EXCEPT ![e] = next]
        /\ next.due = income.due /\ next.pay = income.pay
        /\ next.at = "promote" /\ income.at = "refresh"
        /\ UNCHANGED <<wallet, donated, deposited, unbooked, hitches>>
    BY <1>1, <1>9 DEF RefreshCount, cashVars, counts, ServiceTypes, Income
  <2>2. Carried(next) = Carried(income) /\ Shaped(next)
    BY <2>1 DEF Carried, Part, Shaped
  <2> QED
    BY <1>1, <2>1, <2>2 DEF CashTypes
<1>10. CASE Promote(e)
  <2> DEFINE other == [income EXCEPT !.rank = income.new]
  <2>1. other \in Income /\ other.due = income.due /\ other.pay = income.pay
        /\ other.at = income.at
    BY <1>1 DEF Income
  <2>2. /\ income.at = "promote" /\ earn' = [earn EXCEPT ![e] = NextLeg(other)]
        /\ UNCHANGED <<wallet, donated, deposited, unbooked, hitches>>
    BY <1>10 DEF Promote, cashVars, counts, ServiceTypes
  <2> HIDE DEF income, next, other
  <2> QED
    BY <1>1, <1>7, <2>1, <2>2
<1> QED
  BY <1>4, <1>5, <1>6, <1>8, <1>9, <1>10

LEMMA CashInitInv == ServiceInit => CashInv
<1> SUFFICES ASSUME ServiceInit PROVE CashInv
  OBVIOUS
<1>1. Carrieds \in [Earner -> Int] /\ \A e \in Earner : Carrieds[e] = 0
  BY NothingIsCarried DEF ServiceInit, Carrieds
<1>2. SumFunction(Carrieds) = 0
  <2> HIDE DEF Carrieds
  <2> QED
    BY <1>1, ServiceAssumption, TotalZero
<1>3. wallet + donated + unbooked + 0 = deposited /\ CashTypes
  BY DEF ServiceInit, CashTypes
<1>4. \A e \in Earner : Shaped(earn[e])
  BY NothingIsCarried DEF ServiceInit
<1> QED
  BY <1>2, <1>3, <1>4 DEF CashInv, AllBooked

(* A hitch ends the accounting: what an income carried is lost.            *)
LEMMA HitchBooks ==
  ASSUME ServiceTypes, CashInv,
         BillTarget \/ StopService \/ \E e \in Earner : IncomeFails(e)
  PROVE  CashInv'
<1>1. hitches' = hitches + 1 /\ hitches \in Nat
  BY DEF BillTarget, StopService, IncomeFails, Hitch, CashInv, CashTypes
<1>2. AllBooked'
  BY <1>1 DEF AllBooked
<1>3. \A e \in Earner : earn'[e] = earn[e] \/ earn'[e] = NoEarn
  BY DEF BillTarget, StopService, IncomeFails, ServiceTypes
<1>4. \A e \in Earner : Shaped(earn'[e])
  BY <1>3, NothingIsCarried DEF CashInv
<1>5. CashTypes'
  <2>1. \A pay \in Incomes : pay.base \in Nat
    BY ServiceAssumption
  <2> QED
    BY <1>1, <2>1 DEF BillTarget, StopService, IncomeFails, CashInv, CashTypes, cashVars
<1> QED
  BY <1>2, <1>4, <1>5 DEF CashInv

LEMMA CashStepInv ==
  ASSUME ServiceInv, ServiceInv', CashInv, [ServiceNext]_serviceVars
  PROVE  CashInv'
<1>1. ServiceTypes /\ earn' \in [Earner -> Income]
  BY DEF ServiceInv, ServiceTypes
<1>2. ASSUME UNCHANGED <<earn, wallet, donated, deposited, unbooked, hitches>>
      PROVE  CashInv'
  BY <1>2 DEF CashInv, CashTypes, AllBooked, Carrieds
<1>3. CASE Apply \/ Activate \/ TermOver \/ FindExpired \/ Deactivate
  BY <1>2, <1>3 DEF Apply, Activate, TermOver, FindExpired, Deactivate, cashVars, counts
<1>4. CASE UNCHANGED serviceVars
  BY <1>2, <1>4 DEF serviceVars, cashVars, counts
<1>5. CASE BillTarget \/ StopService \/ \E e \in Earner : IncomeFails(e)
  BY <1>1, <1>5, HitchBooks
<1>6. ASSUME NEW e \in Earner,
             \/ Earn(e) \/ Bonus(e) \/ Keep(e) \/ Confiscate(e) \/ Donate(e)
             \/ CountIncome(e) \/ RefreshCount(e) \/ Promote(e) \/ Subsidise(e)
             \/ TakeBack(e)
      PROVE  CashInv'
  BY <1>1, <1>6, EarnBooks, ConfiscateBooks, GoOnBooks
<1> QED
  BY <1>3, <1>4, <1>5, <1>6 DEF ServiceNext

LEMMA BookedAtRest == ServiceInv /\ CashInv => WalletIsBooked
<1> SUFFICES ASSUME ServiceInv, CashInv, AtRest, hitches = 0
             PROVE  wallet + donated + unbooked = deposited
  BY DEF WalletIsBooked
<1>1. \A e \in Earner : Carried(earn[e]) = 0
  BY DEF AtRest, CashInv, Shaped, Carried, Part
<1>2. Carrieds \in [Earner -> Int] /\ \A e \in Earner : Carrieds[e] = 0
  BY <1>1 DEF Carrieds
<1>3. SumFunction(Carrieds) = 0
  <2> HIDE DEF Carrieds
  <2> QED
    BY <1>2, ServiceAssumption, TotalZero
<1> QED
  BY <1>3 DEF CashInv, CashTypes, AllBooked

-----------------------------------------------------------------------------
(* A term is served out unless it began under an expiry pass; the level    *)
(* never runs ahead of the contributions, and after a coroutine that met   *)
(* no other it is theirs; and what was taken from the wallet is booked,    *)
(* however incomes overlap (gov_employee.py:30-109, profit.py:64-109).     *)
THEOREM ServiceHonoured == ServiceSpec => []ServiceIsHonoured
<1>1. ServiceInv /\ [ServiceNext]_serviceVars => ServiceInv'
  BY ServiceNextKeeps
<1>2. ServiceInv /\ ServiceInv' /\ CashInv /\ [ServiceNext]_serviceVars => CashInv'
  BY CashStepInv
<1>3. ServiceInv /\ CashInv => ServiceIsHonoured
  BY BookedAtRest DEF ServiceInv, ServiceIsHonoured
<1> QED
  BY <1>1, <1>2, <1>3, ServiceInitInv, CashInitInv, PTL DEF ServiceSpec

-----------------------------------------------------------------------------
(* The suspect flag.  Once a refresh has begun upon a suspect that nobody  *)
(* is at work on, no coroutine is about to clear the flag, and a refresh   *)
(* has set it anew before the one that was set by the last can lapse.      *)
PcSteps == {"idle", "make", "ask", "clear", "record", "save", "costume", "poke", "reconcile",
            "fetch", "saveOn", "saveOff", "found", "out", "keep"}

SuspectTypes ==
  /\ online \in BOOLEAN /\ wanted \in BOOLEAN /\ record \in BOOLEAN /\ costume \in BOOLEAN
  /\ worn \in BOOLEAN /\ tracked \in BOOLEAN /\ reconciled \in BOOLEAN
  /\ flag \in 0 .. Lifetime /\ since \in 0 .. 2
  /\ pc \in [Coroutine -> PcSteps]
  /\ sweep \in [wanted : BOOLEAN, costume : BOOLEAN, seen : BOOLEAN]
  /\ change \in [was : BOOLEAN, is : BOOLEAN]

(* What the handlers have seen still holds.                                *)
HandlersFresh ==
  /\ ~At("expiry", "clear") /\ (At("expiry", "ask") => ~wanted)
  /\ ~At("arrest", "clear") /\ (At("arrest", "record") => ~wanted)
  /\ ~At("dress", "clear")  /\ (At("dress", "ask") => ~costume)

(* And so does what the refresh has.                                       *)
SweepFresh ==
  /\ ~At("refresh", "clear")
  /\ At("refresh", "make") => sweep.wanted
  /\ At("refresh", "costume") => sweep.wanted \/ ~wanted
  /\ ~At("refresh", "idle") /\ ~At("refresh", "make") /\ ~At("refresh", "costume")
       => sweep.wanted \/ sweep.costume

(* The steps of a refresh before it has set the flag.                      *)
NotYetSet == \/ At("refresh", "make") \/ At("refresh", "poke")
             \/ At("refresh", "costume") /\ ~sweep.wanted

FlagIsUp == IF NotYetSet THEN since = 2 => flag > 0 ELSE flag = Lifetime

SuspectInv ==
  SuspectTypes /\ (since > 0 => Suspect /\ HandlersFresh /\ SweepFresh /\ FlagIsUp)

LEMMA SuspectInitInv == SuspectInit => SuspectInv
<1> SUFFICES ASSUME SuspectInit PROVE SuspectInv
  OBVIOUS
<1>1. pc \in [Coroutine -> PcSteps]
  BY DEF SuspectInit, PcSteps
<1>2. /\ sweep \in [wanted : BOOLEAN, costume : BOOLEAN, seen : BOOLEAN]
      /\ change \in [was : BOOLEAN, is : BOOLEAN]
  BY DEF SuspectInit, NoSweep, NoChange
<1>3. flag \in 0 .. Lifetime /\ since = 0
  BY SuspectsAssumption DEF SuspectInit
<1>4. SuspectTypes
  <2>1. /\ online \in BOOLEAN /\ wanted \in BOOLEAN /\ record \in BOOLEAN /\ costume \in BOOLEAN
        /\ worn \in BOOLEAN /\ tracked \in BOOLEAN /\ reconciled \in BOOLEAN
    BY Zenon DEF SuspectInit
  <2> QED BY <1>1, <1>2, <1>3, <2>1 DEF SuspectTypes
<1> QED BY <1>3, <1>4 DEF SuspectInv

LEMMA CoroutineMoves ==
  ASSUME SuspectTypes, NEW k \in Coroutine, NEW step \in PcSteps, Goto(k, step)
  PROVE  /\ pc' \in [Coroutine -> PcSteps] /\ pc'[k] = step
         /\ \A j \in Coroutine \ {k} : pc'[j] = pc[j]
BY DEF SuspectTypes, Goto

(* A status that is written while another coroutine is at work starts the  *)
(* count again.                                                            *)
LEMMA WroteKeeps ==
  ASSUME SuspectInv, NEW k \in Coroutine \cup {"none"}, Wrote(k)
  PROVE  /\ since' \in 0 .. 2
         /\ since' > 0 => /\ since' = since /\ Suspect /\ Suspect'
                          /\ \A j \in Coroutine \ {k} : pc[j] = "idle"
BY DEF SuspectInv, SuspectTypes, Wrote, At

(* A handler that writes a status, and is not about to clear the flag.     *)
LEMMA WriteStep ==
  ASSUME SuspectInv, NEW k \in Coroutine \ {"refresh"}, NEW step \in PcSteps,
         Goto(k, step), Wrote(k), UNCHANGED <<flag, sweep>>,
         online' \in BOOLEAN, wanted' \in BOOLEAN, record' \in BOOLEAN, costume' \in BOOLEAN,
         worn' \in BOOLEAN, tracked' \in BOOLEAN, reconciled' \in BOOLEAN,
         change' \in [was : BOOLEAN, is : BOOLEAN],
         since' > 0 => /\ step # "clear"
                       /\ k = "expiry" /\ step = "ask" => ~wanted'
                       /\ k = "arrest" /\ step = "record" => ~wanted'
                       /\ k = "dress" /\ step = "ask" => ~costume'
  PROVE  SuspectInv'
<1>1. /\ pc' \in [Coroutine -> PcSteps] /\ pc'[k] = step
      /\ \A j \in Coroutine \ {k} : pc'[j] = pc[j]
  BY CoroutineMoves DEF SuspectInv
<1>2. /\ since' \in 0 .. 2
      /\ since' > 0 => /\ since' = since /\ Suspect /\ Suspect'
                       /\ \A j \in Coroutine \ {k} : pc[j] = "idle"
  BY WroteKeeps
<1>3. SuspectTypes'
  BY <1>1, <1>2 DEF SuspectInv, SuspectTypes
<1>4. ASSUME since' > 0 PROVE Suspect' /\ HandlersFresh' /\ SweepFresh' /\ FlagIsUp'
  <2>1. \A j \in Coroutine \ {k} : pc'[j] = "idle"
    BY <1>1, <1>2, <1>4
  <2>2. "refresh" \in Coroutine \ {k} /\ {"expiry", "arrest", "dress"} \subseteq Coroutine
    BY DEF Coroutine
  <2>3. pc["refresh"] = "idle" /\ pc'["refresh"] = "idle" /\ since' = since
    BY <1>2, <1>4, <2>1, <2>2
  <2>4. HandlersFresh'
    BY <1>1, <1>4, <2>1, <2>2 DEF HandlersFresh, At
  <2>5. SweepFresh' /\ FlagIsUp'
    BY <1>4, <2>3 DEF SuspectInv, SweepFresh, FlagIsUp, NotYetSet, At
  <2> QED BY <1>2, <1>4, <2>4, <2>5
<1> QED BY <1>3, <1>4 DEF SuspectInv

(* One that writes none: what it does is in the next lemmas.               *)
LEMMA QuietStep ==
  ASSUME SuspectInv, NEW k \in Coroutine \ {"refresh"}, NEW step \in PcSteps,
         Goto(k, step), Unwritten, UNCHANGED sweep,
         worn' \in BOOLEAN, tracked' \in BOOLEAN, reconciled' \in BOOLEAN,
         change' \in [was : BOOLEAN, is : BOOLEAN],
         flag' \in {flag, Lifetime} \/ (flag' = 0 /\ since = 0),
         since > 0 => step # "clear", step \notin {"ask", "record"}
  PROVE  SuspectInv'
<1>1. /\ pc' \in [Coroutine -> PcSteps] /\ pc'[k] = step
      /\ \A j \in Coroutine \ {k} : pc'[j] = pc[j]
  BY CoroutineMoves DEF SuspectInv
<1>2. UNCHANGED <<online, wanted, record, costume, since>>
  BY DEF Unwritten, status
<1>3. SuspectTypes'
  BY <1>1, <1>2, SuspectsAssumption DEF SuspectInv, SuspectTypes
<1>4. ASSUME since' > 0 PROVE Suspect' /\ HandlersFresh' /\ SweepFresh' /\ FlagIsUp'
  <2>1. "refresh" \in Coroutine \ {k} /\ {"expiry", "arrest", "dress"} \subseteq Coroutine
    BY DEF Coroutine
  <2>2. pc'["refresh"] = pc["refresh"] /\ since > 0
    BY <1>1, <1>2, <1>4, <2>1
  <2>3. HandlersFresh'
    BY <1>1, <1>2, <2>1, <2>2 DEF SuspectInv, HandlersFresh, At
  <2>4. SweepFresh' /\ FlagIsUp'
    BY <1>2, <2>2, SuspectsAssumption
       DEF SuspectInv, SuspectTypes, SweepFresh, FlagIsUp, NotYetSet, At
  <2> QED BY <1>2, <1>4, <2>3, <2>4 DEF SuspectInv, Suspect
<1> QED BY <1>3, <1>4 DEF SuspectInv

LEMMA LeaveKeeps == ASSUME SuspectInv, Leave \/ Return PROVE SuspectInv'
<1>1. since' = 0
  <2>1. since' = 0 \/ (Suspect /\ Suspect')
    BY DEF Leave, Return, Wrote
  <2> QED BY <2>1 DEF Leave, Return, Suspect
<1>2. SuspectTypes'
  <2>1. UNCHANGED <<wanted, record, costume, worn, tracked, reconciled, pc, sweep, change>>
        /\ online' \in BOOLEAN
    BY DEF Leave, Return, memory, local, game
  <2>2. flag' = flag \/ flag' = 0
    BY DEF Leave, Return, Clear, game
  <2>3. flag' \in 0 .. Lifetime
    BY <2>2, SuspectsAssumption DEF SuspectInv, SuspectTypes
  <2> QED BY <1>1, <2>1, <2>3 DEF SuspectInv, SuspectTypes
<1> QED BY <1>1, <1>2 DEF SuspectInv

LEMMA CrimeKeeps == ASSUME SuspectInv, Crime \/ CrimeMake PROVE SuspectInv'
<1>0. "crime" \in Coroutine \ {"refresh"} /\ {"make", "idle"} \subseteq PcSteps
  BY DEF Coroutine, PcSteps
<1>1. CASE Crime
  <2>1. /\ Goto("crime", "make") /\ Wrote("crime")
        /\ UNCHANGED <<flag, sweep, online, costume, worn, tracked, reconciled, change>>
        /\ wanted' \in BOOLEAN /\ record' \in BOOLEAN
    BY <1>1 DEF Crime, game, memory, local, SuspectInv, SuspectTypes
  <2> QED BY <1>0, <2>1, WriteStep DEF SuspectInv, SuspectTypes
<1>2. CASE CrimeMake
  <2>1. /\ Goto("crime", "idle") /\ Unwritten /\ flag' = Lifetime
        /\ UNCHANGED <<sweep, worn, tracked, reconciled, change>>
    BY <1>2 DEF CrimeMake, Make, memory, local
  <2> QED BY <1>0, <2>1, QuietStep DEF SuspectInv, SuspectTypes
<1> QED BY <1>1, <1>2

LEMMA ExpiryKeeps == ASSUME SuspectInv, Expire \/ ExpiryAsk \/ ExpiryAct PROVE SuspectInv'
<1>0. "expiry" \in Coroutine \ {"refresh"} /\ {"make", "idle", "ask", "clear"} \subseteq PcSteps
  BY DEF Coroutine, PcSteps
<1>1. CASE Expire
  <2>1. /\ Goto("expiry", "ask") /\ Wrote("expiry") /\ wanted' = FALSE
        /\ UNCHANGED <<flag, sweep, online, record, costume, worn, tracked, reconciled, change>>
    BY <1>1 DEF Expire, game, memory, local
  <2> QED BY <1>0, <2>1, WriteStep DEF SuspectInv, SuspectTypes
<1>2. CASE ExpiryAsk
  <2>1. PICK step \in {"make", "clear"} :
          Goto("expiry", step) /\ (step = "make" <=> record /\ costume)
    BY <1>2 DEF ExpiryAsk
  <2>2. Unwritten /\ UNCHANGED <<flag, sweep, worn, tracked, reconciled, change>>
    BY <1>2 DEF ExpiryAsk, game, memory, local
  <2>3. since > 0 => step # "clear"
    BY <1>2, <2>1 DEF ExpiryAsk, SuspectInv, HandlersFresh, Suspect
  <2> QED BY <1>0, <2>1, <2>2, <2>3, QuietStep DEF SuspectInv, SuspectTypes
<1>3. CASE ExpiryAct
  <2>1. /\ Goto("expiry", "idle") /\ Unwritten
        /\ UNCHANGED <<sweep, worn, reconciled, change>> /\ tracked' \in BOOLEAN
    BY <1>3 DEF ExpiryAct, local
  <2>2. flag' = Lifetime \/ (flag' = 0 /\ ~(since > 0))
    BY <1>3 DEF ExpiryAct, Make, Clear, SuspectInv, HandlersFresh
  <2>3. flag' = Lifetime \/ (flag' = 0 /\ since = 0)
    BY <2>2 DEF SuspectInv, SuspectTypes
  <2> QED BY <1>0, <2>1, <2>3, QuietStep DEF SuspectInv, SuspectTypes
<1> QED BY <1>1, <1>2, <1>3

LEMMA ArrestKeeps ==
  ASSUME SuspectInv, Arrest \/ ArrestRecord \/ ArrestClear
  PROVE  SuspectInv'
<1>0. "arrest" \in Coroutine \ {"refresh"} /\ {"record", "idle", "clear"} \subseteq PcSteps
      /\ "arrest" \in Coroutine \cup {"none"}
  BY DEF Coroutine, PcSteps
<1>1. CASE Arrest
  <2>1. /\ Goto("arrest", "record") /\ Wrote("arrest") /\ wanted' = FALSE
        /\ UNCHANGED <<flag, sweep, online, record, costume, worn, tracked, reconciled, change>>
    BY <1>1 DEF Arrest, game, memory, local
  <2> QED BY <1>0, <2>1, WriteStep DEF SuspectInv, SuspectTypes
<1>2. CASE ArrestRecord
  <2>1. /\ Goto("arrest", "clear") /\ Wrote("arrest") /\ record' = FALSE /\ costume' \in BOOLEAN
        /\ UNCHANGED <<flag, sweep, online, wanted, worn, tracked, reconciled, change>>
    BY <1>2 DEF ArrestRecord, game, memory, local, SuspectInv, SuspectTypes
  <2>2. ~(since' > 0)
    <3> SUFFICES ASSUME since' > 0 PROVE FALSE
      OBVIOUS
    <3>1. since > 0 /\ Suspect'
      BY <1>0, <2>1, WroteKeeps
    <3>2. ~wanted
      BY <1>2, <3>1 DEF ArrestRecord, SuspectInv, HandlersFresh
    <3> QED BY <2>1, <3>1, <3>2 DEF Suspect
  <2> QED BY <1>0, <2>1, <2>2, WriteStep DEF SuspectInv, SuspectTypes
<1>3. CASE ArrestClear
  <2>1. /\ Goto("arrest", "idle") /\ Unwritten /\ flag' = 0
        /\ UNCHANGED <<sweep, worn, tracked, reconciled, change>>
    BY <1>3 DEF ArrestClear, Clear, memory, local
  <2>2. since = 0
    BY <1>3 DEF ArrestClear, SuspectInv, SuspectTypes, HandlersFresh
  <2> QED BY <1>0, <2>1, <2>2, QuietStep DEF SuspectInv, SuspectTypes
<1> QED BY <1>1, <1>2, <1>3

LEMMA DressKeeps ==
  ASSUME SuspectInv, Wear \/ DressSave \/ DressRecord \/ DressAsk \/ DressAct
  PROVE  SuspectInv'
<1>0. /\ "dress" \in Coroutine \ {"refresh"}
      /\ {"record", "idle", "clear", "save", "ask", "make"} \subseteq PcSteps
  BY DEF Coroutine, PcSteps
<1>1. CASE Wear
  <2>1. /\ Goto("dress", "save") /\ Unwritten /\ worn' \in BOOLEAN
        /\ UNCHANGED <<flag, sweep, tracked, reconciled>>
        /\ change' = [was |-> costume, is |-> worn']
    BY <1>1 DEF Wear, memory
  <2>2. change' \in [was : BOOLEAN, is : BOOLEAN]
    BY <2>1 DEF SuspectInv, SuspectTypes
  <2> QED BY <1>0, <2>1, <2>2, QuietStep DEF SuspectInv, SuspectTypes
<1>2. CASE DressSave
  <2>1. PICK step \in {"record", "ask", "idle"} :
          Goto("dress", step) /\ (step = "ask" => ~change.is)
    BY <1>2 DEF DressSave, SuspectInv, SuspectTypes
  <2>2. /\ Wrote("dress") /\ costume' = change.is /\ change.is \in BOOLEAN
        /\ UNCHANGED <<flag, sweep, online, wanted, record, worn, tracked, reconciled, change>>
    BY <1>2 DEF DressSave, game, memory, local, SuspectInv, SuspectTypes
  <2> QED BY <1>0, <2>1, <2>2, WriteStep DEF SuspectInv, SuspectTypes
<1>3. CASE DressRecord
  <2>1. /\ Goto("dress", "make") /\ Wrote("dress") /\ record' = TRUE
        /\ UNCHANGED <<flag, sweep, online, wanted, costume, worn, tracked, reconciled, change>>
    BY <1>3 DEF DressRecord, game, memory, local
  <2> QED BY <1>0, <2>1, WriteStep DEF SuspectInv, SuspectTypes
<1>4. CASE DressAsk
  <2>1. PICK step \in {"idle", "clear"} : Goto("dress", step) /\ (step = "clear" => ~wanted)
    BY <1>4 DEF DressAsk
  <2>2. Unwritten /\ UNCHANGED <<flag, sweep, worn, tracked, reconciled, change>>
    BY <1>4 DEF DressAsk, game, memory, local
  <2>3. since > 0 => step # "clear"
    BY <1>4, <2>1 DEF DressAsk, SuspectInv, HandlersFresh, Suspect
  <2> QED BY <1>0, <2>1, <2>2, <2>3, QuietStep DEF SuspectInv, SuspectTypes
<1>5. CASE DressAct
  <2>1. /\ Goto("dress", "idle") /\ Unwritten
        /\ UNCHANGED <<sweep, worn, tracked, reconciled, change>>
    BY <1>5 DEF DressAct, memory, local
  <2>2. flag' = Lifetime \/ (flag' = 0 /\ ~(since > 0))
    BY <1>5 DEF DressAct, Make, Clear, SuspectInv, HandlersFresh
  <2>3. flag' = Lifetime \/ (flag' = 0 /\ since = 0)
    BY <2>2 DEF SuspectInv, SuspectTypes
  <2> QED BY <1>0, <2>1, <2>3, QuietStep DEF SuspectInv, SuspectTypes
<1> QED BY <1>1, <1>2, <1>3, <1>4, <1>5

(* A step of the refresh itself.                                           *)
LEMMA SweepStep ==
  ASSUME SuspectInv, NEW step \in PcSteps, Goto("refresh", step), Unwritten,
         UNCHANGED <<worn, change>>, flag' \in 0 .. Lifetime,
         tracked' \in BOOLEAN, reconciled' \in BOOLEAN,
         sweep' \in [wanted : BOOLEAN, costume : BOOLEAN, seen : BOOLEAN],
         since > 0 /\ pc'["refresh"] = step => SweepFresh' /\ FlagIsUp'
  PROVE  SuspectInv'
<1>0. {"refresh", "expiry", "arrest", "dress"} \subseteq Coroutine
  BY DEF Coroutine
<1>1. /\ pc' \in [Coroutine -> PcSteps] /\ pc'["refresh"] = step
      /\ \A j \in Coroutine \ {"refresh"} : pc'[j] = pc[j]
  BY <1>0, CoroutineMoves DEF SuspectInv
<1>2. UNCHANGED <<online, wanted, record, costume, since>>
  BY DEF Unwritten, status
<1>3. SuspectTypes'
  BY <1>1, <1>2 DEF SuspectInv, SuspectTypes
<1>4. since > 0 => HandlersFresh' /\ Suspect'
  BY <1>0, <1>1, <1>2 DEF SuspectInv, HandlersFresh, At, Suspect
<1> QED BY <1>1, <1>2, <1>3, <1>4 DEF SuspectInv

LEMMA MakeKeeps ==
  ASSUME SuspectInv, RefreshMake \/ RefreshCostume \/ RefreshPoke
  PROVE  SuspectInv'
<1>0. {"costume", "poke", "reconcile"} \subseteq PcSteps /\ Lifetime \in 0 .. Lifetime
  BY SuspectsAssumption DEF PcSteps
<1>1. CASE RefreshMake
  <2>1. /\ Goto("refresh", "costume") /\ Unwritten /\ flag' = Lifetime
        /\ UNCHANGED <<worn, change, tracked, reconciled, sweep>>
    BY <1>1 DEF RefreshMake, Make, memory, local
  <2>2. ASSUME since > 0, pc'["refresh"] = "costume" PROVE SweepFresh' /\ FlagIsUp'
    <3>1. sweep.wanted
      BY <1>1, <2>2 DEF RefreshMake, SuspectInv, SweepFresh
    <3> QED BY <2>1, <2>2, <3>1 DEF SweepFresh, FlagIsUp, NotYetSet, At
  <2> QED BY <1>0, <2>1, <2>2, SweepStep DEF SuspectInv, SuspectTypes
<1>2. CASE RefreshCostume
  <2> DEFINE found == online /\ record /\ costume
  <2>1. PICK step \in {"poke", "reconcile"} :
          Goto("refresh", step) /\ (step = "poke" <=> found /\ ~sweep.wanted)
    BY <1>2 DEF RefreshCostume
  <2>2. /\ Unwritten /\ UNCHANGED <<worn, flag, change, tracked, reconciled>>
        /\ sweep' = [wanted |-> sweep.wanted, costume |-> found, seen |-> sweep.seen]
    BY <1>2 DEF RefreshCostume, game, memory, SuspectInv, SuspectTypes
  <2>3. sweep' \in [wanted : BOOLEAN, costume : BOOLEAN, seen : BOOLEAN]
    BY <2>2 DEF SuspectInv, SuspectTypes
  <2>4. ASSUME since > 0, pc'["refresh"] = step PROVE SweepFresh' /\ FlagIsUp'
    <3>1. sweep.wanted \/ found
      BY <1>2, <2>4 DEF RefreshCostume, SuspectInv, SweepFresh, Suspect
    <3>2. sweep'.wanted = sweep.wanted /\ sweep'.costume = found
      BY <2>2
    <3>3. SweepFresh'
      BY <2>1, <2>4, <3>1, <3>2 DEF SweepFresh, At
    <3>4. FlagIsUp'
      <4>1. CASE step = "poke"
        <5>1. ~sweep.wanted /\ since' = since /\ flag' = flag
          BY <2>1, <2>2, <4>1 DEF Unwritten
        <5>2. since = 2 => flag > 0
          BY <1>2, <2>4, <5>1 DEF RefreshCostume, SuspectInv, FlagIsUp, NotYetSet
        <5> QED BY <2>4, <4>1, <5>1, <5>2 DEF FlagIsUp, NotYetSet, At
      <4>2. CASE step = "reconcile"
        <5>1. sweep.wanted /\ flag' = flag
          BY <2>1, <2>2, <3>1, <4>2
        <5>2. flag = Lifetime
          BY <1>2, <2>4, <5>1 DEF RefreshCostume, SuspectInv, FlagIsUp, NotYetSet, At
        <5> QED BY <2>4, <4>2, <5>1, <5>2 DEF FlagIsUp, NotYetSet, At
      <4> QED BY <2>1, <4>1, <4>2
    <3> QED BY <3>3, <3>4
  <2> QED BY <1>0, <2>1, <2>2, <2>3, <2>4, SweepStep DEF SuspectInv, SuspectTypes
<1>3. CASE RefreshPoke
  <2>1. /\ Goto("refresh", "reconcile") /\ Unwritten /\ flag' = Lifetime
        /\ UNCHANGED <<worn, change, tracked, reconciled, sweep>>
    BY <1>3 DEF RefreshPoke, Make, memory, local
  <2>2. ASSUME since > 0, pc'["refresh"] = "reconcile" PROVE SweepFresh' /\ FlagIsUp'
    <3>1. sweep.wanted \/ sweep.costume
      BY <1>3, <2>2 DEF RefreshPoke, SuspectInv, SweepFresh, At
    <3> QED BY <2>1, <2>2, <3>1 DEF SweepFresh, FlagIsUp, NotYetSet, At
  <2> QED BY <1>0, <2>1, <2>2, SweepStep DEF SuspectInv, SuspectTypes
<1> QED BY <1>1, <1>2, <1>3

LEMMA RefreshLooks ==
  ASSUME SuspectInv, RefreshReconcile \/ RefreshFetch \/ RefreshOut
  PROVE  SuspectInv'
<1>0. {"fetch", "out", "saveOn", "saveOff", "clear", "keep"} \subseteq PcSteps
  BY DEF PcSteps
<1>1. PICK step \in {"fetch", "out", "saveOn", "saveOff", "clear", "keep"} :
        /\ Goto("refresh", step)
        /\ step = "clear" => ~sweep.wanted /\ ~sweep.costume
  BY DEF RefreshReconcile, RefreshFetch, RefreshOut
<1>2. /\ Unwritten /\ UNCHANGED <<worn, flag, change, tracked>> /\ reconciled' \in BOOLEAN
      /\ sweep' = [wanted |-> sweep.wanted, costume |-> sweep.costume, seen |-> sweep'.seen]
      /\ sweep'.seen \in BOOLEAN
  <2>1. CASE RefreshReconcile
    BY <2>1 DEF RefreshReconcile, game, SuspectInv, SuspectTypes
  <2>2. CASE RefreshFetch
    BY <2>2 DEF RefreshFetch, game, memory, local, SuspectInv, SuspectTypes
  <2>3. CASE RefreshOut
    BY <2>3 DEF RefreshOut, game, memory, local, SuspectInv, SuspectTypes
  <2> QED BY <2>1, <2>2, <2>3
<1>3. sweep' \in [wanted : BOOLEAN, costume : BOOLEAN, seen : BOOLEAN]
  BY <1>2 DEF SuspectInv, SuspectTypes
<1>4. ASSUME since > 0, pc'["refresh"] = step PROVE SweepFresh' /\ FlagIsUp'
  <2>1. At("refresh", "reconcile") \/ At("refresh", "fetch") \/ At("refresh", "out")
    BY DEF RefreshReconcile, RefreshFetch, RefreshOut
  <2>2. (sweep.wanted \/ sweep.costume) /\ flag = Lifetime
    BY <1>4, <2>1 DEF SuspectInv, SweepFresh, FlagIsUp, NotYetSet, At
  <2>3. (sweep'.wanted \/ sweep'.costume) /\ flag' = Lifetime
    BY <1>2, <2>2
  <2> QED BY <1>1, <1>4, <2>2, <2>3 DEF SweepFresh, FlagIsUp, NotYetSet, At
<1> QED BY <1>0, <1>1, <1>2, <1>3, <1>4, SweepStep DEF SuspectInv, SuspectTypes

LEMMA SaveKeeps == ASSUME SuspectInv, RefreshSave PROVE SuspectInv'
<1>0. /\ {"refresh", "expiry", "arrest", "dress"} \subseteq Coroutine
      /\ {"found", "out"} \subseteq PcSteps /\ "refresh" \in Coroutine \cup {"none"}
  BY DEF Coroutine, PcSteps
<1>1. PICK step \in {"found", "out"} : Goto("refresh", step)
  BY DEF RefreshSave
<1>2. /\ pc' \in [Coroutine -> PcSteps] /\ pc'["refresh"] = step
      /\ \A j \in Coroutine \ {"refresh"} : pc'[j] = pc[j]
  BY <1>0, <1>1, CoroutineMoves DEF SuspectInv
<1>3. /\ Wrote("refresh") /\ costume' \in BOOLEAN
      /\ UNCHANGED <<online, wanted, record, worn, flag, tracked, reconciled, sweep, change>>
      /\ At("refresh", "saveOn") \/ At("refresh", "saveOff")
  <2>1. costume' \in BOOLEAN
    BY Zenon DEF RefreshSave, At
  <2> QED BY <2>1 DEF RefreshSave, game, memory, local
<1>4. /\ since' \in 0 .. 2
      /\ since' > 0 => /\ since' = since /\ Suspect /\ Suspect'
                       /\ \A j \in Coroutine \ {"refresh"} : pc[j] = "idle"
  BY <1>0, <1>3, WroteKeeps
<1>5. SuspectTypes'
  BY <1>2, <1>3, <1>4 DEF SuspectInv, SuspectTypes
<1>6. ASSUME since' > 0 PROVE HandlersFresh' /\ SweepFresh' /\ FlagIsUp'
  <2>1. HandlersFresh'
    BY <1>0, <1>2, <1>4, <1>6 DEF HandlersFresh, At
  <2>2. (sweep.wanted \/ sweep.costume) /\ flag = Lifetime
    BY <1>3, <1>4, <1>6 DEF SuspectInv, SweepFresh, FlagIsUp, NotYetSet, At
  <2>3. SweepFresh' /\ FlagIsUp'
    BY <1>2, <1>3, <2>2 DEF SweepFresh, FlagIsUp, NotYetSet, At
  <2> QED BY <2>1, <2>3
<1> QED BY <1>4, <1>5, <1>6 DEF SuspectInv

LEMMA RefreshEnds ==
  ASSUME SuspectInv, RefreshFound \/ RefreshClear \/ RefreshKeep
  PROVE  SuspectInv'
<1>0. {"out", "keep", "idle"} \subseteq PcSteps /\ Lifetime \in 0 .. Lifetime /\ 0 \in 0 .. Lifetime
  BY SuspectsAssumption DEF PcSteps
<1>1. CASE RefreshFound
  <2>1. /\ Goto("refresh", "out") /\ Unwritten /\ flag' = Lifetime
        /\ UNCHANGED <<worn, change, tracked, reconciled>>
        /\ sweep' = [wanted |-> sweep.wanted, costume |-> TRUE, seen |-> sweep.seen]
    BY <1>1 DEF RefreshFound, Make, memory, SuspectInv, SuspectTypes
  <2>2. sweep' \in [wanted : BOOLEAN, costume : BOOLEAN, seen : BOOLEAN] /\ sweep'.costume
    BY <2>1 DEF SuspectInv, SuspectTypes
  <2>3. ASSUME since > 0, pc'["refresh"] = "out" PROVE SweepFresh' /\ FlagIsUp'
    BY <2>1, <2>2, <2>3 DEF SweepFresh, FlagIsUp, NotYetSet, At
  <2> QED BY <1>0, <2>1, <2>2, <2>3, SweepStep DEF SuspectInv, SuspectTypes
<1>2. CASE RefreshClear
  <2>1. /\ Goto("refresh", "keep") /\ Unwritten /\ flag' = 0
        /\ UNCHANGED <<worn, change, tracked, reconciled, sweep>>
    BY <1>2 DEF RefreshClear, Clear, memory, local
  <2>2. ~(since > 0)
    BY <1>2 DEF RefreshClear, SuspectInv, SweepFresh
  <2> QED BY <1>0, <2>1, <2>2, SweepStep DEF SuspectInv, SuspectTypes
<1>3. CASE RefreshKeep
  <2>1. /\ Goto("refresh", "idle") /\ Unwritten /\ tracked' = sweep.wanted
        /\ UNCHANGED <<flag, worn, change, reconciled>> /\ sweep' = NoSweep
    BY <1>3 DEF RefreshKeep, game
  <2>2. sweep' \in [wanted : BOOLEAN, costume : BOOLEAN, seen : BOOLEAN] /\ tracked' \in BOOLEAN
    BY <2>1 DEF NoSweep, SuspectInv, SuspectTypes
  <2>3. ASSUME since > 0, pc'["refresh"] = "idle" PROVE SweepFresh' /\ FlagIsUp'
    <3>1. flag = Lifetime
      BY <1>3, <2>3 DEF RefreshKeep, SuspectInv, FlagIsUp, NotYetSet, At
    <3> QED BY <2>1, <2>3, <3>1 DEF SweepFresh, FlagIsUp, NotYetSet, At
  <2> QED BY <1>0, <2>1, <2>2, <2>3, SweepStep DEF SuspectInv, SuspectTypes
<1> QED BY <1>1, <1>2, <1>3

LEMMA RefreshBegins == ASSUME SuspectInv, RefreshBegin PROVE SuspectInv'
<1>0. /\ {"refresh", "expiry", "arrest", "dress"} \subseteq Coroutine
      /\ {"make", "costume"} \subseteq PcSteps
  BY DEF Coroutine, PcSteps
<1>1. PICK step \in {"make", "costume"} :
        Goto("refresh", step) /\ (step = "make" <=> online /\ wanted)
  BY DEF RefreshBegin
<1>2. /\ pc' \in [Coroutine -> PcSteps] /\ pc'["refresh"] = step
      /\ \A j \in Coroutine \ {"refresh"} : pc'[j] = pc[j]
  BY <1>0, <1>1, CoroutineMoves DEF SuspectInv
<1>3. /\ UNCHANGED <<online, wanted, record, costume, worn, tracked, reconciled, change>>
      /\ flag' = IF flag > 0 THEN flag - 1 ELSE 0
      /\ sweep' = [wanted |-> online /\ wanted, costume |-> FALSE, seen |-> FALSE]
      /\ At("refresh", "idle")
      /\ \/ since' = since
         \/ /\ Suspect /\ since < 2 /\ since' = since + 1
            /\ \A k \in Coroutine : At(k, "idle")
  BY DEF RefreshBegin, status, memory, NoSweep
<1>4. SuspectTypes'
  <2>1. flag' \in 0 .. Lifetime
    BY <1>3, SuspectsAssumption DEF SuspectInv, SuspectTypes
  <2>2. since' \in 0 .. 2
    BY <1>3 DEF SuspectInv, SuspectTypes
  <2>3. sweep' \in [wanted : BOOLEAN, costume : BOOLEAN, seen : BOOLEAN]
    BY <1>3 DEF SuspectInv, SuspectTypes
  <2> QED BY <1>2, <1>3, <2>1, <2>2, <2>3 DEF SuspectInv, SuspectTypes
<1>5. ASSUME since' > 0 PROVE Suspect' /\ HandlersFresh' /\ SweepFresh' /\ FlagIsUp'
  <2>1. Suspect /\ HandlersFresh
    <3>1. CASE since > 0
      BY <3>1 DEF SuspectInv
    <3>2. CASE ~(since > 0)
      <4>1. Suspect /\ \A k \in Coroutine : pc[k] = "idle"
        BY <1>3, <1>5, <3>2 DEF At
      <4> QED BY <1>0, <4>1 DEF HandlersFresh, At
    <3> QED BY <3>1, <3>2
  <2>2. Suspect' /\ HandlersFresh'
    BY <1>0, <1>2, <1>3, <2>1 DEF Suspect, HandlersFresh, At
  <2>3. sweep'.wanted = wanted
    BY <1>3, <2>1 DEF Suspect, SuspectInv, SuspectTypes
  <2>4. SweepFresh'
    BY <1>1, <1>2, <1>3, <2>1, <2>3 DEF SweepFresh, At, Suspect
  <2>5. since' = 2 => flag' > 0
    <3>1. since' = 2 => since > 0
      BY <1>3 DEF SuspectInv, SuspectTypes
    <3>2. since > 0 => flag = Lifetime
      BY <1>3 DEF SuspectInv, FlagIsUp, NotYetSet, At
    <3> QED BY <1>3, <3>1, <3>2, SuspectsAssumption
  <2>6. NotYetSet'
    BY <1>1, <1>2, <2>1, <2>3 DEF NotYetSet, At, Suspect
  <2> QED BY <2>2, <2>4, <2>5, <2>6 DEF FlagIsUp
<1> QED BY <1>4, <1>5 DEF SuspectInv

(* A failed call and a restart start the count again.                      *)
LEMMA SuspectMishap == ASSUME SuspectInv, CallFails \/ WorkerRestart PROVE SuspectInv'
<1>0. /\ Coroutine = {"refresh", "crime", "expiry", "dress", "arrest"}
      /\ {"idle", "costume", "reconcile", "out", "keep"} \subseteq PcSteps
  BY DEF Coroutine, PcSteps
<1>1. since' = 0 /\ UNCHANGED <<online, wanted, record, costume, worn, flag>>
  BY DEF CallFails, WorkerRestart, status, game
<1>2. CASE CallFails
  <2>1. \E k \in Coroutine, step \in {"idle", "costume", "reconcile", "out", "keep"} :
          Goto(k, step)
    BY <1>0, <1>2 DEF CallFails
  <2>2. pc' \in [Coroutine -> PcSteps]
    BY <1>0, <2>1, CoroutineMoves DEF SuspectInv
  <2>3. /\ tracked' \in BOOLEAN
        /\ UNCHANGED <<reconciled, change>>
        /\ sweep' = sweep \/ sweep' = [wanted |-> FALSE, costume |-> sweep.costume,
                                       seen |-> sweep.seen]
    <3>1. tracked' = tracked \/ \E step : tracked' = (step = "make")
      BY <1>2 DEF CallFails
    <3>2. tracked' \in BOOLEAN
      BY <3>1 DEF SuspectInv, SuspectTypes
    <3> QED BY <1>2, <3>2 DEF CallFails, SuspectInv, SuspectTypes
  <2>4. sweep' \in [wanted : BOOLEAN, costume : BOOLEAN, seen : BOOLEAN]
    <3>1. /\ sweep \in [wanted : BOOLEAN, costume : BOOLEAN, seen : BOOLEAN]
          /\ sweep.costume \in BOOLEAN /\ sweep.seen \in BOOLEAN
      BY DEF SuspectInv, SuspectTypes
    <3>2. [wanted |-> FALSE, costume |-> sweep.costume, seen |-> sweep.seen]
            \in [wanted : BOOLEAN, costume : BOOLEAN, seen : BOOLEAN]
      BY <3>1
    <3> QED BY <2>3, <3>1, <3>2
  <2> QED BY <1>1, <2>2, <2>3, <2>4 DEF SuspectInv, SuspectTypes
<1>3. CASE WorkerRestart
  <2>1. pc' \in [Coroutine -> PcSteps]
    BY <1>0, <1>3 DEF WorkerRestart
  <2>2. /\ sweep' \in [wanted : BOOLEAN, costume : BOOLEAN, seen : BOOLEAN]
        /\ change' \in [was : BOOLEAN, is : BOOLEAN]
    BY <1>3 DEF WorkerRestart, NoSweep, NoChange
  <2>3. tracked' \in BOOLEAN /\ reconciled' \in BOOLEAN
    BY <1>3 DEF WorkerRestart
  <2> QED BY <1>1, <2>1, <2>2, <2>3 DEF SuspectInv, SuspectTypes
<1> QED BY <1>2, <1>3

LEMMA SuspectIdleKeeps == ASSUME SuspectInv, UNCHANGED suspectVars PROVE SuspectInv'
<1>1. UNCHANGED <<online, wanted, record, costume, worn, flag, tracked, reconciled, pc, sweep,
                  change, since>>
  BY DEF suspectVars, status, game, memory, local
<1> QED BY <1>1
  DEF SuspectInv, SuspectTypes, Suspect, HandlersFresh, SweepFresh, FlagIsUp, NotYetSet, At

(* Whoever was a suspect through a whole refresh shows the flag, and goes  *)
(* on showing it while pursuit and costume hand over to each other, unless *)
(* a call failed or a status changed between another coroutine's look and  *)
(* its step, for every lifetime of the flag of two refresh periods or more *)
(* (criminals.py:644-785, handlers/customization.py:16-78).                *)
THEOREM SuspectsAreFlagged == SuspectSpec => []SuspectsStayFlagged
<1>1. SuspectInv /\ [SuspectNext]_suspectVars => SuspectInv'
  BY LeaveKeeps, CrimeKeeps, ExpiryKeeps, ArrestKeeps, DressKeeps, MakeKeeps, RefreshLooks,
     SaveKeeps, RefreshEnds, RefreshBegins, SuspectMishap, SuspectIdleKeeps
  DEF SuspectNext
<1>2. SuspectInv => SuspectsStayFlagged
  BY SuspectsAssumption
  DEF SuspectInv, SuspectTypes, FlagIsUp, NotYetSet, SuspectsStayFlagged
<1> QED BY <1>1, <1>2, SuspectInitInv, PTL DEF SuspectSpec

-----------------------------------------------------------------------------
(* ----- The town -----                                                    *)
(* A behaviour of the town is one of each part: a part that is not looked  *)
(* at rests, and one that is takes its own steps.                          *)
LEMMA TownIsItsParts ==
  /\ TownInit => /\ AuctionInit /\ ChainInit /\ VoucherInit /\ GuildInit /\ SuspectInit
                 /\ PresenceInit /\ RaceInit /\ PollingInit /\ ServiceInit
  /\ [TownNext]_townVars =>
       /\ [AuctionNext]_auctionVars /\ [ChainNext]_chainVars /\ [VoucherNext]_voucherVars
       /\ [GuildNext]_guildVars /\ [SuspectNext]_suspectVars /\ [PresenceNext]_presenceVars
       /\ [RaceNext]_raceVars /\ [PollingNext]_pollingVars /\ [ServiceNext]_serviceVars
<1>1. TownInit => /\ AuctionInit /\ ChainInit /\ VoucherInit /\ GuildInit /\ SuspectInit
                  /\ PresenceInit /\ RaceInit /\ PollingInit /\ ServiceInit
  BY DEF TownInit
<1>2. ASSUME TownNext
      PROVE  /\ [AuctionNext]_auctionVars /\ [ChainNext]_chainVars /\ [VoucherNext]_voucherVars
             /\ [GuildNext]_guildVars /\ [SuspectNext]_suspectVars /\ [PresenceNext]_presenceVars
             /\ [RaceNext]_raceVars /\ [PollingNext]_pollingVars /\ [ServiceNext]_serviceVars
  BY <1>2, Zenon DEF TownNext, OthersRest
<1>3. ASSUME UNCHANGED townVars
      PROVE  /\ [AuctionNext]_auctionVars /\ [ChainNext]_chainVars /\ [VoucherNext]_voucherVars
             /\ [GuildNext]_guildVars /\ [SuspectNext]_suspectVars /\ [PresenceNext]_presenceVars
             /\ [RaceNext]_raceVars /\ [PollingNext]_pollingVars /\ [ServiceNext]_serviceVars
  BY <1>3 DEF townVars
<1> QED BY <1>1, <1>2, <1>3

(* What is proved of the parts holds in the town, with all of them side by *)
(* side, as the run of TLC checks it.                                      *)
THEOREM TownKeeps ==
  TownSpec => [](/\ EscrowBacksBids /\ RewardsWithinPool /\ FulfilledCountsContributions
                 /\ VoucherPaidOnce /\ SessionFollowsSeat /\ SuspectsStayFlagged
                 /\ SessionsMatchLines /\ RacesAreKept /\ PolledOnce /\ ServiceIsHonoured)
<1>1. TownSpec => /\ AuctionSpec /\ ChainSpec /\ VoucherSpec /\ GuildSpec /\ SuspectSpec
                  /\ PresenceSpec /\ RaceSpec /\ PollingSpec /\ ServiceSpec
  BY TownIsItsParts, PTL
  DEF TownSpec, AuctionSpec, ChainSpec, VoucherSpec, GuildSpec, SuspectSpec, PresenceSpec,
      RaceSpec, PollingSpec, ServiceSpec
<1> QED
  BY <1>1, AuctionsAreBacked, RewardsAreWithinPool, CountsMatch, VouchersArePaidOnce,
     SessionIsOfSeat, SuspectsAreFlagged, SessionsKept, RacesKept, EventsArePolledOnce,
     ServiceHonoured, PTL
=============================================================================
