----------------------------- MODULE FeedProofs -----------------------------
(***************************************************************************)
(* Proofs about what is read from the game and its log: polled events      *)
(* (Polling), races (Race), logins and logouts (Presence), for every ring, *)
(* clock, number of racers, sections and lines.                            *)
(*                                                                         *)
(* PolledOnce is not inductive.  The mark that a batch will write passes   *)
(* events that came after it was fetched: what saves them is that their    *)
(* numbers and times are not below those of the batch (BatchInv), that     *)
(* the mark always is the time of an event that was dealt with (FloorInv), *)
(* and that an event above the mark was dispatched once for each batch     *)
(* that broke (CountInv).                                                  *)
(*                                                                         *)
(* RacesAreKept speaks of the end only.  Until then the events of whole    *)
(* races wait in the order of the races, each once (QueueInv), a row whose *)
(* end was handled is complete (RowsInv) - the first one unless a section  *)
(* that was passed is still to be handled, and the last of these is the    *)
(* one where the racer is (LastInv).  A race is rewarded once for its end, *)
(* and again once for each death (RewardInv).                              *)
(*                                                                         *)
(* SessionsMatchLines is a fact about any set of recorded lines: the spans *)
(* are what they say in their order, provided that no line recorded is     *)
(* more than three after one that is not (SpansInv).                       *)
(***************************************************************************)
EXTENDS Polling, Race, Presence, SequenceTheorems, SumProofs

(* ----- Polled events -----                                               *)
PollTypes ==
  /\ now \in Nat \ {0} /\ floor \in Nat
  /\ stamp \in [Number -> Nat]
  /\ dealt \in [Number -> Nat] /\ broken \in [Number -> Nat]
  /\ poll \in [Poller -> [all : SUBSET Number, todo : SUBSET Number]]

(* Events are numbered as they occur, and the clock does not go back.      *)
ClockInv ==
  /\ Cardinality(Occurred) \in 0 .. Emits
  /\ Occurred = 1 .. Cardinality(Occurred)
  /\ \A n \in Number : stamp[n] <= now
  /\ \A m, n \in Occurred : m < n => stamp[m] <= stamp[n]

FloorInv ==
  /\ floor > 0 => \E m \in Number : stamp[m] = floor /\ Settled(m)
  /\ \A n \in InRing : stamp[n] <= floor => Settled(n) \/ Shadowed(n)

Taken(p) == poll[p].all \ poll[p].todo

BatchInv ==
  \A p \in Poller : poll[p] # NoBatch =>
    /\ worker = "running"
    /\ \A q \in Poller : poll[q] # NoBatch => q = p
    /\ poll[p].todo \subseteq poll[p].all /\ poll[p].all \subseteq Occurred
    /\ \A n \in poll[p].all : stamp[n] > floor
    /\ \A n \in Taken(p) : dealt[n] > 0
    /\ \A n \in InRing : stamp[n] > floor =>
         n \in poll[p].all \/ \A m \in poll[p].all : m < n

CountInv ==
  \A n \in Number :
    /\ dealt[n] <= 1 + broken[n]
    /\ stamp[n] = 0 => dealt[n] = 0
    /\ stamp[n] > floor /\ (\A p \in Poller : n \notin Taken(p)) => dealt[n] <= broken[n]

PollInv == PollTypes /\ ClockInv /\ FloorInv /\ BatchInv /\ CountInv

-----------------------------------------------------------------------------
LEMMA RingIsOccurred == InRing \subseteq Occurred
BY DEF InRing

(* A batch is what lies in the ring above the mark.                        *)
LEMMA FreshIsAbove ==
  ASSUME PollTypes
  PROVE  Fresh = {n \in InRing : stamp[n] > floor}
BY DEF Fresh, InRing, Occurred, PollTypes, Number

LEMMA InitPolls == PollingInit => PollInv
<1> SUFFICES ASSUME PollingInit PROVE PollInv
  OBVIOUS
<1>1. PollTypes
  BY DEF PollingInit, PollTypes, NoBatch
<1>2. Occurred = {}
  BY DEF PollingInit, Occurred
<1>3. Cardinality(Occurred) = 0
  BY <1>2, FS_EmptySet
<1>4. ClockInv
  BY <1>2, <1>3, PollingAssumption DEF ClockInv, PollingInit
<1>5. FloorInv /\ BatchInv /\ CountInv
  BY <1>2, RingIsOccurred DEF FloorInv, BatchInv, CountInv, PollingInit
<1> QED
  BY <1>1, <1>4, <1>5 DEF PollInv

-----------------------------------------------------------------------------
(* The mod server.                                                         *)
LEMMA OccurKeeps ==
  ASSUME PollInv, Occur
  PROVE  PollInv'
<1> DEFINE k == Cardinality(Occurred)
<1>1. k \in Nat /\ k + 1 \in Number /\ Occurred = 1 .. k
  BY PollingAssumption DEF PollInv, ClockInv, Occur, Number
<1> HIDE DEF k
<1>2. stamp' = [stamp EXCEPT ![k + 1] = now]
      /\ UNCHANGED <<now, floor, worker, poll, dealt, broken, waived>>
  BY DEF Occur, k
<1>3. PollTypes'
  BY <1>2 DEF PollInv, PollTypes
<1>4. stamp'[k + 1] = now /\ now > 0 /\ \A n \in Number : n # k + 1 => stamp'[n] = stamp[n]
  BY <1>1, <1>2 DEF PollInv, PollTypes
<1>5. Occurred' = 1 .. (k + 1)
  BY <1>1, <1>4 DEF Occurred, Number
<1>6. Cardinality(Occurred') = k + 1
  BY <1>1, <1>5, FS_Interval
<1>7. ClockInv'
  <2>1. k + 1 \in 0 .. Emits
    BY <1>1, PollingAssumption DEF Number
  <2>2. \A n \in Number : stamp'[n] <= now'
    BY <1>2, <1>4 DEF PollInv, ClockInv, PollTypes
  <2>3. \A m, n \in Occurred' : m < n => stamp'[m] <= stamp'[n]
    <3> SUFFICES ASSUME NEW m \in Occurred', NEW n \in Occurred', m < n
                 PROVE  stamp'[m] <= stamp'[n]
      OBVIOUS
    <3>1. m \in 1 .. k /\ m \in Number /\ n \in Number
      BY <1>1, <1>5, PollingAssumption DEF Number
    <3>2. m \in Occurred /\ stamp'[m] = stamp[m] /\ stamp[m] <= now
      BY <1>1, <1>4, <3>1 DEF PollInv, ClockInv
    <3>3. CASE n = k + 1
      BY <1>4, <3>2, <3>3
    <3>4. CASE n # k + 1
      BY <1>1, <1>4, <1>5, <3>1, <3>2, <3>4 DEF PollInv, ClockInv
    <3> QED BY <3>3, <3>4
  <2> QED
    BY <1>5, <1>6, <2>1, <2>2, <2>3 DEF ClockInv
<1>8. \A n \in InRing' : n = k + 1 \/ n \in InRing
  BY <1>1, <1>5, <1>6, PollingAssumption DEF InRing, k
<1>9. FloorInv'
  <2>1. \A m \in Number : Settled(m) => Settled(m)'
    BY <1>2 DEF Settled
  <2>2. \A m \in Occurred : stamp'[m] = stamp[m] /\ m \in Number
    BY <1>1, <1>4, PollingAssumption DEF Number
  <2>3. ASSUME floor' > 0
        PROVE  \E m \in Number : stamp'[m] = floor' /\ Settled(m)' /\ m < k + 1
    <3>1. PICK m \in Number : stamp[m] = floor /\ Settled(m)
      BY <1>2, <2>3 DEF PollInv, FloorInv
    <3>2. m \in Occurred
      BY <1>2, <2>3, <3>1 DEF Occurred
    <3> QED
      BY <1>1, <1>2, <2>1, <2>2, <3>1, <3>2
  <2>4. ASSUME NEW n \in InRing', stamp'[n] <= floor'
        PROVE  Settled(n)' \/ Shadowed(n)'
    <3>1. CASE n = k + 1
      <4>1. now <= floor
        BY <1>2, <1>4, <2>4, <3>1
      <4>2. PICK m \in Number : stamp'[m] = floor' /\ Settled(m)' /\ m < k + 1
        BY <1>2, <1>4, <2>3, <4>1 DEF PollInv, PollTypes
      <4>3. stamp'[m] <= now'
        BY <1>7 DEF ClockInv
      <4> QED
        BY <1>2, <1>4, <3>1, <4>1, <4>2, <4>3 DEF PollInv, PollTypes, Shadowed
    <3>2. CASE n # k + 1
      <4>1. n \in InRing /\ n \in Occurred
        BY <1>8, <3>2, RingIsOccurred
      <4>2. Settled(n) \/ Shadowed(n)
        BY <1>2, <2>2, <2>4, <4>1 DEF PollInv, FloorInv
      <4>3. CASE Shadowed(n)
        <5>1. PICK m \in Number : m < n /\ stamp[m] = stamp[n] /\ Settled(m)
          BY <4>3 DEF Shadowed
        <5>2. m \in 1 .. k
          BY <1>1, <4>1, <5>1 DEF Number
        <5> QED
          BY <1>1, <2>1, <2>2, <4>1, <5>1, <5>2 DEF Shadowed
      <4> QED BY <1>1, <2>1, <2>2, <4>1, <4>2, <4>3
    <3> QED BY <3>1, <3>2
  <2> QED
    BY <2>3, <2>4 DEF FloorInv
<1>10. BatchInv'
  <2> SUFFICES ASSUME NEW p \in Poller, poll'[p] # NoBatch
               PROVE  /\ worker' = "running"
                      /\ \A q \in Poller : poll'[q] # NoBatch => q = p
                      /\ poll'[p].todo \subseteq poll'[p].all
                      /\ poll'[p].all \subseteq Occurred'
                      /\ \A n \in poll'[p].all : stamp'[n] > floor'
                      /\ \A n \in Taken(p)' : dealt'[n] > 0
                      /\ \A n \in InRing' : stamp'[n] > floor' =>
                           n \in poll'[p].all \/ \A m \in poll'[p].all : m < n
    BY DEF BatchInv
  <2>1. /\ worker = "running"
        /\ \A q \in Poller : poll[q] # NoBatch => q = p
        /\ poll[p].todo \subseteq poll[p].all /\ poll[p].all \subseteq Occurred
        /\ \A n \in poll[p].all : stamp[n] > floor
        /\ \A n \in Taken(p) : dealt[n] > 0
        /\ \A n \in InRing : stamp[n] > floor =>
             n \in poll[p].all \/ \A m \in poll[p].all : m < n
    BY <1>2 DEF PollInv, BatchInv
  <2>2. \A n \in poll[p].all : n \in 1 .. k /\ stamp'[n] = stamp[n]
    BY <1>1, <1>4, <2>1, PollingAssumption DEF Number
  <2>3. ASSUME NEW n \in InRing', stamp'[n] > floor'
        PROVE  n \in poll'[p].all \/ \A m \in poll'[p].all : m < n
    <3>1. CASE n = k + 1
      BY <1>1, <1>2, <2>2, <3>1
    <3>2. CASE n # k + 1
      <4>1. n \in InRing /\ n \in Number
        BY <1>8, <3>2 DEF InRing, Occurred
      <4> QED
        BY <1>2, <1>4, <2>1, <2>3, <3>2, <4>1
    <3> QED BY <3>1, <3>2
  <2> QED
    BY <1>1, <1>2, <1>5, <2>1, <2>2, <2>3 DEF Taken
<1>11. CountInv'
  <2> SUFFICES ASSUME NEW n \in Number
               PROVE  /\ dealt[n] <= 1 + broken[n]
                      /\ stamp'[n] = 0 => dealt[n] = 0
                      /\ stamp'[n] > floor /\ (\A p \in Poller : n \notin Taken(p))
                           => dealt[n] <= broken[n]
    BY <1>2 DEF CountInv, Taken
  <2>1. CASE n # k + 1
    BY <1>4, <2>1 DEF PollInv, CountInv
  <2>2. CASE n = k + 1
    <3>1. n \notin Occurred
      BY <1>1, <2>2
    <3>2. stamp[n] = 0
      BY <3>1 DEF Occurred, PollInv, PollTypes
    <3> QED
      BY <1>4, <2>2, <3>2 DEF PollInv, CountInv, PollTypes
  <2> QED BY <2>1, <2>2
<1> QED
  BY <1>3, <1>7, <1>9, <1>10, <1>11 DEF PollInv

LEMMA ClockKeeps ==
  ASSUME PollInv, ClockTicks
  PROVE  PollInv'
<1>1. now' = now + 1 /\ UNCHANGED <<stamp, floor, worker, poll, dealt, broken, waived>>
  BY DEF ClockTicks
<1>2. Occurred' = Occurred /\ InRing' = InRing
  BY <1>1 DEF Occurred, InRing
<1>3. PollTypes' /\ ClockInv'
  BY <1>1, <1>2 DEF PollInv, PollTypes, ClockInv
<1>4. FloorInv' /\ BatchInv' /\ CountInv'
  BY <1>1, <1>2 DEF PollInv, FloorInv, BatchInv, CountInv, Settled, Shadowed, Taken
<1> QED
  BY <1>3, <1>4 DEF PollInv

-----------------------------------------------------------------------------
(* What the steps of the worker leave alone.                               *)
LEMMA WorkerKeepsClock ==
  ASSUME PollInv, UNCHANGED <<now, stamp>>
  PROVE  ClockInv' /\ Occurred' = Occurred /\ InRing' = InRing
<1>1. Occurred' = Occurred
  BY DEF Occurred
<1> QED
  BY <1>1 DEF PollInv, ClockInv, InRing

(* What is dealt with stays so, and with the same mark the ring stays in   *)
(* order.                                                                  *)
LEMMA SettledKeepsFloor ==
  ASSUME PollInv, UNCHANGED <<now, stamp, floor>>,
         \A n \in Number : Settled(n) => Settled(n)'
  PROVE  FloorInv'
<1>1. InRing' = InRing /\ InRing \subseteq Number
  BY WorkerKeepsClock DEF InRing, Occurred
<1>2. \A n \in Number : Shadowed(n) => Shadowed(n)'
  BY DEF Shadowed
<1> QED
  BY <1>1, <1>2 DEF PollInv, FloorInv

LEMMA BootstrapKeeps ==
  ASSUME PollInv, Bootstrap
  PROVE  PollInv'
<1>1. /\ worker = "starting"
      /\ UNCHANGED <<now, stamp, poll, dealt, broken>>
  BY DEF Bootstrap
<1>2. \A p \in Poller : poll[p] = NoBatch
  BY <1>1 DEF PollInv, BatchInv
<1>3. ClockInv' /\ InRing' = InRing
  BY <1>1, WorkerKeepsClock
<1>4. BatchInv'
  BY <1>1, <1>2 DEF BatchInv
<1>5. CASE UNCHANGED <<floor, waived>>
  <2>1. PollTypes' /\ CountInv'
    BY <1>1, <1>5 DEF PollInv, PollTypes, CountInv, Taken
  <2>2. FloorInv'
    BY <1>1, <1>5, SettledKeepsFloor DEF Settled
  <2> QED
    BY <1>3, <1>4, <2>1, <2>2 DEF PollInv
<1>6. CASE /\ floor = 0 /\ InRing # {}
           /\ floor' = Max({stamp[n] : n \in InRing})
           /\ waived' = waived \cup InRing
  <2> DEFINE S == {stamp[n] : n \in InRing}
  <2>0. InRing \subseteq Number
    BY DEF InRing, Occurred
  <2>1. S \subseteq Nat /\ S # {} /\ now \in Nat /\ \A x \in S : x <= now
    BY <1>6, <2>0 DEF PollInv, PollTypes, ClockInv
  <2>2. Max(S) \in S /\ \A y \in S : y <= Max(S)
    <3> HIDE DEF S
    <3> QED BY <2>1, Largest
  <2>3. PICK m \in InRing : floor' = stamp[m]
    BY <1>6, <2>2
  <2>4. \A n \in InRing : Settled(n)'
    BY <1>6 DEF Settled
  <2>5. FloorInv'
    BY <1>1, <1>3, <2>0, <2>3, <2>4 DEF FloorInv
  <2>6. PollTypes'
    BY <1>1, <1>6, <2>1, <2>2 DEF PollInv, PollTypes
  <2>7. CountInv'
    BY <1>1, <1>6, <2>6 DEF PollInv, PollTypes, CountInv, Taken
  <2> QED
    BY <1>3, <1>4, <2>5, <2>6, <2>7 DEF PollInv
<1> QED
  BY <1>5, <1>6 DEF Bootstrap

-----------------------------------------------------------------------------
(* A poll starts alone (skip_if_running) with the fresh events.            *)
LEMMA PollKeeps ==
  ASSUME NEW p \in Poller, PollInv, Poll(p)
  PROVE  PollInv'
<1>1. /\ worker = "running" /\ \A q \in Poller : poll[q] = NoBatch
      /\ poll' = [poll EXCEPT ![p] = [all |-> Fresh, todo |-> Fresh]]
      /\ UNCHANGED <<now, stamp, floor, worker, dealt, broken, waived>>
  BY DEF Poll
<1>2. ClockInv' /\ InRing' = InRing /\ Occurred' = Occurred
  BY <1>1, WorkerKeepsClock
<1>3. Fresh = {n \in InRing : stamp[n] > floor} /\ InRing \subseteq Occurred
      /\ Occurred \subseteq Number
  BY FreshIsAbove, RingIsOccurred DEF PollInv, Occurred
<1>4. PollTypes'
  BY <1>1, <1>3 DEF PollInv, PollTypes
<1>5. poll'[p] = [all |-> Fresh, todo |-> Fresh]
      /\ \A q \in Poller : q # p => poll'[q] = NoBatch
  BY <1>1 DEF PollInv, PollTypes
<1>6. FloorInv'
  BY <1>1, SettledKeepsFloor DEF Settled
<1>7. Taken(p)' = {}
  BY <1>5 DEF Taken
<1>8. BatchInv'
  BY <1>1, <1>2, <1>3, <1>5, <1>7 DEF BatchInv
<1>9. CountInv'
  <2>1. \A q \in Poller : Taken(q) = {}
    BY <1>1 DEF Taken, NoBatch
  <2> QED
    BY <1>1, <2>1 DEF PollInv, CountInv
<1> QED
  BY <1>2, <1>4, <1>6, <1>8, <1>9 DEF PollInv

(* An event of the batch is above the mark: it was dispatched only for     *)
(* batches that broke.                                                     *)
LEMMA BatchUndealt ==
  ASSUME PollInv, NEW p \in Poller, NEW n \in poll[p].todo
  PROVE  /\ n \in Number /\ poll[p] # NoBatch /\ n \in poll[p].all
         /\ stamp[n] > floor
         /\ \A q \in Poller : q # p => poll[q] = NoBatch
         /\ dealt[n] <= broken[n]
<1>1. poll[p] # NoBatch
  BY DEF NoBatch
<1>2. /\ poll[p].todo \subseteq poll[p].all /\ poll[p].all \subseteq Occurred
      /\ \A q \in Poller : q # p => poll[q] = NoBatch
      /\ stamp[n] > floor /\ n \in Number
  BY <1>1 DEF PollInv, BatchInv, Occurred
<1>3. \A q \in Poller : n \notin Taken(q)
  BY <1>2 DEF Taken, NoBatch
<1> QED
  BY <1>1, <1>2, <1>3 DEF PollInv, CountInv

LEMMA DispatchKeeps ==
  ASSUME NEW p \in Poller, PollInv, Dispatch(p)
  PROVE  PollInv'
<1>1. PICK n \in poll[p].todo :
        /\ dealt' = [dealt EXCEPT ![n] = @ + 1]
        /\ poll' = [poll EXCEPT ![p].todo = @ \ {n}]
        /\ UNCHANGED <<now, stamp, floor, worker, broken, waived>>
  BY DEF Dispatch
<1>2. /\ n \in Number /\ poll[p] # NoBatch /\ n \in poll[p].all /\ stamp[n] > floor
      /\ \A q \in Poller : q # p => poll[q] = NoBatch
      /\ dealt[n] <= broken[n]
  BY BatchUndealt
<1>3. ClockInv' /\ InRing' = InRing /\ Occurred' = Occurred
  BY <1>1, WorkerKeepsClock
<1>4. PollTypes'
  BY <1>1, <1>2 DEF PollInv, PollTypes
<1>5. /\ poll'[p].all = poll[p].all /\ poll'[p].todo = poll[p].todo \ {n}
      /\ \A q \in Poller : q # p => poll'[q] = poll[q]
  BY <1>1 DEF PollInv, PollTypes
<1>6. dealt'[n] = dealt[n] + 1 /\ \A m \in Number : m # n => dealt'[m] = dealt[m]
  BY <1>1, <1>2 DEF PollInv, PollTypes
<1>7. FloorInv'
  <2>1. \A m \in Number : Settled(m) => Settled(m)'
    BY <1>1, <1>2, <1>6 DEF Settled, PollInv, PollTypes
  <2> QED
    BY <1>1, <2>1, SettledKeepsFloor
<1>8. Taken(p)' = Taken(p) \cup {n} /\ \A q \in Poller : q # p => Taken(q)' = {}
  BY <1>2, <1>5 DEF Taken, NoBatch
<1>9. BatchInv'
  <2>1. \A m \in Taken(p)' : dealt'[m] > 0
    BY <1>2, <1>6, <1>8 DEF PollInv, PollTypes, BatchInv, Taken
  <2> QED
    BY <1>1, <1>2, <1>3, <1>5, <2>1 DEF PollInv, BatchInv
<1>10. CountInv'
  <2> SUFFICES ASSUME NEW m \in Number
               PROVE  /\ dealt'[m] <= 1 + broken[m]
                      /\ stamp[m] = 0 => dealt'[m] = 0
                      /\ stamp[m] > floor /\ (\A q \in Poller : m \notin Taken(q)')
                           => dealt'[m] <= broken[m]
    BY <1>1 DEF CountInv
  <2>1. CASE m = n
    BY <1>2, <1>6, <1>8, <2>1 DEF PollInv, PollTypes
  <2>2. CASE m # n
    <3>1. (\A q \in Poller : m \notin Taken(q)') => \A q \in Poller : m \notin Taken(q)
      BY <1>2, <1>8, <2>2 DEF Taken, NoBatch
    <3> QED
      BY <1>6, <2>2, <3>1 DEF PollInv, CountInv
  <2> QED BY <2>1, <2>2
<1> QED
  BY <1>3, <1>4, <1>7, <1>9, <1>10 DEF PollInv

(* The mark moves to the newest time of the batch.  What it passes was in  *)
(* the batch, or came later in the same instant.                           *)
LEMMA PersistKeeps ==
  ASSUME NEW p \in Poller, PollInv, Persist(p)
  PROVE  PollInv'
<1>1. /\ poll[p] # NoBatch /\ poll[p].todo = {}
      /\ floor' = Max({floor} \cup {stamp[n] : n \in poll[p].all})
      /\ poll' = [poll EXCEPT ![p] = NoBatch]
      /\ UNCHANGED <<now, stamp, worker, dealt, broken, waived>>
  BY DEF Persist
<1> DEFINE S == {floor} \cup {stamp[n] : n \in poll[p].all}
<1>2. /\ \A q \in Poller : q # p => poll[q] = NoBatch
      /\ poll[p].all \subseteq Number
      /\ \A n \in poll[p].all : stamp[n] > floor /\ dealt[n] > 0
      /\ \A n \in InRing : stamp[n] > floor =>
           n \in poll[p].all \/ \A m \in poll[p].all : m < n
  BY <1>1 DEF PollInv, BatchInv, PollTypes, Taken
<1>3. /\ S \subseteq Nat /\ S # {} /\ floor + now \in Nat
      /\ \A x \in S : x <= floor + now
  BY <1>2 DEF PollInv, PollTypes, ClockInv
<1>4. Max(S) \in S /\ \A y \in S : y <= Max(S)
  <2> HIDE DEF S
  <2> QED BY <1>3, Largest
<1>5. /\ floor' \in Nat /\ floor' >= floor
      /\ floor' = floor \/ \E m \in poll[p].all : floor' = stamp[m]
      /\ \A n \in poll[p].all : stamp[n] <= floor'
  BY <1>1, <1>3, <1>4
<1>6. ClockInv' /\ InRing' = InRing /\ InRing \subseteq Occurred /\ Occurred \subseteq Number
  BY <1>1, WorkerKeepsClock, RingIsOccurred DEF Occurred
<1>7. PollTypes'
  BY <1>1, <1>5 DEF PollInv, PollTypes, NoBatch
<1>8. \A q \in Poller : poll'[q] = NoBatch
  BY <1>1, <1>2 DEF PollInv, PollTypes
<1>9. BatchInv'
  BY <1>8 DEF BatchInv
<1>10. \A n \in Number : (Settled(n)' <=> Settled(n)) /\ (Shadowed(n)' <=> Shadowed(n))
  BY <1>1 DEF Settled, Shadowed
<1>11. \A n \in poll[p].all : Settled(n)
  BY <1>2 DEF Settled
<1>12. FloorInv'
  <2>1. floor' > 0 => \E m \in Number : stamp'[m] = floor' /\ Settled(m)'
    BY <1>1, <1>2, <1>5, <1>10, <1>11 DEF PollInv, FloorInv
  <2>2. ASSUME NEW n \in InRing, stamp[n] <= floor'
        PROVE  Settled(n) \/ Shadowed(n)
    <3>1. CASE stamp[n] <= floor
      BY <3>1 DEF PollInv, FloorInv
    <3>2. CASE stamp[n] > floor
      <4>1. PICK m \in poll[p].all : floor' = stamp[m]
        BY <1>5, <1>6, <2>2, <3>2 DEF PollInv, PollTypes
      <4>2. CASE n \in poll[p].all
        BY <1>11, <4>2
      <4>3. CASE m < n
        <5>1. m \in Occurred /\ n \in Occurred
          BY <1>1, <1>6 DEF PollInv, BatchInv
        <5>2. stamp[m] <= stamp[n]
          BY <4>3, <5>1 DEF PollInv, ClockInv
        <5> QED
          BY <1>2, <1>6, <1>11, <2>2, <4>1, <4>3, <5>2 DEF Shadowed, PollInv, PollTypes
      <4> QED
        BY <1>2, <3>2, <4>2, <4>3
    <3> QED
      BY <1>6, <3>1, <3>2 DEF PollInv, PollTypes
  <2> QED
    BY <1>1, <1>6, <1>10, <2>1, <2>2 DEF FloorInv
<1>13. CountInv'
  <2> SUFFICES ASSUME NEW n \in Number
               PROVE  /\ dealt[n] <= 1 + broken[n]
                      /\ stamp[n] = 0 => dealt[n] = 0
                      /\ stamp[n] > floor' => dealt[n] <= broken[n]
    BY <1>1 DEF CountInv
  <2>1. stamp[n] > floor' => stamp[n] > floor /\ n \notin poll[p].all
    BY <1>5 DEF PollInv, PollTypes
  <2>2. n \notin poll[p].all => \A q \in Poller : n \notin Taken(q)
    BY <1>2 DEF Taken, NoBatch
  <2> QED
    BY <2>1, <2>2 DEF PollInv, CountInv
<1> QED
  BY <1>6, <1>7, <1>9, <1>12, <1>13 DEF PollInv

-----------------------------------------------------------------------------
(* A batch that breaks counts for each of its events.                      *)
LEMMA BreakKeeps ==
  ASSUME PollInv, NEW ps \in SUBSET Poller, Break(ps),
         UNCHANGED <<now, stamp, floor, waived>>,
         worker' = worker \/ ps = Poller,
         dealt' \in [Number -> Nat],
         \A n \in Number :
           \/ dealt'[n] = dealt[n]
           \/ dealt'[n] = dealt[n] + 1 /\ \E p \in ps : n \in poll[p].todo
  PROVE  PollInv'
<1>1. /\ broken' = [n \in Number |->
                      IF \E p \in ps : n \in poll[p].all THEN broken[n] + 1 ELSE broken[n]]
      /\ poll' = [p \in Poller |-> IF p \in ps THEN NoBatch ELSE poll[p]]
  BY DEF Break
<1>2. ClockInv' /\ InRing' = InRing /\ Occurred' = Occurred
  BY WorkerKeepsClock
<1>3. PollTypes'
  BY <1>1 DEF PollInv, PollTypes, NoBatch
<1>4. \A n \in Number : dealt'[n] >= dealt[n]
  BY DEF PollInv, PollTypes
<1>5. FloorInv'
  <2>1. \A n \in Number : Settled(n) => Settled(n)'
    BY <1>3, <1>4 DEF Settled, PollInv, PollTypes
  <2> QED
    BY <2>1, SettledKeepsFloor
<1>6. BatchInv'
  <2> SUFFICES ASSUME NEW p \in Poller, poll'[p] # NoBatch
               PROVE  /\ worker' = "running"
                      /\ \A q \in Poller : poll'[q] # NoBatch => q = p
                      /\ poll'[p].todo \subseteq poll'[p].all
                      /\ poll'[p].all \subseteq Occurred'
                      /\ \A n \in poll'[p].all : stamp'[n] > floor'
                      /\ \A n \in Taken(p)' : dealt'[n] > 0
                      /\ \A n \in InRing' : stamp'[n] > floor' =>
                           n \in poll'[p].all \/ \A m \in poll'[p].all : m < n
    BY DEF BatchInv
  <2>1. p \notin ps /\ poll'[p] = poll[p]
    BY <1>1
  <2>2. \A q \in Poller : poll'[q] # NoBatch => poll[q] # NoBatch
    BY <1>1
  <2>3. \A n \in Taken(p) : n \in Number /\ dealt'[n] > 0
    BY <1>3, <1>4, <2>1 DEF PollInv, PollTypes, BatchInv, Taken
  <2> QED
    BY <1>2, <2>1, <2>2, <2>3 DEF PollInv, BatchInv, Taken
<1>7. CountInv'
  <2> SUFFICES ASSUME NEW n \in Number
               PROVE  /\ dealt'[n] <= 1 + broken'[n]
                      /\ stamp[n] = 0 => dealt'[n] = 0
                      /\ stamp[n] > floor /\ (\A q \in Poller : n \notin Taken(q)')
                           => dealt'[n] <= broken'[n]
    BY DEF CountInv
  <2>0. dealt[n] \in Nat /\ broken[n] \in Nat /\ dealt'[n] \in Nat
    BY DEF PollInv, PollTypes
  <2>1. CASE \E p \in ps : n \in poll[p].all
    <3>1. broken'[n] = broken[n] + 1 /\ stamp[n] # 0
      BY <1>1, <2>1 DEF PollInv, BatchInv, NoBatch, Occurred
    <3>2. CASE dealt'[n] = dealt[n]
      BY <2>0, <3>1, <3>2 DEF PollInv, CountInv
    <3>3. CASE dealt'[n] = dealt[n] + 1 /\ \E p \in ps : n \in poll[p].todo
      <4>1. dealt[n] <= broken[n]
        BY <3>3, BatchUndealt
      <4> QED BY <2>0, <3>1, <3>3, <4>1
    <3> QED BY <3>2, <3>3
  <2>2. CASE ~ \E p \in ps : n \in poll[p].all
    <3>1. broken'[n] = broken[n] /\ dealt'[n] = dealt[n]
      BY <1>1, <2>2, BatchUndealt
    <3>2. (\A q \in Poller : n \notin Taken(q)') => \A q \in Poller : n \notin Taken(q)
      BY <1>1, <2>2 DEF Taken
    <3> QED
      BY <3>1, <3>2 DEF PollInv, CountInv
  <2> QED BY <2>1, <2>2
<1> QED
  BY <1>2, <1>3, <1>5, <1>6, <1>7 DEF PollInv

LEMMA RaiseKeeps ==
  ASSUME NEW p \in Poller, PollInv, DispatchRaises(p)
  PROVE  PollInv'
<1>1. PICK n \in poll[p].todo :
        /\ Break({p})
        /\ dealt' = [dealt EXCEPT ![n] = @ + 1] \/ UNCHANGED dealt
        /\ UNCHANGED <<now, stamp, floor, worker, waived>>
  BY DEF DispatchRaises
<1>2. n \in Number /\ dealt \in [Number -> Nat]
  BY BatchUndealt DEF PollInv, PollTypes
<1> QED
  BY <1>1, <1>2, BreakKeeps

LEMMA StopKeeps ==
  ASSUME PollInv, StopPolling
  PROVE  PollInv'
BY BreakKeeps DEF StopPolling, PollInv, PollTypes

LEMMA PollingStepKeeps == PollInv /\ [PollingNext]_pollingVars => PollInv'
<1>1. ASSUME PollInv, UNCHANGED pollingVars PROVE PollInv'
  <2>1. ClockInv' /\ InRing' = InRing /\ Occurred' = Occurred
    BY <1>1, WorkerKeepsClock DEF pollingVars
  <2>2. FloorInv'
    BY <1>1, SettledKeepsFloor DEF pollingVars, Settled
  <2> QED
    BY <1>1, <2>1, <2>2 DEF pollingVars, PollInv, PollTypes, BatchInv, CountInv, Taken
<1> QED
  BY <1>1, ClockKeeps, OccurKeeps, BootstrapKeeps, StopKeeps, PollKeeps, DispatchKeeps,
     PersistKeeps, RaiseKeeps DEF PollingNext

(* In polling mode every event is dispatched once and once more for each   *)
(* batch of it that broke, and the mark passes nothing but what fell into  *)
(* an instant already dealt with or was taken over by a starting worker    *)
(* (webhook.py:115-130, dedup.py:59-78).                                   *)
THEOREM EventsArePolledOnce == PollingSpec => []PolledOnce
<1>1. PollInv => PolledOnce
  BY DEF PollInv, CountInv, FloorInv, PolledOnce
<1> QED
  BY <1>1, InitPolls, PollingStepKeeps, PTL DEF PollingSpec
-----------------------------------------------------------------------------
(* ----- Races -----                                                       *)
(* An event of the game, and what is still to be handled, in its order.    *)
BoardEvent == [hook : {"add", "change"}, who : {Owner}, race : Nat, state : 1 .. 3,
               board : [Racer -> [section : 0 .. Goal, time : Nat \X Nat, finished : BOOLEAN]]]
PassEvent  == [hook : {"pass"}, who : Racer, race : Nat, section : 1 .. Goal, time : Nat \X Nat]
GameEvents == BoardEvent \cup PassEvent

Queue == IF batch = <<>> THEN wire ELSE SubSeq(batch, turn, Len(batch)) \o wire

Entry == [joined : BOOLEAN, section : 0 .. Goal, time : Nat \X Nat, finished : BOOLEAN]
RaceRow == [state : 1 .. 3, moved : BOOLEAN, entry : [Racer -> Entry]]

RaceTypes ==
  /\ race \in [number : Nat, state : 1 .. 3] /\ place \in [Racer -> 0 .. Goal]
  /\ wire \in Seq(GameEvents) /\ batch \in Seq(GameEvents)
  /\ turn \in Nat /\ (batch # <<>> => turn \in DOMAIN batch)
  /\ rows \in Seq(RaceRow)
  /\ row \in Nat /\ (row # 0 => row \in DOMAIN rows /\ batch # <<>>)
  /\ prizes \in Seq(Nat) /\ exp \in [Racer -> Nat] /\ deaths \in Nat
  /\ standings \in Seq([Racer -> 0 .. Goal])

(* The game: what was told so far.                                         *)
GameInv ==
  /\ race.number = 0 => race.state = Finished
  /\ Len(standings) = IF race.state = Finished THEN race.number ELSE race.number - 1
  /\ race.number > 0 /\ race.state = Finished => place = standings[race.number]
  /\ race.state = Ready => place = [r \in Racer |-> 0]

(* The number of an event about the whole race, in the order of the game.  *)
Nth(k, s) == 3 * (k - 1) + s
NthOf(e)   == Nth(e.race, e.state)
IsBoard(e) == e.hook # "pass"

Truthful(e) ==
  /\ e.race \in 1 .. race.number
  /\ IsBoard(e) => /\ e.hook = (IF NthOf(e) = 1 THEN "add" ELSE "change")
                   /\ NthOf(e) <= Nth(race.number, race.state)
                   /\ e.board = Board(e.race, IF e.state = Finished THEN standings[e.race]
                                              ELSE [r \in Racer |-> 0])
  /\ ~IsBoard(e) => e.time = Time(e.race, e.section)

AllTruthful(q) == \A i \in DOMAIN q : Truthful(q[i])
EventsInv == AllTruthful(batch) /\ AllTruthful(wire)

(* The row of the event that is handled.                                   *)
FoundInv == row # 0 => IsBoard(batch[turn]) /\ rows[row].state = batch[turn].state

(* ----- The rewards.  A race's end is announced once in what the server   *)
(* holds or has delivered.                                                 *)
IsEnd(e) == e.hook = "change" /\ e.state = Finished
EndsOnce(q) == \A i, j \in DOMAIN q :
                 IsEnd(q[i]) /\ IsEnd(q[j]) /\ q[i].race = q[j].race => i = j
EndsOf(q) == {q[i].race : i \in {j \in DOMAIN q : IsEnd(q[j])}}

RewardInv ==
  /\ EndsOnce(batch \o wire) /\ EndsOnce(Queue)
  /\ \A r \in Racer :
       exp[r] + Len(prizes) + Cardinality(EndsOf(Queue)) <= Len(standings) * (1 + deaths)

(* ----- The rows, while no batch has died.  What was handled of the       *)
(* races, and what is in the queue.                                        *)
Told == IF rows = <<>> THEN 0 ELSE Nth(Len(rows), rows[Len(rows)].state)
NextNth == IF row = 0 THEN Told + 1 ELSE Told

InTurn(q) == \A i, j \in DOMAIN q :
               i < j /\ IsBoard(q[i]) /\ IsBoard(q[j]) => NthOf(q[i]) < NthOf(q[j])
TurnsOf(q) == {NthOf(q[i]) : i \in {j \in DOMAIN q : IsBoard(q[j])}}

QueueInv ==
  /\ InTurn(Queue)
  /\ TurnsOf(Queue) = NextNth .. Nth(race.number, race.state)
  /\ NextNth <= Nth(race.number, race.state) + 1

IsPassOf(e, r) == e.hook = "pass" /\ e.who = r

(* The last that a racer passed is still to be handled, if anything is.    *)
LastComes(q, at) ==
  \A r \in Racer : \A i \in DOMAIN q : IsPassOf(q[i], r) =>
    \E j \in DOMAIN q : i <= j /\ IsPassOf(q[j], r) /\ q[j].section = at[r]

Complete(i) == rows[i].state = Finished /\ i # row

Shows(i, r) == LET e == rows[i].entry[r] IN
  e.section = standings[i][r] /\ e.time = Time(i, standings[i][r])

ToCome(q, r) == \E k \in DOMAIN q : IsPassOf(q[k], r)

EntryIs(i, r) ==
  IF Complete(i)
  THEN /\ rows[i].entry[r].joined
       /\ rows[i].entry[r].finished = (standings[i][r] = Goal)
       /\ i > 1 => Shows(i, r)
       /\ i = 1 /\ race.number = 1 => Shows(1, r) \/ ToCome(Queue, r)
  ELSE ~rows[i].entry[r].finished

RowsInv ==
  /\ \A i \in DOMAIN rows : i < Len(rows) => rows[i].state = Finished
  /\ row # 0 => row = Len(rows)
  /\ \A i \in DOMAIN rows : \A r \in Racer : EntryIs(i, r)

LastInv == race.number = 1 => LastComes(Queue, place)

OrderInv == deaths = 0 => QueueInv /\ RowsInv /\ LastInv

RaceInv == RaceTypes /\ GameInv /\ EventsInv /\ FoundInv /\ RewardInv /\ OrderInv
-----------------------------------------------------------------------------
(* The sorted batch is the queue in the order of Ahead, which is a strict  *)
(* total order of the positions: the place of one counts those before it.  *)
LEMMA KeyIs ==
  ASSUME NEW e \in GameEvents
  PROVE  /\ Key(e) \in Nat
         /\ e.hook = "add" => Key(e) = 3 * e.who
         /\ e.hook = "change" => Key(e) = 3 * e.who + 1
         /\ e.hook = "pass" => Key(e) = 3 * e.who + 2
<1>1. e.who \in Nat /\ e.hook \in {"add", "change", "pass"}
  BY RaceAssumption DEF GameEvents, BoardEvent, PassEvent, Racer
<1> QED BY <1>1 DEF Key

LEMMA AheadOrder ==
  ASSUME NEW q \in Seq(GameEvents)
  PROVE  /\ \A i \in DOMAIN q : ~Ahead(q, i, i)
         /\ \A i, j \in DOMAIN q : i # j => Ahead(q, i, j) \/ Ahead(q, j, i)
         /\ \A i, j, k \in DOMAIN q : Ahead(q, i, j) /\ Ahead(q, j, k) => Ahead(q, i, k)
<1>1. \A i \in DOMAIN q : Key(q[i]) \in Nat /\ i \in Nat
  BY KeyIs
<1> QED BY <1>1 DEF Ahead

LEMMA PlacesFall ==
  ASSUME NEW q \in Seq(GameEvents), NEW i \in DOMAIN q
  PROVE  /\ PlaceOf(q, i) \in DOMAIN q
         /\ \A j \in DOMAIN q : Ahead(q, j, i) => PlaceOf(q, j) < PlaceOf(q, i)
<1> DEFINE Front(k) == {j \in DOMAIN q : Ahead(q, j, k)}
<1>1. IsFiniteSet(DOMAIN q) /\ Cardinality(DOMAIN q) = Len(q) /\ Len(q) \in Nat
  BY FS_Interval
<1>2. \A k : IsFiniteSet(Front(k)) /\ Cardinality(Front(k)) \in Nat
  BY <1>1, FS_Subset, FS_CardinalityType
<1>3. \A k : PlaceOf(q, k) = Cardinality(Front(k)) + 1
  BY DEF PlaceOf
<1>4. Cardinality(Front(i)) < Len(q)
  <2>1. Front(i) \subseteq DOMAIN q /\ Front(i) # DOMAIN q
    BY AheadOrder
  <2> HIDE DEF Front
  <2> QED BY <1>1, <1>2, <2>1, FS_Subset
<1>5. PlaceOf(q, i) \in DOMAIN q
  <2> HIDE DEF Front
  <2> QED BY <1>1, <1>2, <1>3, <1>4
<1>6. ASSUME NEW j \in DOMAIN q, Ahead(q, j, i) PROVE PlaceOf(q, j) < PlaceOf(q, i)
  <2>1. Front(j) \subseteq Front(i) /\ Front(j) # Front(i)
    BY <1>6, AheadOrder
  <2>2. Cardinality(Front(j)) < Cardinality(Front(i))
    <3> HIDE DEF Front
    <3>1. Cardinality(Front(j)) <= Cardinality(Front(i))
      BY <1>2, <2>1, FS_Subset
    <3>2. Cardinality(Front(i)) # Cardinality(Front(j))
      BY <1>2, <2>1, FS_Subset
    <3> QED BY <1>2, <3>1, <3>2
  <2> HIDE DEF Front
  <2> QED BY <1>2, <1>3, <2>2
<1> QED BY <1>5, <1>6

Reorders(q, s, f) ==
  /\ f \in [DOMAIN q -> DOMAIN q]
  /\ \A n \in DOMAIN q : s[n] = q[f[n]]
  /\ \A m, n \in DOMAIN q : m < n => Ahead(q, f[m], f[n])
  /\ \A i \in DOMAIN q : \E n \in DOMAIN q : f[n] = i

LEMMA SortedIs ==
  ASSUME NEW q \in Seq(GameEvents)
  PROVE  /\ Sorted(q) \in Seq(GameEvents) /\ DOMAIN Sorted(q) = DOMAIN q
         /\ \E f : Reorders(q, Sorted(q), f)
<1> DEFINE D == DOMAIN q
           g == [i \in D |-> PlaceOf(q, i)]
           f == [n \in D |-> CHOOSE i \in D : PlaceOf(q, i) = n]
<1>1. IsFiniteSet(D) /\ D = 1 .. Len(q) /\ Len(q) \in Nat
  BY FS_Interval
<1>2. g \in Injection(D, D)
  <2>1. g \in [D -> D]
    BY PlacesFall
  <2>2. ASSUME NEW i \in D, NEW j \in D, i # j PROVE g[i] # g[j]
    <3>1. Ahead(q, i, j) \/ Ahead(q, j, i)
      BY <2>2, AheadOrder
    <3>2. g[i] \in Nat /\ g[j] \in Nat
      BY <2>1, <1>1
    <3>3. g[i] < g[j] \/ g[j] < g[i]
      BY <3>1, PlacesFall
    <3> QED BY <3>2, <3>3
  <2> HIDE DEF g
  <2> QED BY <2>1, <2>2 DEF Injection, IsInjective
<1>3. g \in Surjection(D, D)
  <2> HIDE DEF g, D
  <2> QED BY <1>1, <1>2, FS_Injection
<1>4. \A n \in D : \E i \in D : PlaceOf(q, i) = n
  BY <1>3 DEF Surjection
<1>5. \A n \in D : f[n] \in D /\ PlaceOf(q, f[n]) = n
  BY <1>4
<1>6. \A i \in D : \E n \in D : f[n] = i
  <2> TAKE i \in D
  <2>1. g[i] \in D /\ g[f[g[i]]] = g[i] /\ f[g[i]] \in D
    BY <1>5, PlacesFall
  <2>2. f[g[i]] = i
    <3> HIDE DEF f
    <3> QED BY <1>2, <2>1 DEF Injection, IsInjective
  <2> QED BY <2>1, <2>2
<1>7. ASSUME NEW m \in D, NEW n \in D, m < n PROVE Ahead(q, f[m], f[n])
  <2>1. f[m] \in D /\ f[n] \in D /\ PlaceOf(q, f[m]) = m /\ PlaceOf(q, f[n]) = n
    BY <1>5
  <2> HIDE DEF f
  <2>2. f[m] # f[n]
    BY <2>1, <1>7, <1>1
  <2>3. ~Ahead(q, f[n], f[m])
    <3>1. ASSUME Ahead(q, f[n], f[m]) PROVE FALSE
      <4>1. PlaceOf(q, f[n]) < PlaceOf(q, f[m])
        BY <2>1, <3>1, PlacesFall
      <4> QED BY <1>1, <1>7, <2>1, <4>1
    <3> QED BY <3>1
  <2> QED BY <2>1, <2>2, <2>3, AheadOrder
<1>8. \A n \in D : Sorted(q)[n] = q[f[n]]
  BY DEF Sorted
<1>9. Sorted(q) \in [1 .. Len(q) -> GameEvents]
  <2>1. Sorted(q) = [n \in D |-> q[f[n]]]
    BY DEF Sorted
  <2>2. \A n \in D : q[f[n]] \in GameEvents
    BY <1>5
  <2> HIDE DEF f
  <2> QED BY <1>1, <2>1, <2>2
<1>10. Reorders(q, Sorted(q), f)
  <2>1. f \in [D -> D]
    BY <1>5
  <2> HIDE DEF f
  <2> QED BY <1>6, <1>7, <1>8, <2>1 DEF Reorders
<1>11. Sorted(q) \in Seq(GameEvents) /\ DOMAIN Sorted(q) = DOMAIN q
  <2> HIDE DEF f, g
  <2> QED BY <1>1, <1>9
<1> QED BY <1>10, <1>11
-----------------------------------------------------------------------------
(* What the steps of the program do to the queue.                          *)
LEMMA TailConcat ==
  ASSUME NEW S, NEW s \in Seq(S), NEW t \in Seq(S), s # <<>>
  PROVE  /\ s \o t \in Seq(S) /\ s \o t # <<>> /\ (s \o t)[1] = s[1]
         /\ Tail(s \o t) = Tail(s) \o t
<1>1. /\ Len(s) \in Nat /\ Len(s) # 0 /\ Len(t) \in Nat
      /\ s \o t \in Seq(S) /\ Len(s \o t) = Len(s) + Len(t)
      /\ \A i \in 1 .. Len(s) + Len(t) :
           (s \o t)[i] = IF i <= Len(s) THEN s[i] ELSE t[i - Len(s)]
  <2>1. Len(s) \in Nat /\ Len(t) \in Nat /\ Len(s) # 0
    OBVIOUS
  <2> QED BY <2>1, ConcatProperties
<1> DEFINE u == s \o t
<1> HIDE DEF u
<1>2. /\ u \in Seq(S) /\ Len(u) = Len(s) + Len(t)
      /\ \A i \in 1 .. Len(s) + Len(t) : u[i] = IF i <= Len(s) THEN s[i] ELSE t[i - Len(s)]
  BY <1>1 DEF u
<1>3. u # <<>> /\ u[1] = s[1]
  BY <1>1, <1>2
<1>4. /\ Tail(u) \in Seq(S) /\ Len(Tail(u)) = Len(s) + Len(t) - 1
      /\ \A i \in 1 .. Len(Tail(u)) : Tail(u)[i] = u[i + 1]
  <2>1. /\ Tail(u) \in Seq(S) /\ Len(Tail(u)) = Len(u) - 1
        /\ \A i \in 1 .. Len(Tail(u)) : Tail(u)[i] = u[i + 1]
    BY <1>2, <1>3, HeadTailProperties
  <2> QED BY <1>2, <2>1
<1>5. /\ Tail(s) \in Seq(S) /\ Len(Tail(s)) = Len(s) - 1
      /\ \A i \in 1 .. Len(Tail(s)) : Tail(s)[i] = s[i + 1]
  BY HeadTailProperties
<1> DEFINE v == Tail(s) w == v \o t z == Tail(u)
<1> HIDE DEF v, w, z
<1>6. /\ w \in Seq(S) /\ Len(w) = Len(s) - 1 + Len(t)
      /\ \A i \in 1 .. Len(s) - 1 + Len(t) :
           w[i] = IF i <= Len(s) - 1 THEN v[i] ELSE t[i - (Len(s) - 1)]
  <2>1. v \in Seq(S) /\ Len(v) = Len(s) - 1
    BY <1>5 DEF v
  <2>2. /\ v \o t \in Seq(S) /\ Len(v \o t) = Len(v) + Len(t)
        /\ \A i \in 1 .. Len(v) + Len(t) :
             (v \o t)[i] = IF i <= Len(v) THEN v[i] ELSE t[i - Len(v)]
    BY <2>1, ConcatProperties
  <2> QED BY <2>1, <2>2 DEF w
<1>7. /\ z \in Seq(S) /\ Len(z) = Len(w)
      /\ \A i \in 1 .. Len(z) : z[i] = u[i + 1]
      /\ \A i \in 1 .. Len(s) - 1 : v[i] = s[i + 1]
  BY <1>1, <1>4, <1>5, <1>6 DEF z, v
<1>8. \A i \in 1 .. Len(z) : z[i] = w[i]
  <2> TAKE i \in 1 .. Len(z)
  <2>1. i \in Nat /\ 1 <= i /\ i <= Len(s) - 1 + Len(t) /\ Len(z) = Len(s) - 1 + Len(t)
    BY <1>1, <1>6, <1>7
  <2>2. i \in 1 .. Len(s) - 1 + Len(t) /\ i + 1 \in 1 .. Len(s) + Len(t)
    BY <1>1, <2>1
  <2>3. z[i] = u[i + 1] /\ u[i + 1] = IF i + 1 <= Len(s) THEN s[i + 1] ELSE t[i + 1 - Len(s)]
    BY <1>2, <1>7, <2>2
  <2>4. w[i] = IF i <= Len(s) - 1 THEN v[i] ELSE t[i - (Len(s) - 1)]
    BY <1>6, <2>2
  <2>5. CASE i <= Len(s) - 1
    <3>1. i + 1 <= Len(s) /\ i \in 1 .. Len(s) - 1
      BY <1>1, <2>1, <2>5
    <3> QED BY <1>7, <2>3, <2>4, <3>1
  <2>6. CASE ~(i <= Len(s) - 1)
    <3>1. ~(i + 1 <= Len(s)) /\ i + 1 - Len(s) = i - (Len(s) - 1)
      BY <1>1, <2>1, <2>6
    <3> QED BY <2>3, <2>4, <2>6, <3>1
  <2> QED BY <2>5, <2>6
<1>9. z = w
  BY <1>6, <1>7, <1>8, SeqEqual
<1> QED BY <1>1, <1>3, <1>9 DEF u, v, w, z

LEMMA TailSubSeq ==
  ASSUME NEW S, NEW s \in Seq(S), NEW m \in 1 .. Len(s)
  PROVE  /\ SubSeq(s, m, Len(s)) \in Seq(S) /\ SubSeq(s, m, Len(s)) # <<>>
         /\ SubSeq(s, m, Len(s))[1] = s[m]
         /\ Tail(SubSeq(s, m, Len(s))) = SubSeq(s, m + 1, Len(s))
<1>0. Len(s) \in Nat /\ \A i \in 1 .. Len(s) : s[i] \in S
  OBVIOUS
<1>1. \A k \in m .. m + 1 :
        /\ SubSeq(s, k, Len(s)) \in Seq(S) /\ Len(SubSeq(s, k, Len(s))) = Len(s) - k + 1
        /\ \A i \in 1 .. Len(s) - k + 1 : SubSeq(s, k, Len(s))[i] = s[k + i - 1]
  <2> TAKE k \in m .. m + 1
  <2>1. k \in Int /\ Len(s) \in Int /\ \A i \in k .. Len(s) : s[i] \in S
    BY <1>0
  <2>2. /\ SubSeq(s, k, Len(s)) \in Seq(S)
        /\ Len(SubSeq(s, k, Len(s))) = IF k <= Len(s) THEN Len(s) - k + 1 ELSE 0
        /\ \A i \in 1 .. Len(s) - k + 1 : SubSeq(s, k, Len(s))[i] = s[k + i - 1]
    BY <2>1, SubSeqProperties
  <2> QED BY <1>0, <2>2
<1> DEFINE u == SubSeq(s, m, Len(s)) v == SubSeq(s, m + 1, Len(s))
<1> HIDE DEF u, v
<1>2. /\ u \in Seq(S) /\ Len(u) = Len(s) - m + 1
      /\ \A i \in 1 .. Len(s) - m + 1 : u[i] = s[m + i - 1]
      /\ v \in Seq(S) /\ Len(v) = Len(s) - m
      /\ \A i \in 1 .. Len(s) - m : v[i] = s[m + i]
  BY <1>0, <1>1 DEF u, v
<1>3. u # <<>> /\ u[1] = s[m]
  BY <1>0, <1>2
<1>4. /\ Tail(u) \in Seq(S) /\ Len(Tail(u)) = Len(u) - 1
      /\ \A i \in 1 .. Len(Tail(u)) : Tail(u)[i] = u[i + 1]
  BY <1>2, <1>3, HeadTailProperties
<1> DEFINE w == Tail(u)
<1> HIDE DEF w
<1>5. /\ w \in Seq(S) /\ Len(w) = Len(v) /\ \A i \in 1 .. Len(w) : w[i] = v[i]
  <2>1. m \in Int /\ Len(w) = Len(s) - m /\ Len(v) = Len(s) - m
    BY <1>0, <1>2, <1>4 DEF w
  <2>2. ASSUME NEW i \in 1 .. Len(w) PROVE w[i] = v[i]
    <3>1. i \in 1 .. Len(s) - m /\ i + 1 \in 1 .. Len(s) - m + 1 /\ m + (i + 1) - 1 = m + i
      BY <1>0, <2>1, <2>2
    <3>2. w[i] = u[i + 1]
      BY <1>4, <2>2 DEF w
    <3>3. u[i + 1] = s[m + (i + 1) - 1]
      BY <1>2, <3>1
    <3>4. v[i] = s[m + i]
      BY <1>2, <3>1
    <3> QED BY <3>1, <3>2, <3>3, <3>4
  <2>3. w \in Seq(S)
    BY <1>4 DEF w
  <2> QED BY <2>1, <2>2, <2>3
<1>6. w = v
  BY <1>2, <1>5, SeqEqual
<1> QED BY <1>2, <1>3, <1>6 DEF u, v, w

LEMMA QueueIs ==
  ASSUME RaceTypes
  PROVE  /\ Queue \in Seq(GameEvents) /\ batch \o wire \in Seq(GameEvents)
         /\ batch # <<>> => Queue # <<>> /\ Queue[1] = batch[turn]
<1>0. batch \in Seq(GameEvents) /\ wire \in Seq(GameEvents)
  BY DEF RaceTypes
<1>1. CASE batch = <<>>
  BY <1>0, <1>1, ConcatProperties DEF Queue
<1>2. CASE batch # <<>>
  <2>1. turn \in 1 .. Len(batch)
    BY <1>2 DEF RaceTypes
  <2> DEFINE rest == SubSeq(batch, turn, Len(batch))
  <2>2. rest \in Seq(GameEvents) /\ rest # <<>> /\ rest[1] = batch[turn]
    BY <1>0, <2>1, TailSubSeq
  <2>3. Queue = rest \o wire
    BY <1>2 DEF Queue
  <2> HIDE DEF rest
  <2>4. rest \o wire \in Seq(GameEvents) /\ rest \o wire # <<>> /\ (rest \o wire)[1] = rest[1]
    BY <1>0, <2>2, TailConcat
  <2> QED BY <1>0, <2>2, <2>3, <2>4, ConcatProperties
<1> QED BY <1>1, <1>2

LEMMA QueueAppend ==
  ASSUME RaceTypes, NEW e \in GameEvents, wire' = Append(wire, e), UNCHANGED <<batch, turn>>
  PROVE  Queue' = Append(Queue, e) /\ (batch \o wire)' = Append(batch \o wire, e)
<1>1. (batch \o wire)' = Append(batch \o wire, e)
  BY DEF RaceTypes
<1>2. CASE batch = <<>>
  BY <1>2 DEF RaceTypes, Queue
<1>3. CASE batch # <<>>
  <2>1. turn \in 1 .. Len(batch) /\ Len(batch) \in Nat
    BY <1>3 DEF RaceTypes
  <2>2. SubSeq(batch, turn, Len(batch)) \in Seq(GameEvents)
    BY <2>1 DEF RaceTypes
  <2> DEFINE rest == SubSeq(batch, turn, Len(batch))
  <2>3. rest \in Seq(GameEvents) /\ wire \in Seq(GameEvents)
    BY <2>2 DEF RaceTypes
  <2>4. Queue = rest \o wire /\ Queue' = rest \o Append(wire, e)
    BY <1>3 DEF Queue
  <2> HIDE DEF rest
  <2>5. rest \o Append(wire, e) = Append(rest \o wire, e)
    BY <2>3
  <2> QED BY <1>1, <2>4, <2>5
<1> QED BY <1>1, <1>2, <1>3

LEMMA QueueNext ==
  ASSUME RaceTypes, batch # <<>>, NextEvent, UNCHANGED wire
  PROVE  Queue' = Tail(Queue) /\ (batch' # <<>> => batch' = batch)
<1>1. turn \in 1 .. Len(batch) /\ Len(batch) \in Nat
  BY DEF RaceTypes
<1>2. batch \in Seq(GameEvents) /\ wire \in Seq(GameEvents)
  BY DEF RaceTypes
<1> DEFINE rest == SubSeq(batch, turn, Len(batch))
<1>3. Queue = rest \o wire
  BY DEF Queue
<1>4. /\ rest \in Seq(GameEvents) /\ rest # <<>>
      /\ Tail(rest) = SubSeq(batch, turn + 1, Len(batch))
  BY <1>1, <1>2, TailSubSeq
<1> HIDE DEF rest
<1>5. Tail(Queue) = SubSeq(batch, turn + 1, Len(batch)) \o wire
  <2>1. Tail(rest \o wire) = Tail(rest) \o wire
    BY <1>2, <1>4, TailConcat
  <2> QED BY <1>3, <1>4, <2>1
<1>6. CASE turn = Len(batch)
  <2>1. batch' = <<>> /\ Queue' = wire
    BY <1>6 DEF NextEvent, Queue
  <2>2. SubSeq(batch, turn + 1, Len(batch)) = <<>>
    BY <1>1, <1>6, SubSeqEmpty
  <2> QED BY <1>2, <1>5, <2>1, <2>2, ConcatEmptySeq
<1>7. CASE turn # Len(batch)
  BY <1>5, <1>7 DEF NextEvent, Queue
<1> QED BY <1>6, <1>7

LEMMA QueueFetch ==
  ASSUME RaceTypes, FetchBatch
  PROVE  /\ Queue = wire /\ batch \o wire = wire
         /\ Queue' = Sorted(wire) /\ (batch \o wire)' = Sorted(wire)
<1>1. wire \in Seq(GameEvents) /\ wire # <<>> /\ batch = <<>>
  BY DEF RaceTypes, FetchBatch
<1>2. Sorted(wire) \in Seq(GameEvents) /\ DOMAIN Sorted(wire) = DOMAIN wire
  BY <1>1, SortedIs
<1>3. Sorted(wire) # <<>>
  <2>1. 1 \in DOMAIN wire
    BY <1>1
  <2> QED BY <1>2, <2>1
<1>4. batch' = Sorted(wire) /\ turn' = 1 /\ wire' = <<>>
  BY DEF FetchBatch
<1>5. SubSeq(Sorted(wire), 1, Len(Sorted(wire))) = Sorted(wire)
  BY <1>2
<1>6. Sorted(wire) \o <<>> = Sorted(wire) /\ <<>> \o wire = wire
  BY <1>1, <1>2
<1> QED BY <1>1, <1>3, <1>4, <1>5, <1>6 DEF Queue

LEMMA QueueDies ==
  ASSUME RaceTypes, BatchDies
  PROVE  /\ Queue' = wire' /\ (batch \o wire)' = wire'
         /\ wire' = batch \o wire \/ wire' = wire
<1>1. batch' = <<>> /\ (wire' = batch \o wire \/ wire' = wire)
  BY DEF BatchDies
<1>2. wire' \in Seq(GameEvents)
  BY <1>1, QueueIs DEF RaceTypes
<1> QED BY <1>1, <1>2 DEF Queue

-----------------------------------------------------------------------------
(* What these do to the ends of races in a queue.                          *)
LEMMA EndsAppend ==
  ASSUME NEW q \in Seq(GameEvents), NEW e \in GameEvents
  PROVE  /\ EndsOf(Append(q, e)) = EndsOf(q) \cup (IF IsEnd(e) THEN {e.race} ELSE {})
         /\ EndsOnce(q) /\ (IsEnd(e) => e.race \notin EndsOf(q)) => EndsOnce(Append(q, e))
<1> DEFINE p == Append(q, e)
<1>1. /\ DOMAIN p = DOMAIN q \cup {Len(q) + 1} /\ Len(q) + 1 \notin DOMAIN q
      /\ p[Len(q) + 1] = e /\ \A i \in DOMAIN q : p[i] = q[i]
  OBVIOUS
<1> HIDE DEF p
<1>2. EndsOf(p) = EndsOf(q) \cup (IF IsEnd(e) THEN {e.race} ELSE {})
  <2>1. ASSUME NEW x \in EndsOf(p) PROVE x \in EndsOf(q) \/ (IsEnd(e) /\ x = e.race)
    <3>1. PICK i \in DOMAIN p : IsEnd(p[i]) /\ x = p[i].race
      BY <2>1 DEF EndsOf
    <3> QED BY <1>1, <3>1 DEF EndsOf
  <2>2. ASSUME NEW x \in EndsOf(q) PROVE x \in EndsOf(p)
    <3>1. PICK i \in DOMAIN q : IsEnd(q[i]) /\ x = q[i].race
      BY <2>2 DEF EndsOf
    <3> QED BY <1>1, <3>1 DEF EndsOf
  <2>3. IsEnd(e) => e.race \in EndsOf(p)
    BY <1>1 DEF EndsOf
  <2> QED BY <2>1, <2>2, <2>3
<1>3. ASSUME EndsOnce(q), IsEnd(e) => e.race \notin EndsOf(q)
      PROVE  EndsOnce(p)
  <2>1. \A i \in DOMAIN q : IsEnd(q[i]) => q[i].race \in EndsOf(q)
    BY DEF EndsOf
  <2> QED BY <1>1, <1>3, <2>1 DEF EndsOnce
<1> QED BY <1>2, <1>3 DEF p

LEMMA EndsTail ==
  ASSUME NEW q \in Seq(GameEvents), q # <<>>, EndsOnce(q)
  PROVE  /\ EndsOf(Tail(q)) = EndsOf(q) \ (IF IsEnd(q[1]) THEN {q[1].race} ELSE {})
         /\ IsEnd(q[1]) => q[1].race \in EndsOf(q)
         /\ EndsOnce(Tail(q))
<1> DEFINE p == Tail(q)
<1>1. /\ \A i \in DOMAIN p : i + 1 \in DOMAIN q /\ p[i] = q[i + 1] /\ i \in Nat /\ i + 1 # 1
      /\ \A i \in DOMAIN q : i # 1 => i - 1 \in DOMAIN p /\ p[i - 1] = q[i]
      /\ 1 \in DOMAIN q
  OBVIOUS
<1> HIDE DEF p
<1>2. EndsOnce(p)
  <2>1. ASSUME NEW i \in DOMAIN p, NEW j \in DOMAIN p, IsEnd(p[i]), IsEnd(p[j]),
               p[i].race = p[j].race
        PROVE  i = j
    <3>1. i + 1 = j + 1
      BY <1>1, <2>1 DEF EndsOnce
    <3> QED BY <1>1, <3>1
  <2> QED BY <2>1 DEF EndsOnce
<1>3. ASSUME NEW x \in EndsOf(p)
      PROVE  x \in EndsOf(q) \ (IF IsEnd(q[1]) THEN {q[1].race} ELSE {})
  <2>1. PICK i \in DOMAIN p : IsEnd(p[i]) /\ x = p[i].race
    BY <1>3 DEF EndsOf
  <2>2. i + 1 \in DOMAIN q /\ IsEnd(q[i + 1]) /\ x = q[i + 1].race /\ i + 1 # 1
    BY <1>1, <2>1
  <2> QED BY <1>1, <2>2 DEF EndsOf, EndsOnce
<1>4. ASSUME NEW x \in EndsOf(q), ~(IsEnd(q[1]) /\ x = q[1].race)
      PROVE  x \in EndsOf(p)
  <2>1. PICK i \in DOMAIN q : IsEnd(q[i]) /\ x = q[i].race
    BY <1>4 DEF EndsOf
  <2>2. i # 1
    BY <1>4, <2>1
  <2> QED BY <1>1, <2>1, <2>2 DEF EndsOf
<1>5. IsEnd(q[1]) => q[1].race \in EndsOf(q)
  BY <1>1 DEF EndsOf
<1>6. EndsOf(p) = EndsOf(q) \ (IF IsEnd(q[1]) THEN {q[1].race} ELSE {})
  BY <1>3, <1>4
<1> QED BY <1>2, <1>5, <1>6 DEF p

LEMMA EndsSorted ==
  ASSUME NEW q \in Seq(GameEvents)
  PROVE  /\ EndsOf(Sorted(q)) = EndsOf(q)
         /\ EndsOnce(q) => EndsOnce(Sorted(q))
<1>1. PICK f : Reorders(q, Sorted(q), f)
  BY SortedIs
<1>2. DOMAIN Sorted(q) = DOMAIN q
  BY SortedIs
<1> DEFINE s == Sorted(q)
<1> HIDE DEF s
<1>3. Reorders(q, s, f) /\ DOMAIN s = DOMAIN q
  BY <1>1, <1>2 DEF s
<1>4. EndsOf(s) \subseteq EndsOf(q)
  <2> SUFFICES ASSUME NEW x \in EndsOf(s) PROVE x \in EndsOf(q)
    OBVIOUS
  <2>1. PICK i \in DOMAIN s : IsEnd(s[i]) /\ x = s[i].race
    BY DEF EndsOf
  <2>2. f[i] \in DOMAIN q /\ IsEnd(q[f[i]]) /\ x = q[f[i]].race
    BY <1>3, <2>1 DEF Reorders
  <2> QED BY <2>2 DEF EndsOf
<1>5. EndsOf(q) \subseteq EndsOf(s)
  <2> SUFFICES ASSUME NEW x \in EndsOf(q) PROVE x \in EndsOf(s)
    OBVIOUS
  <2>1. PICK i \in DOMAIN q : IsEnd(q[i]) /\ x = q[i].race
    BY DEF EndsOf
  <2>2. PICK n \in DOMAIN q : f[n] = i
    BY <1>3 DEF Reorders
  <2>3. n \in DOMAIN s /\ IsEnd(s[n]) /\ x = s[n].race
    BY <1>3, <2>1, <2>2 DEF Reorders
  <2> QED BY <2>3 DEF EndsOf
<1>6. ASSUME EndsOnce(q) PROVE EndsOnce(s)
  <2> SUFFICES ASSUME NEW i \in DOMAIN s, NEW j \in DOMAIN s, IsEnd(s[i]), IsEnd(s[j]),
                      s[i].race = s[j].race
               PROVE  i = j
    BY DEF EndsOnce
  <2>1. /\ f[i] \in DOMAIN q /\ f[j] \in DOMAIN q /\ s[i] = q[f[i]] /\ s[j] = q[f[j]]
        /\ i \in DOMAIN q /\ j \in DOMAIN q
    <3>1. i \in DOMAIN q /\ j \in DOMAIN q
      BY <1>3
    <3> QED BY <1>3, <3>1 DEF Reorders
  <2>0. i \in Nat /\ j \in Nat
    BY <2>1, DOMAIN q = 1 .. Len(q)
  <2>2. f[i] = f[j]
    BY <1>6, <2>1 DEF EndsOnce
  <2>3. ~(i < j) /\ ~(j < i)
    BY <1>3, <2>1, <2>2, AheadOrder DEF Reorders
  <2> QED BY <2>0, <2>3
<1> QED BY <1>4, <1>5, <1>6 DEF s
-----------------------------------------------------------------------------
(* What these do to the order of the events, and to what was passed last.  *)
LEMMA AppendIs ==
  ASSUME NEW S, NEW q \in Seq(S), NEW e \in S
  PROVE  /\ DOMAIN Append(q, e) = DOMAIN q \cup {Len(q) + 1} /\ Len(q) + 1 \notin DOMAIN q
         /\ Append(q, e)[Len(q) + 1] = e
         /\ \A i \in DOMAIN q : Append(q, e)[i] = q[i] /\ i \in Nat /\ i < Len(q) + 1
         /\ Len(q) \in Nat
  OBVIOUS

LEMMA TailIs ==
  ASSUME NEW S, NEW q \in Seq(S), q # <<>>
  PROVE  /\ Tail(q) \in Seq(S)
         /\ \A i \in DOMAIN Tail(q) : /\ i + 1 \in DOMAIN q /\ Tail(q)[i] = q[i + 1]
                                      /\ i \in Nat /\ i + 1 # 1
         /\ \A i \in DOMAIN q : /\ i \in Nat /\ 1 <= i
                                /\ i # 1 => i - 1 \in DOMAIN Tail(q) /\ Tail(q)[i - 1] = q[i]
         /\ 1 \in DOMAIN q
  OBVIOUS

LEMMA BoardIs ==
  ASSUME NEW e \in GameEvents
  PROVE  /\ IsBoard(e) => /\ e \in BoardEvent /\ e.who = Owner /\ e.hook \in {"add", "change"}
                          /\ NthOf(e) \in Int
         /\ ~IsBoard(e) => e \in PassEvent /\ e.hook = "pass"
         /\ IsEnd(e) => IsBoard(e)
<1>1. e \in BoardEvent => IsBoard(e) /\ e.who = Owner /\ e.hook \in {"add", "change"} /\ NthOf(e) \in Int
  BY DEF BoardEvent, IsBoard, NthOf, Nth
<1>2. e \in PassEvent => ~IsBoard(e) /\ e.hook = "pass" /\ ~IsEnd(e)
  BY DEF PassEvent, IsBoard, IsEnd
<1> QED BY <1>1, <1>2 DEF GameEvents

LEMMA TurnsAppend ==
  ASSUME NEW q \in Seq(GameEvents), NEW e \in GameEvents, InTurn(q),
         IsBoard(e) => \A n \in TurnsOf(q) : n < NthOf(e)
  PROVE  /\ TurnsOf(Append(q, e)) = TurnsOf(q) \cup (IF IsBoard(e) THEN {NthOf(e)} ELSE {})
         /\ InTurn(Append(q, e))
<1> DEFINE p == Append(q, e)
<1>1. /\ DOMAIN p = DOMAIN q \cup {Len(q) + 1} /\ Len(q) + 1 \notin DOMAIN q
      /\ p[Len(q) + 1] = e /\ \A i \in DOMAIN q : p[i] = q[i] /\ i \in Nat /\ i < Len(q) + 1
      /\ Len(q) \in Nat
  BY AppendIs
<1> HIDE DEF p
<1>2. TurnsOf(p) = TurnsOf(q) \cup (IF IsBoard(e) THEN {NthOf(e)} ELSE {})
  <2>1. ASSUME NEW x \in TurnsOf(p) PROVE x \in TurnsOf(q) \/ (IsBoard(e) /\ x = NthOf(e))
    <3>1. PICK i \in DOMAIN p : IsBoard(p[i]) /\ x = NthOf(p[i])
      BY <2>1 DEF TurnsOf
    <3> QED BY <1>1, <3>1 DEF TurnsOf
  <2>2. ASSUME NEW x \in TurnsOf(q) PROVE x \in TurnsOf(p)
    <3>1. PICK i \in DOMAIN q : IsBoard(q[i]) /\ x = NthOf(q[i])
      BY <2>2 DEF TurnsOf
    <3> QED BY <1>1, <3>1 DEF TurnsOf
  <2>3. IsBoard(e) => NthOf(e) \in TurnsOf(p)
    BY <1>1 DEF TurnsOf
  <2> QED BY <2>1, <2>2, <2>3
<1>3. InTurn(p)
  <2> SUFFICES ASSUME NEW i \in DOMAIN p, NEW j \in DOMAIN p, i < j, IsBoard(p[i]), IsBoard(p[j])
               PROVE  NthOf(p[i]) < NthOf(p[j])
    BY DEF InTurn
  <2>1. i \in DOMAIN q
    BY <1>1
  <2>2. CASE j \in DOMAIN q
    BY <1>1, <2>1, <2>2 DEF InTurn
  <2>3. CASE j = Len(q) + 1
    <3>1. NthOf(q[i]) \in TurnsOf(q)
      BY <1>1, <2>1 DEF TurnsOf
    <3> QED BY <1>1, <2>1, <2>3, <3>1
  <2> QED BY <1>1, <2>2, <2>3
<1> QED BY <1>2, <1>3 DEF p

LEMMA TurnsTail ==
  ASSUME NEW q \in Seq(GameEvents), q # <<>>, InTurn(q)
  PROVE  /\ InTurn(Tail(q))
         /\ TurnsOf(Tail(q)) = TurnsOf(q) \ (IF IsBoard(q[1]) THEN {NthOf(q[1])} ELSE {})
         /\ IsBoard(q[1]) => /\ NthOf(q[1]) \in TurnsOf(q)
                             /\ \A n \in TurnsOf(q) : NthOf(q[1]) <= n
<1> DEFINE p == Tail(q)
<1>1. /\ \A i \in DOMAIN p : i + 1 \in DOMAIN q /\ p[i] = q[i + 1] /\ i \in Nat /\ i + 1 # 1
      /\ \A i \in DOMAIN q : /\ i \in Nat /\ 1 <= i
                             /\ i # 1 => i - 1 \in DOMAIN p /\ p[i - 1] = q[i]
      /\ 1 \in DOMAIN q
  BY TailIs
<1> HIDE DEF p
<1>2. \A i \in DOMAIN q : IsBoard(q[i]) => NthOf(q[i]) \in Int
  BY BoardIs
<1>3. InTurn(p)
  <2> SUFFICES ASSUME NEW i \in DOMAIN p, NEW j \in DOMAIN p, i < j, IsBoard(p[i]), IsBoard(p[j])
               PROVE  NthOf(p[i]) < NthOf(p[j])
    BY DEF InTurn
  <2>1. i + 1 \in DOMAIN q /\ j + 1 \in DOMAIN q /\ i + 1 < j + 1
    BY <1>1
  <2> QED BY <1>1, <2>1 DEF InTurn
<1>4. ASSUME IsBoard(q[1]), NEW n \in TurnsOf(q) PROVE NthOf(q[1]) <= n
  <2>1. PICK i \in DOMAIN q : IsBoard(q[i]) /\ n = NthOf(q[i])
    BY <1>4 DEF TurnsOf
  <2>2. i = 1 \/ 1 < i
    BY <1>1
  <2>3. NthOf(q[1]) \in Int /\ NthOf(q[i]) \in Int
    BY <1>1, <1>2, <1>4, <2>1
  <2> QED BY <1>1, <1>4, <2>1, <2>2, <2>3 DEF InTurn
<1>5. IsBoard(q[1]) => NthOf(q[1]) \in TurnsOf(q)
  BY <1>1 DEF TurnsOf
<1>6. ASSUME NEW x \in TurnsOf(p)
      PROVE  x \in TurnsOf(q) /\ ~(IsBoard(q[1]) /\ x = NthOf(q[1]))
  <2>1. PICK i \in DOMAIN p : IsBoard(p[i]) /\ x = NthOf(p[i])
    BY <1>6 DEF TurnsOf
  <2>2. i + 1 \in DOMAIN q /\ IsBoard(q[i + 1]) /\ x = NthOf(q[i + 1]) /\ 1 < i + 1
    BY <1>1, <2>1
  <2>3. IsBoard(q[1]) => NthOf(q[1]) < x
    BY <1>1, <2>2 DEF InTurn
  <2>4. x \in Int /\ (IsBoard(q[1]) => NthOf(q[1]) \in Int)
    BY <1>1, <1>2, <2>2
  <2>5. x \in TurnsOf(q)
    BY <2>2 DEF TurnsOf
  <2> QED BY <2>3, <2>4, <2>5
<1>7. ASSUME NEW x \in TurnsOf(q), ~(IsBoard(q[1]) /\ x = NthOf(q[1]))
      PROVE  x \in TurnsOf(p)
  <2>1. PICK i \in DOMAIN q : IsBoard(q[i]) /\ x = NthOf(q[i])
    BY <1>7 DEF TurnsOf
  <2>2. i # 1
    BY <1>7, <2>1
  <2> QED BY <1>1, <2>1, <2>2 DEF TurnsOf
<1>8. TurnsOf(p) = TurnsOf(q) \ (IF IsBoard(q[1]) THEN {NthOf(q[1])} ELSE {})
  BY <1>6, <1>7
<1> QED BY <1>3, <1>4, <1>5, <1>8 DEF p

LEMMA TurnsSorted ==
  ASSUME NEW q \in Seq(GameEvents), InTurn(q), \A i \in DOMAIN q : Truthful(q[i])
  PROVE  InTurn(Sorted(q)) /\ TurnsOf(Sorted(q)) = TurnsOf(q)
<1> DEFINE s == Sorted(q)
<1>1. PICK f : Reorders(q, s, f)
  BY SortedIs
<1>2. DOMAIN s = DOMAIN q
  BY SortedIs
<1> HIDE DEF s
<1>3. TurnsOf(s) \subseteq TurnsOf(q)
  <2> SUFFICES ASSUME NEW x \in TurnsOf(s) PROVE x \in TurnsOf(q)
    OBVIOUS
  <2>1. PICK i \in DOMAIN s : IsBoard(s[i]) /\ x = NthOf(s[i])
    BY DEF TurnsOf
  <2>2. f[i] \in DOMAIN q /\ IsBoard(q[f[i]]) /\ x = NthOf(q[f[i]])
    BY <1>1, <1>2, <2>1 DEF Reorders
  <2> QED BY <2>2 DEF TurnsOf
<1>4. TurnsOf(q) \subseteq TurnsOf(s)
  <2> SUFFICES ASSUME NEW x \in TurnsOf(q) PROVE x \in TurnsOf(s)
    OBVIOUS
  <2>1. PICK i \in DOMAIN q : IsBoard(q[i]) /\ x = NthOf(q[i])
    BY DEF TurnsOf
  <2>2. PICK n \in DOMAIN q : f[n] = i
    BY <1>1 DEF Reorders
  <2>3. n \in DOMAIN s /\ IsBoard(s[n]) /\ x = NthOf(s[n])
    BY <1>1, <1>2, <2>1, <2>2 DEF Reorders
  <2> QED BY <2>3 DEF TurnsOf
<1>5. InTurn(s)
  <2> SUFFICES ASSUME NEW m \in DOMAIN s, NEW n \in DOMAIN s, m < n, IsBoard(s[m]), IsBoard(s[n])
               PROVE  NthOf(s[m]) < NthOf(s[n])
    BY DEF InTurn
  <2> DEFINE i == f[m] j == f[n]
  <2>1. /\ i \in DOMAIN q /\ j \in DOMAIN q /\ s[m] = q[i] /\ s[n] = q[j] /\ Ahead(q, i, j)
    BY <1>1, <1>2 DEF Reorders
  <2> HIDE DEF i, j
  <2>2. q[i] \in GameEvents /\ q[j] \in GameEvents /\ Truthful(q[i]) /\ Truthful(q[j])
    BY <2>1
  <2>3. CASE i < j
    BY <2>1, <2>3 DEF InTurn
  <2>4. CASE Key(q[i]) < Key(q[j])
    <3>1. IsBoard(q[i]) /\ IsBoard(q[j])
      BY <2>1
    <3>2. q[i].who = Owner /\ q[j].who = Owner /\ q[i].hook # "pass" /\ q[j].hook # "pass"
      BY <2>2, <3>1, BoardIs DEF IsBoard
    <3>3. q[i].hook \in {"add", "change"} /\ q[j].hook \in {"add", "change"}
      BY <2>2, <3>1, BoardIs
    <3>4. Owner \in Nat
      BY RaceAssumption
    <3>5. Key(q[i]) = (IF q[i].hook = "add" THEN 3 * Owner ELSE 3 * Owner + 1)
      BY <2>2, <3>2, <3>3, KeyIs
    <3>6. Key(q[j]) = (IF q[j].hook = "add" THEN 3 * Owner ELSE 3 * Owner + 1)
      BY <2>2, <3>2, <3>3, KeyIs
    <3>7. q[i].hook = "add" /\ q[j].hook = "change"
      BY <2>4, <3>3, <3>4, <3>5, <3>6
    <3>8. NthOf(q[i]) = 1 /\ NthOf(q[j]) # 1
      BY <2>2, <3>1, <3>7 DEF Truthful
    <3>9. q[j] \in BoardEvent /\ q[j].race \in 1 .. race.number
      BY <2>2, <3>1, BoardIs DEF Truthful
    <3>10. q[j].race \in Nat /\ q[j].race # 0 /\ q[j].state \in 1 .. 3
      BY <3>9 DEF BoardEvent
    <3>11. NthOf(q[j]) \in Nat /\ NthOf(q[j]) >= 1
      <4> DEFINE k == q[j].race t == q[j].state
      <4>1. NthOf(q[j]) = 3 * (k - 1) + t /\ k \in Nat /\ k # 0 /\ t \in 1 .. 3
        BY <3>10 DEF NthOf, Nth
      <4> HIDE DEF k, t
      <4> QED BY <4>1
    <3> QED BY <2>1, <3>8, <3>11
  <2> QED BY <2>1, <2>3, <2>4 DEF Ahead
<1> QED BY <1>3, <1>4, <1>5 DEF s

LEMMA LastTail ==
  ASSUME NEW q \in Seq(GameEvents), q # <<>>, NEW at, LastComes(q, at)
  PROVE  /\ LastComes(Tail(q), at)
         /\ \A r \in Racer : IsPassOf(q[1], r) =>
              q[1].section = at[r] \/ \E k \in DOMAIN Tail(q) : IsPassOf(Tail(q)[k], r)
<1> DEFINE p == Tail(q)
<1>1. /\ \A i \in DOMAIN p : i + 1 \in DOMAIN q /\ p[i] = q[i + 1] /\ i \in Nat /\ i + 1 # 1
      /\ \A i \in DOMAIN q : /\ i \in Nat /\ 1 <= i
                             /\ i # 1 => i - 1 \in DOMAIN p /\ p[i - 1] = q[i]
      /\ 1 \in DOMAIN q
  BY TailIs
<1> HIDE DEF p
<1>2. LastComes(p, at)
  <2> SUFFICES ASSUME NEW r \in Racer, NEW i \in DOMAIN p, IsPassOf(p[i], r)
               PROVE  \E j \in DOMAIN p : i <= j /\ IsPassOf(p[j], r) /\ p[j].section = at[r]
    BY DEF LastComes
  <2>1. PICK j \in DOMAIN q : i + 1 <= j /\ IsPassOf(q[j], r) /\ q[j].section = at[r]
    BY <1>1 DEF LastComes
  <2>2. j \in Nat /\ i \in Nat /\ j # 1 /\ i <= j - 1
    BY <1>1, <2>1
  <2> QED BY <1>1, <2>1, <2>2
<1>3. ASSUME NEW r \in Racer, IsPassOf(q[1], r)
      PROVE  q[1].section = at[r] \/ \E k \in DOMAIN p : IsPassOf(p[k], r)
  <2>1. PICK j \in DOMAIN q : IsPassOf(q[j], r) /\ q[j].section = at[r]
    BY <1>1, <1>3 DEF LastComes
  <2> QED BY <1>1, <2>1
<1> QED BY <1>2, <1>3 DEF p

LEMMA LastSorted ==
  ASSUME NEW q \in Seq(GameEvents), NEW at, LastComes(q, at)
  PROVE  LastComes(Sorted(q), at)
<1> DEFINE s == Sorted(q)
<1>1. PICK f : Reorders(q, s, f)
  BY SortedIs
<1>2. DOMAIN s = DOMAIN q
  BY SortedIs
<1> HIDE DEF s
<1>3. SUFFICES ASSUME NEW r \in Racer, NEW i \in DOMAIN s, IsPassOf(s[i], r)
               PROVE  \E j \in DOMAIN s : i <= j /\ IsPassOf(s[j], r) /\ s[j].section = at[r]
  BY DEF LastComes, s
<1> DEFINE a == f[i]
<1>4. a \in DOMAIN q /\ s[i] = q[a]
  BY <1>1, <1>2 DEF Reorders
<1> HIDE DEF a
<1>5. PICK b \in DOMAIN q : a <= b /\ IsPassOf(q[b], r) /\ q[b].section = at[r]
  BY <1>3, <1>4 DEF LastComes
<1>6. PICK n \in DOMAIN q : f[n] = b
  BY <1>1 DEF Reorders
<1>7. s[n] = q[b] /\ n \in DOMAIN s
  BY <1>1, <1>2, <1>6 DEF Reorders
<1>8. i \in Nat /\ n \in Nat /\ a \in Nat /\ b \in Nat
  <2>1. DOMAIN q = 1 .. Len(q)
    OBVIOUS
  <2> QED BY <1>2, <1>4, <2>1
<1>9. ~(n < i)
  <2>1. ASSUME n < i PROVE FALSE
    <3>1. Ahead(q, b, a)
      BY <1>1, <1>2, <1>6, <2>1 DEF Reorders, a
    <3>2. q[a].hook = "pass" /\ q[b].hook = "pass" /\ q[a].who = q[b].who
      BY <1>3, <1>4, <1>5 DEF IsPassOf
    <3>3. Key(q[a]) = Key(q[b]) /\ Key(q[a]) \in Nat
      <4>1. q[a] \in GameEvents /\ q[b] \in GameEvents
        BY <1>4
      <4> QED BY <3>2, <4>1, KeyIs
    <3>4. b < a
      BY <3>1, <3>3 DEF Ahead
    <3> QED BY <1>5, <1>8, <3>4
  <2> QED BY <2>1
<1> QED BY <1>5, <1>7, <1>8, <1>9
-----------------------------------------------------------------------------
(* What the variables hold.                                                *)
LEMMA BoardType ==
  ASSUME NEW k \in Nat, NEW p \in [Racer -> 0 .. Goal]
  PROVE  Board(k, p) \in [Racer -> [section : 0 .. Goal, time : Nat \X Nat, finished : BOOLEAN]]
<1>1. Goal \in Nat /\ \A r \in Racer : p[r] \in 0 .. Goal /\ p[r] \in Nat
  BY RaceAssumption
<1>2. \A r \in Racer : Time(k, p[r]) \in Nat \X Nat
  BY <1>1 DEF Time, NoTime
<1> QED BY <1>1, <1>2 DEF Board

LEMMA ShownType ==
  ASSUME NEW hook \in {"add", "change"}, NEW k \in Nat, NEW s \in 1 .. 3,
         NEW p \in [Racer -> 0 .. Goal]
  PROVE  [hook |-> hook, who |-> Owner, race |-> k, state |-> s, board |-> Board(k, p)]
           \in BoardEvent
BY BoardType DEF BoardEvent

LEMMA InitTypes == RaceInit => RaceTypes
<1> SUFFICES ASSUME RaceInit PROVE RaceTypes
  OBVIOUS
<1>1. Goal \in Nat
  BY RaceAssumption
<1>2. race \in [number : Nat, state : 1 .. 3] /\ place \in [Racer -> 0 .. Goal]
  BY <1>1 DEF RaceInit, Finished
<1> QED BY <1>2 DEF RaceInit, RaceTypes

LEMMA GameTypes ==
  ASSUME RaceTypes, SetUp \/ Start \/ EndRace \/ \E r \in Racer : PassSection(r)
  PROVE  RaceTypes'
<1>1. Goal \in Nat /\ Owner \in Racer /\ place \in [Racer -> 0 .. Goal] /\ race.number \in Nat
      /\ race = [number |-> race.number, state |-> race.state] /\ race.state \in 1 .. 3
  BY RaceAssumption DEF RaceTypes, Racer
<1>2. UNCHANGED backend
  BY DEF SetUp, Start, EndRace, PassSection
<1>3. race' \in [number : Nat, state : 1 .. 3] /\ place' \in [Racer -> 0 .. Goal]
  <2>1. CASE SetUp
    BY <1>1, <2>1 DEF SetUp, Ready
  <2>2. CASE Start
    BY <1>1, <2>2 DEF Start, Running
  <2>3. CASE EndRace
    BY <1>1, <2>3 DEF EndRace, Finished
  <2>4. ASSUME NEW r \in Racer, PassSection(r)
        PROVE  race' \in [number : Nat, state : 1 .. 3] /\ place' \in [Racer -> 0 .. Goal]
    <3>1. place[r] + 1 \in 0 .. Goal
      BY <1>1, <2>4 DEF PassSection
    <3> QED BY <1>1, <2>4, <3>1 DEF PassSection, RaceTypes
  <2> QED BY <2>1, <2>2, <2>3, <2>4
<1>4. \E e \in GameEvents : wire' = Append(wire, e)
  <2>1. ASSUME NEW hook \in {"add", "change"}, Shown(hook)
        PROVE  \E e \in GameEvents : wire' = Append(wire, e)
    <3>1. race'.number \in Nat /\ race'.state \in 1 .. 3
      BY <1>3
    <3>2. [hook |-> hook, who |-> Owner, race |-> race'.number, state |-> race'.state,
           board |-> Board(race'.number, place')] \in BoardEvent
      BY <1>3, <3>1, ShownType
    <3> QED BY <2>1, <3>2 DEF Shown, GameEvents
  <2>2. CASE SetUp
    BY <2>1, <2>2 DEF SetUp
  <2>3. CASE Start \/ EndRace
    BY <2>1, <2>3 DEF Start, EndRace
  <2>4. ASSUME NEW r \in Racer, PassSection(r)
        PROVE  \E e \in GameEvents : wire' = Append(wire, e)
    <3> DEFINE t == Time(race.number, place'[r])
               e == [hook |-> "pass", who |-> r, race |-> race.number,
                     section |-> place'[r], time |-> t]
    <3>1. place'[r] \in 1 .. Goal
      BY <1>1, <2>4 DEF PassSection
    <3>2. t \in Nat \X Nat
      BY <1>1, <3>1 DEF Time, NoTime
    <3>3. e \in PassEvent
      <4> HIDE DEF t
      <4> QED BY <1>1, <3>1, <3>2 DEF PassEvent
    <3> QED BY <2>4, <3>3 DEF PassSection, GameEvents
  <2> QED BY <2>2, <2>3, <2>4
<1>5. wire' \in Seq(GameEvents)
  BY <1>4 DEF RaceTypes
<1>6. standings' \in Seq([Racer -> 0 .. Goal])
  <2>1. standings' = standings \/ standings' = Append(standings, place)
    BY DEF SetUp, Start, EndRace, PassSection
  <2> DEFINE T == [Racer -> 0 .. Goal]
  <2>2. standings \in Seq(T) /\ place \in T
    BY DEF RaceTypes
  <2> HIDE DEF T
  <2>3. Append(standings, place) \in Seq(T)
    BY <2>2, AppendProperties
  <2>4. standings' \in Seq(T)
    BY <2>1, <2>2, <2>3
  <2> QED BY <2>4 DEF T
<1> QED BY <1>2, <1>3, <1>5, <1>6 DEF RaceTypes, backend

LEMMA NextTypes ==
  ASSUME RaceTypes, batch # <<>>, NextEvent
  PROVE  /\ batch' \in Seq(GameEvents) /\ turn' \in Nat /\ (batch' # <<>> => turn' \in DOMAIN batch')
         /\ row' = 0
<1>1. turn \in 1 .. Len(batch) /\ Len(batch) \in Nat /\ batch \in Seq(GameEvents)
  BY DEF RaceTypes
<1>2. CASE turn = Len(batch)
  BY <1>2 DEF NextEvent
<1>3. CASE turn # Len(batch)
  <2>1. batch' = batch /\ turn' = turn + 1 /\ row' = 0
    BY <1>3 DEF NextEvent
  <2>2. turn + 1 \in 1 .. Len(batch) /\ turn + 1 \in Nat
    BY <1>1, <1>3
  <2> QED BY <1>1, <2>1, <2>2
<1> QED BY <1>2, <1>3

LEMMA HandledIs ==
  ASSUME RaceTypes, batch # <<>>
  PROVE  /\ batch[turn] \in GameEvents
         /\ \A hooks \in SUBSET {"add", "change"} : Handling(hooks) => IsBoard(batch[turn])
         /\ Handling({"pass"}) => ~IsBoard(batch[turn])
BY DEF RaceTypes, Handling, IsBoard

LEMMA EntryType ==
  ASSUME NEW entry \in [Racer -> Entry], NEW e \in BoardEvent
  PROVE  [r \in Racer |-> UpsertEntry(entry[r], e.board[r])] \in [Racer -> Entry]
<1>1. ASSUME NEW r \in Racer PROVE UpsertEntry(entry[r], e.board[r]) \in Entry
  <2>1. e.board[r] \in [section : 0 .. Goal, time : Nat \X Nat, finished : BOOLEAN]
    BY DEF BoardEvent
  <2>2. entry[r] \in Entry
    OBVIOUS
  <2> QED BY <2>1, <2>2 DEF UpsertEntry, Entry
<1> QED BY <1>1

LEMMA ExceptInSeq ==
  ASSUME NEW S, NEW q \in Seq(S), NEW i \in DOMAIN q, NEW e \in S
  PROVE  /\ [q EXCEPT ![i] = e] \in Seq(S) /\ DOMAIN [q EXCEPT ![i] = e] = DOMAIN q
         /\ Len([q EXCEPT ![i] = e]) = Len(q)
OBVIOUS

LEMMA ProgramTypes ==
  ASSUME RaceTypes,
         FetchBatch \/ UpsertEvent \/ UpsertEntries \/ RecordSection \/ GrantExp \/ BatchDies
  PROVE  RaceTypes'
<1>0. rows \in Seq(RaceRow) /\ Len(rows) \in Nat /\ Goal \in Nat
  BY RaceAssumption DEF RaceTypes
<1>1. CASE FetchBatch
  <2>1. /\ Sorted(wire) \in Seq(GameEvents) /\ DOMAIN Sorted(wire) = DOMAIN wire /\ 1 \in DOMAIN wire
    BY <1>1, SortedIs DEF RaceTypes, FetchBatch
  <2>2. row = 0
    BY <1>1 DEF RaceTypes, FetchBatch
  <2> QED BY <1>1, <2>1, <2>2 DEF RaceTypes, FetchBatch
<1>2. CASE UpsertEvent
  <2> DEFINE state == batch[turn].state found == RowFor(state)
  <2>1. batch # <<>> /\ IsBoard(batch[turn]) /\ batch[turn] \in GameEvents
    BY <1>2, HandledIs DEF UpsertEvent, Handling
  <2>2. state \in 1 .. 3
    BY <2>1, BoardIs DEF BoardEvent
  <2>3. [r \in Racer |-> NoEntry] \in [Racer -> Entry]
    BY <1>0 DEF NoEntry, NoTime, Entry
  <2>4. CASE found = 0
    <3> DEFINE new == [state |-> state, moved |-> FALSE, entry |-> [r \in Racer |-> NoEntry]]
    <3>1. rows' = Append(rows, new) /\ row' = Len(rows) + 1
      BY <1>2, <2>4 DEF UpsertEvent
    <3>2. new \in RaceRow
      BY <2>2, <2>3 DEF RaceRow
    <3> HIDE DEF new
    <3>3. rows' \in Seq(RaceRow) /\ row' \in DOMAIN rows' /\ row' \in Nat
      BY <1>0, <3>1, <3>2
    <3> QED BY <1>2, <2>1, <3>3 DEF RaceTypes, UpsertEvent
  <2>5. CASE found # 0
    <3>1. found \in DOMAIN rows
      <4> DEFINE open == {i \in DOMAIN rows : rows[i].state <= state}
      <4>1. open # {} /\ found = Max(open)
        BY <2>5 DEF RowFor
      <4>2. open \subseteq Nat /\ \A i \in open : i <= Len(rows)
        BY <1>0
      <4>4. Max(open) \in open
        <5> HIDE DEF open
        <5> QED BY <1>0, <4>1, <4>2, Largest
      <4> QED BY <4>1, <4>4
    <3>2. rows' = [rows EXCEPT ![found].state = state, ![found].moved = rows[found].state # state]
          /\ row' = found
      BY <1>2, <2>5 DEF UpsertEvent
    <3> HIDE DEF state, found
    <3>3. rows' \in Seq(RaceRow) /\ DOMAIN rows' = DOMAIN rows
      <4>1. rows[found] \in RaceRow
        BY <1>0, <3>1
      <4> DEFINE new == [rows[found] EXCEPT !.state = state, !.moved = rows[found].state # state]
      <4>2. new \in RaceRow
        BY <2>2, <4>1 DEF RaceRow
      <4>3. rows' = [rows EXCEPT ![found] = new]
        BY <3>2
      <4> HIDE DEF new
      <4> QED BY <1>0, <3>1, <4>2, <4>3, ExceptInSeq
    <3>4. row' \in Nat
      BY <1>0, <3>1, <3>2
    <3> QED BY <1>2, <2>1, <3>1, <3>2, <3>3, <3>4 DEF RaceTypes, UpsertEvent
  <2> QED BY <2>4, <2>5
<1>3. CASE UpsertEntries
  <2>1. batch # <<>> /\ batch[turn] \in BoardEvent /\ row # 0 /\ row \in DOMAIN rows
    BY <1>3, HandledIs, BoardIs DEF UpsertEntries, Handling, RaceTypes
  <2>2. rows[row] \in RaceRow
    BY <1>0, <2>1
  <2> DEFINE new == [r \in Racer |-> UpsertEntry(rows[row].entry[r], batch[turn].board[r])]
  <2>3. new \in [Racer -> Entry]
    BY <2>1, <2>2, EntryType DEF RaceRow
  <2>4. rows' = [rows EXCEPT ![row].entry = new]
    BY <1>3 DEF UpsertEntries
  <2> HIDE DEF new
  <2>5. rows' \in Seq(RaceRow)
    <3>1. [rows[row] EXCEPT !.entry = new] \in RaceRow
      BY <2>2, <2>3 DEF RaceRow
    <3>2. rows' = [rows EXCEPT ![row] = [rows[row] EXCEPT !.entry = new]]
      BY <2>4
    <3> QED BY <1>0, <2>1, <3>1, <3>2, ExceptInSeq
  <2>6. prizes' \in Seq(Nat)
    BY <1>0, <1>3, <2>1 DEF UpsertEntries, RaceTypes
  <2> QED BY <1>3, <2>1, <2>5, <2>6, NextTypes DEF RaceTypes, UpsertEntries
<1>4. CASE RecordSection
  <2>1. batch # <<>> /\ batch[turn] \in PassEvent
    BY <1>4, HandledIs, BoardIs DEF RecordSection, Handling
  <2> DEFINE e == batch[turn]
  <2>2. rows' \in Seq(RaceRow)
    <3>1. CASE rows # <<>> /\ rows[1].entry[e.who].joined
      <4>1. rows' = [rows EXCEPT ![1].entry[e.who].section = e.section,
                                 ![1].entry[e.who].time = e.time]
        BY <1>4, <3>1 DEF RecordSection
      <4>2. e.who \in Racer /\ e.section \in 0 .. Goal /\ e.time \in Nat \X Nat
        BY <1>0, <2>1 DEF PassEvent
      <4>3. 1 \in DOMAIN rows /\ rows[1] \in RaceRow
        BY <1>0, <3>1
      <4> HIDE DEF e
      <4> DEFINE new == [rows[1].entry EXCEPT ![e.who].section = e.section, ![e.who].time = e.time]
      <4>4. new \in [Racer -> Entry]
        BY <4>2, <4>3 DEF RaceRow, Entry
      <4>5. rows' = [rows EXCEPT ![1] = [rows[1] EXCEPT !.entry = new]]
        BY <4>1, <4>2, <4>3 DEF RaceRow, Entry
      <4> HIDE DEF new
      <4>6. [rows[1] EXCEPT !.entry = new] \in RaceRow
        BY <4>3, <4>4 DEF RaceRow
      <4> QED BY <1>0, <4>3, <4>5, <4>6, ExceptInSeq
    <3>2. CASE ~(rows # <<>> /\ rows[1].entry[e.who].joined)
      BY <1>0, <1>4, <3>2 DEF RecordSection
    <3> QED BY <3>1, <3>2
  <2> QED BY <1>4, <2>1, <2>2, NextTypes DEF RaceTypes, RecordSection
<1>5. CASE GrantExp
  <2>1. exp' \in [Racer -> Nat]
    BY <1>5 DEF RaceTypes, GrantExp
  <2>2. prizes' \in Seq(Nat)
    BY <1>5 DEF RaceTypes, GrantExp
  <2> QED BY <1>5, <2>1, <2>2 DEF RaceTypes, GrantExp
<1>6. CASE BatchDies
  <2>1. wire' \in Seq(GameEvents)
    BY <1>6, QueueIs DEF RaceTypes, BatchDies
  <2> QED BY <1>6, <2>1 DEF RaceTypes, BatchDies
<1> QED BY <1>1, <1>2, <1>3, <1>4, <1>5, <1>6
-----------------------------------------------------------------------------
(* What the game does, and what its events say of it.                      *)
LEMMA TruthfulKept ==
  ASSUME RaceTypes, GameInv, NEW e \in GameEvents, Truthful(e),
         SetUp \/ Start \/ EndRace \/ UNCHANGED <<race, standings>>
  PROVE  Truthful(e)'
<1>1. race.number \in Nat /\ race.state \in 1 .. 3 /\ standings \in Seq([Racer -> 0 .. Goal])
  BY DEF RaceTypes
<1>2. race'.number \in Nat /\ race'.state \in 1 .. 3 /\ race.number <= race'.number
      /\ Nth(race.number, race.state) <= Nth(race'.number, race'.state)
  <2>1. race = [number |-> race.number, state |-> race.state]
    BY DEF RaceTypes
  <2>2. CASE SetUp
    BY <1>1, <2>1, <2>2 DEF SetUp, Nth, Ready, Finished
  <2>3. CASE Start
    BY <1>1, <2>1, <2>3 DEF Start, Nth, Ready, Running
  <2>4. CASE EndRace
    BY <1>1, <2>1, <2>4 DEF EndRace, Nth, Running, Finished
  <2>5. CASE UNCHANGED <<race, standings>>
    <3>1. race' = race /\ race.number <= race.number
          /\ Nth(race.number, race.state) <= Nth(race.number, race.state)
      BY <1>1, <2>5 DEF Nth
    <3> QED BY <1>1, <3>1
  <2> QED BY <2>2, <2>3, <2>4, <2>5
<1>3. \A k \in DOMAIN standings : standings'[k] = standings[k]
  <2>1. standings' = standings \/ standings' = Append(standings, place)
    BY DEF SetUp, Start, EndRace
  <2>2. place \in [Racer -> 0 .. Goal]
    BY DEF RaceTypes
  <2> QED BY <1>1, <2>1, <2>2, AppendIs
<1>4. e.race \in 1 .. race'.number
  BY <1>1, <1>2 DEF Truthful
<1>5. ASSUME IsBoard(e), e.state = Finished PROVE standings'[e.race] = standings[e.race]
  <2> DEFINE k == e.race
  <2>1. k \in 1 .. race.number /\ 3 * (k - 1) + 3 <= 3 * (race.number - 1) + race.state
    BY <1>5 DEF Truthful, NthOf, Nth, Finished
  <2> HIDE DEF k
  <2>2. k \in DOMAIN standings
    <3>1. Len(standings) = IF race.state = 3 THEN race.number ELSE race.number - 1
      BY DEF GameInv, Finished
    <3>2. k \in 1 .. Len(standings)
      BY <1>1, <2>1, <3>1
    <3> QED BY <1>1, <3>2
  <2> QED BY <1>3, <2>2 DEF k
<1>6. IsBoard(e) => NthOf(e) <= Nth(race'.number, race'.state)
  <2> SUFFICES ASSUME IsBoard(e) PROVE NthOf(e) <= Nth(race'.number, race'.state)
    OBVIOUS
  <2>1. NthOf(e) \in Int /\ NthOf(e) <= Nth(race.number, race.state)
    BY BoardIs DEF Truthful
  <2>2. Nth(race.number, race.state) \in Int /\ Nth(race'.number, race'.state) \in Int
    BY <1>1, <1>2 DEF Nth
  <2> QED BY <1>2, <2>1, <2>2
<1> QED BY <1>4, <1>5, <1>6 DEF Truthful

LEMMA GameKept ==
  ASSUME RaceTypes, GameInv, RaceNext
  PROVE  GameInv'
<1>1. race.number \in Nat /\ race.state \in 1 .. 3 /\ standings \in Seq([Racer -> 0 .. Goal])
      /\ race = [number |-> race.number, state |-> race.state]
      /\ Len(standings) \in Nat /\ place \in [Racer -> 0 .. Goal]
  BY DEF RaceTypes
<1>2. CASE SetUp
  <2>1. race'.number = race.number + 1 /\ race'.state = 1 /\ standings' = standings
        /\ place' = [r \in Racer |-> 0] /\ Len(standings) = race.number
    BY <1>2 DEF SetUp, GameInv, Ready
  <2> QED BY <1>1, <2>1 DEF GameInv, Ready, Finished
<1>3. CASE Start
  <2>1. race'.number = race.number /\ race'.state = 2 /\ standings' = standings /\ race.number > 0
        /\ Len(standings) = race.number - 1
    BY <1>1, <1>3 DEF Start, GameInv, Ready, Running, Finished
  <2> QED BY <1>1, <2>1 DEF GameInv, Ready, Finished
<1>4. CASE EndRace
  <2>1. race'.number = race.number /\ race'.state = 3 /\ standings' = Append(standings, place)
        /\ place' = place /\ race.number # 0 /\ Len(standings) = race.number - 1
    BY <1>1, <1>4 DEF EndRace, GameInv, Running, Finished
  <2>2. Len(standings') = race.number /\ standings'[race.number] = place
    BY <1>1, <2>1
  <2> QED BY <1>1, <2>1, <2>2 DEF GameInv, Ready, Finished
<1>5. ASSUME NEW r \in Racer, PassSection(r) PROVE GameInv'
  BY <1>1, <1>5 DEF PassSection, GameInv, Running, Ready, Finished
<1>6. CASE UNCHANGED <<race, place, standings>>
  BY <1>6 DEF GameInv
<1> QED BY <1>2, <1>3, <1>4, <1>5, <1>6
        DEF RaceNext, FetchBatch, UpsertEvent, UpsertEntries, RecordSection, GrantExp, BatchDies

(* What the game sends is true.                                            *)
LEMMA SentIs ==
  ASSUME RaceTypes, GameInv, RaceTypes', GameInv',
         SetUp \/ Start \/ EndRace \/ \E r \in Racer : PassSection(r)
  PROVE  \E e \in GameEvents :
           /\ wire' = Append(wire, e) /\ Truthful(e)'
           /\ IsBoard(e) <=> SetUp \/ Start \/ EndRace
           /\ IsBoard(e) => NthOf(e) = Nth(race.number, race.state) + 1
                            /\ NthOf(e) = Nth(race'.number, race'.state)
           /\ IsEnd(e) <=> EndRace
           /\ IsEnd(e) => e.race = race.number
           /\ ~IsBoard(e) => \E r \in Racer : /\ PassSection(r) /\ IsPassOf(e, r)
                                              /\ e.section = place'[r]
<1>1. /\ race.number \in Nat /\ race'.number \in Nat /\ race.state \in 1 .. 3
      /\ race = [number |-> race.number, state |-> race.state]
      /\ place' \in [Racer -> 0 .. Goal] /\ Goal \in Nat
      /\ race'.state \in 1 .. 3
  BY RaceAssumption DEF RaceTypes
<1>2. ASSUME NEW hook \in {"add", "change"}, Shown(hook), SetUp \/ Start \/ EndRace,
             race'.number > 0, hook = (IF Nth(race'.number, race'.state) = 1 THEN "add" ELSE "change"),
             Nth(race'.number, race'.state) = Nth(race.number, race.state) + 1,
             place' = (IF race'.state = Finished THEN standings'[race'.number]
                       ELSE [r \in Racer |-> 0]),
             EndRace <=> race'.state = Finished, EndRace => race'.number = race.number
      PROVE  \E e \in GameEvents :
               /\ wire' = Append(wire, e) /\ Truthful(e)' /\ IsBoard(e)
               /\ NthOf(e) = Nth(race.number, race.state) + 1
               /\ NthOf(e) = Nth(race'.number, race'.state)
               /\ IsEnd(e) <=> EndRace
               /\ IsEnd(e) => e.race = race.number
  <2>1. PICK e \in GameEvents :
          e = [hook |-> hook, who |-> Owner, race |-> race'.number, state |-> race'.state,
               board |-> Board(race'.number, place')]
    BY <1>1, ShownType DEF GameEvents
  <2>2. wire' = Append(wire, e)
    BY <1>2, <2>1 DEF Shown
  <2>3. /\ e.hook = hook /\ e.race = race'.number /\ e.state = race'.state
        /\ e.board = Board(race'.number, place')
    BY <2>1
  <2>4. IsBoard(e) /\ NthOf(e) = Nth(race'.number, race'.state)
    BY <1>2, <2>3 DEF IsBoard, NthOf
  <2>5. race'.number \in 1 .. race'.number
    BY <1>1, <1>2
  <2>6. Nth(race'.number, race'.state) <= Nth(race'.number, race'.state)
    BY <1>1 DEF Nth
  <2>7. Truthful(e)'
    BY <1>2, <2>3, <2>4, <2>5, <2>6 DEF Truthful
  <2>8. IsEnd(e) <=> EndRace
    <3>1. IsEnd(e) => EndRace
      BY <1>2, <2>3 DEF IsEnd
    <3>2. ASSUME EndRace PROVE IsEnd(e)
      <4>1. e.state = Finished /\ Nth(race'.number, race'.state) # 1
        BY <1>1, <1>2, <2>3, <3>2 DEF Nth, Finished
      <4> QED BY <1>2, <2>3, <4>1 DEF IsEnd
    <3> QED BY <3>1, <3>2
  <2>9. IsEnd(e) => e.race = race.number
    BY <1>2, <2>3, <2>8
  <2> QED BY <1>2, <2>2, <2>4, <2>7, <2>8, <2>9
<1>3. CASE SetUp
  <2>1. /\ race'.number = race.number + 1 /\ race'.state = 1 /\ race.state = 3
        /\ place' = [r \in Racer |-> 0]
        /\ Shown(IF race.number = 0 THEN "add" ELSE "change")
    BY <1>3 DEF SetUp, Ready, Finished
  <2>2. Nth(race'.number, race'.state) = Nth(race.number, race.state) + 1
    BY <1>1, <2>1 DEF Nth
  <2>3. (IF race.number = 0 THEN "add" ELSE "change")
          = (IF Nth(race'.number, race'.state) = 1 THEN "add" ELSE "change")
    BY <1>1, <2>1 DEF Nth
  <2>4. ~EndRace /\ race'.state # Finished /\ race'.number > 0
    BY <1>1, <2>1 DEF EndRace, Running, Finished
  <2> QED BY <1>2, <1>3, <2>1, <2>2, <2>3, <2>4
<1>4. CASE Start
  <2>1. /\ race'.number = race.number /\ race'.state = 2 /\ race.state = 1 /\ race.number > 0
        /\ place' = [r \in Racer |-> 0] /\ Shown("change")
    BY <1>1, <1>4 DEF Start, Ready, Running, GameInv
  <2>2. Nth(race'.number, race'.state) = Nth(race.number, race.state) + 1
    BY <1>1, <2>1 DEF Nth
  <2>3. Nth(race'.number, race'.state) # 1
    BY <1>1, <2>1 DEF Nth
  <2>4. ~EndRace /\ race'.state # Finished /\ race'.number > 0
    BY <1>1, <2>1 DEF EndRace, Running, Finished
  <2> QED BY <1>2, <1>4, <2>1, <2>2, <2>3, <2>4
<1>5. CASE EndRace
  <2>1. /\ race'.number = race.number /\ race'.state = 3 /\ race.state = 2 /\ race.number > 0
        /\ Shown("change")
    BY <1>1, <1>5 DEF EndRace, Running, Finished, GameInv
  <2>2. Nth(race'.number, race'.state) = Nth(race.number, race.state) + 1
    BY <1>1, <2>1 DEF Nth
  <2>3. Nth(race'.number, race'.state) # 1
    BY <1>1, <2>1 DEF Nth
  <2>4. race'.state = Finished /\ race'.number > 0 /\ place' = standings'[race'.number]
    BY <2>1 DEF GameInv, Finished
  <2> QED BY <1>2, <1>5, <2>1, <2>2, <2>3, <2>4
<1>6. ASSUME NEW r \in Racer, PassSection(r)
      PROVE  \E e \in GameEvents :
               /\ wire' = Append(wire, e) /\ Truthful(e)' /\ ~IsBoard(e) /\ ~IsEnd(e)
               /\ IsPassOf(e, r) /\ e.section = place'[r] /\ ~(SetUp \/ Start \/ EndRace)
  <2>1. /\ race' = race /\ race.state = 2 /\ race.number > 0 /\ place'[r] \in 1 .. Goal
    <3>1. race' = race /\ race.state = 2 /\ race.number # 0
      BY <1>6 DEF PassSection, Running, Finished, GameInv
    <3>2. place'[r] \in 1 .. Goal
      BY <1>1, <1>6 DEF PassSection, RaceTypes
    <3> QED BY <1>1, <3>1, <3>2
  <2>2. Time(race.number, place'[r]) \in Nat \X Nat
    BY <1>1, <2>1 DEF Time, NoTime
  <2> DEFINE t == Time(race.number, place'[r])
  <2>3. PICK e : e = [hook |-> "pass", who |-> r, race |-> race.number,
                      section |-> place'[r], time |-> t]
    OBVIOUS
  <2>4. e \in PassEvent
    <3>1. t \in Nat \X Nat
      BY <2>2
    <3> HIDE DEF t
    <3> QED BY <1>1, <2>1, <2>3, <3>1 DEF PassEvent
  <2>5. wire' = Append(wire, e)
    BY <1>6, <2>3 DEF PassSection
  <2>6. e.hook = "pass" /\ e.who = r /\ e.race = race'.number /\ e.section = place'[r]
        /\ e.time = Time(race'.number, place'[r])
    BY <2>1, <2>3
  <2>7. Truthful(e)' /\ ~IsBoard(e) /\ ~IsEnd(e) /\ IsPassOf(e, r)
    <3>1. race'.number \in 1 .. race'.number
      BY <1>1, <2>1
    <3> QED BY <2>6, <3>1 DEF Truthful, IsBoard, IsEnd, IsPassOf
  <2>8. ~(SetUp \/ Start \/ EndRace)
    <3>1. place' # place
      <4>1. place'[r] # place[r]
        BY <1>1, <1>6 DEF PassSection, RaceTypes
      <4> QED BY <4>1
    <3> QED BY <2>1, <3>1 DEF SetUp, Start, EndRace, Finished
  <2> QED BY <2>4, <2>5, <2>6, <2>7, <2>8 DEF GameEvents
<1> QED BY <1>3, <1>4, <1>5, <1>6
LEMMA TruthConcat ==
  ASSUME NEW s \in Seq(GameEvents), NEW t \in Seq(GameEvents), AllTruthful(s), AllTruthful(t)
  PROVE  AllTruthful(s \o t)
<1>1. /\ s \o t \in Seq(GameEvents) /\ Len(s \o t) = Len(s) + Len(t)
      /\ \A i \in 1 .. Len(s) + Len(t) :
           (s \o t)[i] = IF i <= Len(s) THEN s[i] ELSE t[i - Len(s)]
  BY ConcatProperties
<1>2. Len(s) \in Nat /\ Len(t) \in Nat /\ DOMAIN s = 1 .. Len(s) /\ DOMAIN t = 1 .. Len(t)
      /\ DOMAIN (s \o t) = 1 .. Len(s) + Len(t)
  BY <1>1
<1>3. ASSUME NEW i \in 1 .. Len(s) + Len(t) PROVE Truthful((s \o t)[i])
  <2>1. CASE i <= Len(s)
    <3>1. i \in DOMAIN s
      BY <1>2, <2>1
    <3> QED BY <1>1, <2>1, <3>1 DEF AllTruthful
  <2>2. CASE ~(i <= Len(s))
    <3>1. i - Len(s) \in DOMAIN t
      BY <1>2, <2>2
    <3> QED BY <1>1, <2>2, <3>1 DEF AllTruthful
  <2> QED BY <2>1, <2>2
<1> QED BY <1>2, <1>3 DEF AllTruthful

LEMMA TruthQueue ==
  ASSUME RaceTypes, EventsInv
  PROVE  AllTruthful(Queue) /\ AllTruthful(batch \o wire)
<1>1. batch \in Seq(GameEvents) /\ wire \in Seq(GameEvents)
  BY DEF RaceTypes
<1>2. AllTruthful(batch \o wire)
  BY <1>1, TruthConcat DEF EventsInv
<1>3. CASE batch = <<>>
  BY <1>2, <1>3 DEF Queue, EventsInv
<1>4. CASE batch # <<>>
  <2>1. turn \in 1 .. Len(batch) /\ Len(batch) \in Nat
    BY <1>4 DEF RaceTypes
  <2> DEFINE rest == SubSeq(batch, turn, Len(batch))
  <2>2. /\ rest \in Seq(GameEvents) /\ Len(rest) = Len(batch) - turn + 1
        /\ \A i \in 1 .. Len(batch) - turn + 1 : rest[i] = batch[turn + i - 1]
    <3>1. turn \in Int /\ Len(batch) \in Int /\ \A i \in turn .. Len(batch) : batch[i] \in GameEvents
      BY <1>1, <2>1
    <3>2. turn <= Len(batch)
      BY <2>1
    <3> QED BY <3>1, <3>2, SubSeqProperties
  <2>3. AllTruthful(rest)
    <3> HIDE DEF rest
    <3>1. ASSUME NEW i \in DOMAIN rest PROVE Truthful(rest[i])
      <4>1. i \in 1 .. Len(batch) - turn + 1
        BY <2>2
      <4>2. turn + i - 1 \in DOMAIN batch
        BY <2>1, <4>1
      <4> QED BY <2>2, <4>1, <4>2 DEF EventsInv, AllTruthful
    <3> QED BY <3>1 DEF AllTruthful
  <2>4. Queue = rest \o wire
    BY <1>4 DEF Queue
  <2> HIDE DEF rest
  <2> QED BY <1>1, <1>2, <2>2, <2>3, <2>4, TruthConcat DEF EventsInv
<1> QED BY <1>3, <1>4

LEMMA TruthSorted ==
  ASSUME NEW q \in Seq(GameEvents), AllTruthful(q)
  PROVE  AllTruthful(Sorted(q))
<1>1. DOMAIN Sorted(q) = DOMAIN q /\ \E f : Reorders(q, Sorted(q), f)
  BY SortedIs
<1>2. \A n \in DOMAIN q : \E i \in DOMAIN q : Sorted(q)[n] = q[i]
  BY <1>1 DEF Reorders
<1> QED BY <1>1, <1>2 DEF AllTruthful

LEMMA TruthKept ==
  ASSUME RaceTypes, GameInv, NEW q \in Seq(GameEvents), AllTruthful(q),
         SetUp \/ Start \/ EndRace \/ UNCHANGED <<race, standings>>
  PROVE  AllTruthful(q)'
<1>1. ASSUME NEW i \in DOMAIN q PROVE Truthful(q[i])'
  <2>1. PICK x \in GameEvents : x = q[i]
    OBVIOUS
  <2>2. Truthful(x)'
    BY <2>1, TruthfulKept DEF AllTruthful
  <2> QED BY <2>1, <2>2
<1> QED BY <1>1 DEF AllTruthful

LEMMA EventsKept ==
  ASSUME RaceTypes, GameInv, EventsInv, RaceTypes', GameInv', RaceNext
  PROVE  EventsInv'
<1>1. PICK b \in Seq(GameEvents), w \in Seq(GameEvents) : b = batch /\ w = wire
  BY DEF RaceTypes
<1>2. SetUp \/ Start \/ EndRace \/ UNCHANGED <<race, standings>>
  BY DEF RaceNext, PassSection, FetchBatch, UpsertEvent, UpsertEntries, RecordSection, GrantExp,
         BatchDies
<1>3. AllTruthful(b) /\ AllTruthful(w)
  BY <1>1 DEF EventsInv
<1>4. AllTruthful(b)' /\ AllTruthful(w)'
  BY <1>1, <1>2, <1>3, TruthKept
<1>5. \E p \in Seq(GameEvents) : p = batch' /\ AllTruthful(p)'
  <2>1. CASE batch' = batch
    BY <1>1, <1>4, <2>1
  <2>2. CASE batch' = <<>>
    <3>2. PICK p \in Seq(GameEvents) : p = <<>>
      BY EmptySeq, Zenon
    <3>3. AllTruthful(p)'
      BY <3>2 DEF AllTruthful
    <3> QED BY <2>2, <3>2, <3>3
  <2>3. CASE FetchBatch
    <3>1. Sorted(w) \in Seq(GameEvents) /\ AllTruthful(Sorted(w))
      BY <1>1, <1>3, SortedIs, TruthSorted
    <3>2. PICK p \in Seq(GameEvents) : p = Sorted(w)
      BY <3>1
    <3>3. AllTruthful(p)'
      BY <1>2, <3>1, <3>2, TruthKept
    <3> QED BY <1>1, <2>3, <3>2, <3>3 DEF FetchBatch
  <2> QED BY <2>1, <2>2, <2>3
          DEF RaceNext, SetUp, Start, EndRace, PassSection, backend, UpsertEvent, UpsertEntries,
              RecordSection, NextEvent, GrantExp, BatchDies
<1>6. \E p \in Seq(GameEvents) : p = wire' /\ AllTruthful(p)'
  <2>1. CASE wire' = wire
    BY <1>1, <1>4, <2>1
  <2>2. CASE SetUp \/ Start \/ EndRace \/ \E r \in Racer : PassSection(r)
    <3>1. PICK e \in GameEvents : wire' = Append(wire, e) /\ Truthful(e)'
      BY <2>2, SentIs
    <3>2. PICK p \in Seq(GameEvents) : p = Append(w, e)
      BY AppendProperties
    <3>3. /\ DOMAIN p = DOMAIN w \cup {Len(w) + 1} /\ p[Len(w) + 1] = e
          /\ \A i \in DOMAIN w : p[i] = w[i]
      BY <1>1, <3>2, AppendIs
    <3>4. AllTruthful(p)'
      <4>1. \A i \in DOMAIN w : Truthful(w[i])'
        BY <1>4 DEF AllTruthful
      <4>2. \A i \in DOMAIN p : Truthful(p[i])'
        BY <3>1, <3>3, <4>1
      <4> QED BY <4>2 DEF AllTruthful
    <3> QED BY <1>1, <3>1, <3>2, <3>4
  <2>3. CASE wire' = <<>>
    <3>2. PICK p \in Seq(GameEvents) : p = <<>>
      BY EmptySeq, Zenon
    <3>3. AllTruthful(p)'
      BY <3>2 DEF AllTruthful
    <3> QED BY <2>3, <3>2, <3>3
  <2>4. CASE wire' = batch \o wire
    <3>1. b \o w \in Seq(GameEvents) /\ AllTruthful(b \o w)
      BY <1>1, <1>3, TruthConcat, ConcatProperties
    <3>2. PICK p \in Seq(GameEvents) : p = b \o w
      BY <3>1
    <3>3. AllTruthful(p)'
      BY <1>2, <3>1, <3>2, TruthKept
    <3> QED BY <1>1, <2>4, <3>2, <3>3
  <2> QED BY <2>1, <2>2, <2>3, <2>4
          DEF RaceNext, FetchBatch, UpsertEvent, UpsertEntries, RecordSection, GrantExp, BatchDies
<1> QED BY <1>5, <1>6 DEF EventsInv

LEMMA FoundKept ==
  ASSUME RaceTypes, FoundInv, RaceNext
  PROVE  FoundInv'
<1>1. CASE UpsertEvent
  <2> DEFINE state == batch[turn].state found == RowFor(state)
  <2>1. batch # <<>> /\ IsBoard(batch[turn]) /\ UNCHANGED <<batch, turn>> /\ rows \in Seq(RaceRow)
    BY <1>1, HandledIs DEF UpsertEvent, Handling, RaceTypes
  <2>2. CASE found = 0
    <3>1. /\ rows' = Append(rows, [state |-> state, moved |-> FALSE,
                                   entry |-> [r \in Racer |-> NoEntry]])
          /\ row' = Len(rows) + 1
      BY <1>1, <2>2 DEF UpsertEvent
    <3> DEFINE new == [state |-> state, moved |-> FALSE, entry |-> [r \in Racer |-> NoEntry]]
    <3>2. new \in RaceRow
      <4>1. state \in 1 .. 3
        BY <2>1, HandledIs, BoardIs DEF BoardEvent
      <4>2. [r \in Racer |-> NoEntry] \in [Racer -> Entry]
        BY RaceAssumption DEF NoEntry, NoTime, Entry
      <4> QED BY <4>1, <4>2 DEF RaceRow
    <3>3. new.state = state
      OBVIOUS
    <3> HIDE DEF new
    <3>4. rows'[Len(rows) + 1] = new
      BY <2>1, <3>1, <3>2, AppendIs DEF new
    <3> QED BY <2>1, <3>1, <3>3, <3>4 DEF FoundInv
  <2>3. CASE found # 0
    <3>1. rows' = [rows EXCEPT ![found].state = state, ![found].moved = rows[found].state # state]
          /\ row' = found
      BY <1>1, <2>3 DEF UpsertEvent
    <3>2. row' \in DOMAIN rows' /\ DOMAIN rows' = DOMAIN rows
      <4>1. RaceTypes'
        BY <1>1, ProgramTypes
      <4> QED BY <2>3, <3>1, <4>1 DEF RaceTypes
    <3>3. rows[found] \in RaceRow
      BY <2>1, <3>1, <3>2
    <3>4. rows'[found].state = state
      <4> HIDE DEF found, state
      <4> QED BY <3>1, <3>2, <3>3 DEF RaceRow
    <3> QED BY <2>1, <3>1, <3>4 DEF FoundInv
  <2> QED BY <2>2, <2>3
<1>2. CASE RecordSection \/ UpsertEntries \/ BatchDies
  BY <1>2 DEF RecordSection, UpsertEntries, NextEvent, BatchDies, FoundInv
<1>3. CASE FetchBatch
  <2>1. row' = 0
    BY <1>3 DEF FetchBatch, RaceTypes
  <2> QED BY <2>1 DEF FoundInv
<1>4. CASE UNCHANGED <<row, rows, batch, turn>>
  BY <1>4 DEF FoundInv, IsBoard
<1> QED BY <1>1, <1>2, <1>3, <1>4
        DEF RaceNext, SetUp, Start, EndRace, PassSection, backend, GrantExp
-----------------------------------------------------------------------------
(* The rewards.                                                            *)
LEMMA EndsIn ==
  ASSUME RaceTypes, GameInv, NEW q \in Seq(GameEvents), AllTruthful(q)
  PROVE  /\ EndsOf(q) \subseteq 1 .. Len(standings) /\ IsFiniteSet(EndsOf(q))
         /\ Cardinality(EndsOf(q)) \in Nat /\ Cardinality(EndsOf(q)) <= Len(standings)
<1>1. Len(standings) \in Nat /\ race.number \in Nat /\ race.state \in 1 .. 3
  BY DEF RaceTypes
<1>2. EndsOf(q) \subseteq 1 .. Len(standings)
  <2> SUFFICES ASSUME NEW k \in EndsOf(q) PROVE k \in 1 .. Len(standings)
    OBVIOUS
  <2>1. PICK i \in DOMAIN q : IsEnd(q[i]) /\ k = q[i].race
    BY DEF EndsOf
  <2>2. Truthful(q[i]) /\ IsBoard(q[i]) /\ q[i].state = 3
    BY <2>1 DEF AllTruthful, IsEnd, IsBoard, Finished
  <2>3. k \in 1 .. race.number /\ 3 * (k - 1) + 3 <= 3 * (race.number - 1) + race.state
    BY <2>1, <2>2 DEF Truthful, NthOf, Nth
  <2>4. Len(standings) = IF race.state = 3 THEN race.number ELSE race.number - 1
    BY DEF GameInv, Finished
  <2> QED BY <1>1, <2>3, <2>4
<1>3. IsFiniteSet(1 .. Len(standings)) /\ Cardinality(1 .. Len(standings)) = Len(standings)
  <2> DEFINE L == Len(standings)
  <2>1. L \in Int /\ 1 \in Int /\ L >= 0
    BY <1>1
  <2> HIDE DEF L
  <2>2. IsFiniteSet(1 .. L) /\ Cardinality(1 .. L) = L
    BY <2>1, FS_Interval
  <2> QED BY <2>2 DEF L
<1> QED BY <1>2, <1>3, FS_Subset, FS_CardinalityType

LEMMA RewardGame ==
  ASSUME RaceTypes, GameInv, EventsInv, RewardInv, RaceTypes', GameInv', EventsInv',
         SetUp \/ Start \/ EndRace \/ \E r \in Racer : PassSection(r)
  PROVE  RewardInv'
<1>1. PICK e \in GameEvents : /\ wire' = Append(wire, e)
                              /\ IsEnd(e) <=> EndRace
                              /\ IsEnd(e) => e.race = race.number
  BY SentIs
<1>2. batch' = batch /\ turn' = turn /\ exp' = exp /\ prizes' = prizes /\ deaths' = deaths
  BY DEF SetUp, Start, EndRace, PassSection, backend
<1>3. Queue' = Append(Queue, e) /\ (batch \o wire)' = Append(batch \o wire, e)
  BY <1>1, <1>2, QueueAppend
<1>4. /\ Queue \in Seq(GameEvents) /\ batch \o wire \in Seq(GameEvents)
      /\ AllTruthful(Queue) /\ AllTruthful(batch \o wire)
  BY QueueIs, TruthQueue
<1>5. /\ EndsOf(Queue) \subseteq 1 .. Len(standings) /\ EndsOf(batch \o wire) \subseteq 1 .. Len(standings)
      /\ IsFiniteSet(EndsOf(Queue)) /\ Cardinality(EndsOf(Queue)) \in Nat
  BY <1>4, EndsIn
<1>6. IsEnd(e) => e.race \notin 1 .. Len(standings)
  <2>1. EndRace => Len(standings) = race.number - 1 /\ race.number \in Nat
    BY DEF EndRace, GameInv, RaceTypes, Running, Finished
  <2> QED BY <1>1, <2>1
<1>7. EndsOnce(Queue)' /\ EndsOnce(batch \o wire)'
  <2>1. EndsOnce(Append(Queue, e)) /\ EndsOnce(Append(batch \o wire, e))
    BY <1>4, <1>5, <1>6, EndsAppend DEF RewardInv
  <2> QED BY <1>3, <2>1 DEF EndsOnce
<1>8. EndsOf(Queue)' = EndsOf(Queue) \cup (IF IsEnd(e) THEN {e.race} ELSE {})
  <2>1. EndsOf(Queue)' = EndsOf(Append(Queue, e))
    BY <1>3 DEF EndsOf
  <2> QED BY <1>4, <2>1, EndsAppend
<1>9. Len(standings) \in Nat /\ deaths \in Nat
  BY DEF RaceTypes
<1>10. ASSUME NEW r \in Racer PROVE (exp[r] + Len(prizes) + Cardinality(EndsOf(Queue)) <= Len(standings) * (1 + deaths))'
  <2>1. exp[r] \in Nat /\ Len(prizes) \in Nat
    BY DEF RaceTypes
  <2> DEFINE c == Cardinality(EndsOf(Queue))
  <2>2. exp[r] + Len(prizes) + c <= Len(standings) * (1 + deaths) /\ c \in Nat
    BY <1>5 DEF RewardInv
  <2>3. CASE EndRace
    <3>1. Cardinality(EndsOf(Queue)') = c + 1
      <4>1. EndsOf(Queue)' = EndsOf(Queue) \cup {e.race} /\ e.race \notin EndsOf(Queue)
        BY <1>1, <1>5, <1>6, <1>8, <2>3
      <4> QED BY <1>5, <4>1, FS_AddElement
    <3>2. Len(standings') = Len(standings) + 1
      BY <2>3 DEF EndRace, RaceTypes
    <3>3. Cardinality(EndsOf(Queue))' = c + 1
      BY <3>1
    <3>4. (Len(standings) + 1) * (1 + deaths) = Len(standings) * (1 + deaths) + 1 + deaths
          /\ Len(standings) * (1 + deaths) \in Nat
      BY <1>9
    <3> HIDE DEF c
    <3> QED BY <1>2, <1>9, <2>1, <2>2, <3>2, <3>3, <3>4
  <2>4. CASE ~EndRace
    <3>1. Cardinality(EndsOf(Queue))' = c
      BY <1>1, <1>8, <2>4
    <3>2. standings' = standings
      BY <2>4 DEF SetUp, Start, PassSection
    <3> HIDE DEF c
    <3> QED BY <1>2, <2>2, <3>1, <3>2
  <2> QED BY <2>3, <2>4
<1> QED BY <1>7, <1>10 DEF RewardInv

LEMMA RewardNext ==
  ASSUME RaceTypes, RewardInv, EventsInv, GameInv, batch # <<>>, NextEvent,
         UNCHANGED <<wire, exp, deaths, standings>>,
         Len(prizes') <= Len(prizes) + (IF IsEnd(batch[turn]) THEN 1 ELSE 0), Len(prizes') \in Nat
  PROVE  RewardInv'
<1>1. Queue' = Tail(Queue) /\ Queue # <<>> /\ Queue[1] = batch[turn]
  BY QueueNext, QueueIs
<1>2. /\ Queue \in Seq(GameEvents) /\ AllTruthful(Queue) /\ EndsOnce(Queue)
  BY QueueIs, TruthQueue DEF RewardInv
<1>3. IsFiniteSet(EndsOf(Queue)) /\ Cardinality(EndsOf(Queue)) \in Nat
  BY <1>2, EndsIn
<1>4. EndsOf(Queue)' = EndsOf(Queue) \ (IF IsEnd(batch[turn]) THEN {batch[turn].race} ELSE {})
      /\ (IsEnd(batch[turn]) => batch[turn].race \in EndsOf(Queue))
  <2>1. EndsOf(Queue)' = EndsOf(Tail(Queue))
    BY <1>1 DEF EndsOf
  <2>2. EndsOf(Tail(Queue)) = EndsOf(Queue) \ (IF IsEnd(Queue[1]) THEN {Queue[1].race} ELSE {})
        /\ (IsEnd(Queue[1]) => Queue[1].race \in EndsOf(Queue))
    BY <1>1, <1>2, EndsTail
  <2> QED BY <1>1, <2>1, <2>2
<1>5. EndsOnce(Queue)'
  <2>1. EndsOnce(Tail(Queue))
    BY <1>1, <1>2, EndsTail
  <2> QED BY <1>1, <2>1 DEF EndsOnce
<1>6. EndsOnce(batch \o wire)'
  <2>1. wire \in Seq(GameEvents) /\ batch \in Seq(GameEvents)
    BY DEF RaceTypes
  <2>2. CASE batch' = batch
    BY <2>2 DEF RewardInv, EndsOnce
  <2>3. CASE batch' = <<>>
    <3>1. (batch \o wire)' = wire
      BY <2>1, <2>3, ConcatEmptySeq
    <3>2. Queue' = wire
      BY <2>3 DEF Queue
    <3> QED BY <1>5, <3>1, <3>2 DEF EndsOnce
  <2> QED BY <2>2, <2>3 DEF NextEvent
<1>7. ASSUME NEW r \in Racer PROVE (exp[r] + Len(prizes) + Cardinality(EndsOf(Queue)) <= Len(standings) * (1 + deaths))'
  <2>1. exp[r] \in Nat /\ Len(prizes) \in Nat /\ Len(standings) * (1 + deaths) \in Nat
    BY DEF RaceTypes
  <2> DEFINE c == Cardinality(EndsOf(Queue))
  <2>2. exp[r] + Len(prizes) + c <= Len(standings) * (1 + deaths) /\ c \in Nat
    BY <1>3 DEF RewardInv
  <2>3. Cardinality(EndsOf(Queue)') = c - (IF IsEnd(batch[turn]) THEN 1 ELSE 0)
    <3>1. CASE IsEnd(batch[turn])
      <4>1. EndsOf(Queue)' = EndsOf(Queue) \ {batch[turn].race} /\ batch[turn].race \in EndsOf(Queue)
        BY <1>4, <3>1
      <4> QED BY <1>3, <3>1, <4>1, FS_RemoveElement
    <3>2. CASE ~IsEnd(batch[turn])
      BY <1>4, <2>2, <3>2
    <3> QED BY <3>1, <3>2
  <2> HIDE DEF c
  <2>4. (Len(standings) * (1 + deaths))' = Len(standings) * (1 + deaths) /\ exp' = exp
    OBVIOUS
  <2> QED BY <2>1, <2>2, <2>3, <2>4
<1> QED BY <1>5, <1>6, <1>7 DEF RewardInv

LEMMA RewardKept ==
  ASSUME RaceTypes, GameInv, EventsInv, FoundInv, RewardInv, RaceTypes', GameInv', EventsInv', RaceNext
  PROVE  RewardInv'
<1>0. /\ batch \in Seq(GameEvents) /\ wire \in Seq(GameEvents) /\ Len(prizes) \in Nat
      /\ Len(standings) \in Nat /\ deaths \in Nat
  BY DEF RaceTypes
<1>1. CASE SetUp \/ Start \/ EndRace \/ \E r \in Racer : PassSection(r)
  BY <1>1, RewardGame
<1>2. CASE FetchBatch
  <2>1. Queue = wire /\ Queue' = Sorted(wire) /\ (batch \o wire)' = Sorted(wire)
    BY <1>2, QueueFetch
  <2>2. EndsOnce(Sorted(wire)) /\ EndsOf(Sorted(wire)) = EndsOf(wire)
    BY <1>0, <2>1, EndsSorted DEF RewardInv
  <2>3. EndsOnce(Queue)' /\ EndsOnce(batch \o wire)'
    BY <2>1, <2>2 DEF EndsOnce
  <2>4. EndsOf(Queue)' = EndsOf(Queue)
    BY <2>1, <2>2 DEF EndsOf
  <2> QED BY <1>2, <2>3, <2>4 DEF FetchBatch, RewardInv
<1>3. CASE UpsertEvent
  <2>1. UNCHANGED <<batch, wire, turn, exp, prizes, deaths, standings>>
    BY <1>3 DEF UpsertEvent
  <2>2. Queue' = Queue /\ (batch \o wire)' = batch \o wire
    BY <2>1 DEF Queue
  <2>3. EndsOnce(Queue)' /\ EndsOnce(batch \o wire)' /\ EndsOf(Queue)' = EndsOf(Queue)
    BY <2>2 DEF RewardInv, EndsOnce, EndsOf
  <2> QED BY <2>1, <2>3 DEF RewardInv
<1>4. CASE UpsertEntries
  <2>1. batch # <<>> /\ row # 0 /\ NextEvent /\ UNCHANGED <<wire, exp, deaths, standings>>
    BY <1>4 DEF UpsertEntries, Handling
  <2>2. rows[row].state = batch[turn].state
    BY <2>1 DEF FoundInv
  <2>3. Len(prizes') <= Len(prizes) + (IF IsEnd(batch[turn]) THEN 1 ELSE 0) /\ Len(prizes') \in Nat
    <3>1. CASE batch[turn].hook = "change" /\ rows[row].moved /\ rows[row].state = Finished
      <4>1. prizes' = Append(prizes, row) /\ IsEnd(batch[turn])
        BY <1>4, <2>2, <3>1 DEF UpsertEntries, IsEnd
      <4>2. prizes \in Seq(Nat) /\ row \in Nat
        BY DEF RaceTypes
      <4>3. Len(prizes') = Len(prizes) + 1
        BY <4>1, <4>2
      <4> QED BY <1>0, <4>1, <4>3
    <3>2. CASE ~(batch[turn].hook = "change" /\ rows[row].moved /\ rows[row].state = Finished)
      <4>1. prizes' = prizes
        BY <1>4, <3>2 DEF UpsertEntries
      <4> QED BY <1>0, <4>1
    <3> QED BY <3>1, <3>2
  <2> QED BY <2>1, <2>3, RewardNext
<1>5. CASE RecordSection
  <2>1. batch # <<>> /\ NextEvent /\ UNCHANGED <<wire, prizes, exp, deaths, standings>>
    BY <1>5 DEF RecordSection, Handling
  <2> QED BY <1>0, <2>1, RewardNext
<1>6. CASE GrantExp
  <2>1. UNCHANGED <<batch, wire, turn, deaths, standings>>
    BY <1>6 DEF GrantExp
  <2>2. EndsOnce(Queue)' /\ EndsOnce(batch \o wire)' /\ EndsOf(Queue)' = EndsOf(Queue)
    <3>1. Queue' = Queue /\ (batch \o wire)' = batch \o wire
      BY <2>1 DEF Queue
    <3> QED BY <3>1 DEF RewardInv, EndsOnce, EndsOf
  <2>3. Len(prizes') = Len(prizes) - 1
    BY <1>6 DEF GrantExp, RaceTypes
  <2>4. Cardinality(EndsOf(Queue)) \in Nat
    BY QueueIs, TruthQueue, EndsIn
  <2>5. ASSUME NEW r \in Racer PROVE (exp[r] + Len(prizes) + Cardinality(EndsOf(Queue)) <= Len(standings) * (1 + deaths))'
    <3> DEFINE c == Cardinality(EndsOf(Queue))
    <3>1. exp[r] \in Nat /\ exp'[r] \in Nat /\ exp'[r] <= exp[r] + 1
      BY <1>6 DEF GrantExp, RaceTypes
    <3>2. exp[r] + Len(prizes) + c <= Len(standings) * (1 + deaths)
      BY DEF RewardInv
    <3>3. c \in Nat /\ Cardinality(EndsOf(Queue)') = c
      BY <2>2, <2>4
    <3>4. Len(standings) * (1 + deaths) \in Nat
          /\ (Len(standings) * (1 + deaths))' = Len(standings) * (1 + deaths)
      BY <1>0, <2>1
    <3> HIDE DEF c
    <3> QED BY <1>0, <2>3, <3>1, <3>2, <3>3, <3>4
  <2> QED BY <2>2, <2>5 DEF RewardInv
<1>7. CASE BatchDies
  <2>1. Queue' = wire' /\ (batch \o wire)' = wire' /\ (wire' = batch \o wire \/ wire' = wire)
    BY <1>7, QueueDies
  <2>2. EndsOnce(wire)
    <3> SUFFICES ASSUME NEW i \in DOMAIN wire, NEW j \in DOMAIN wire,
                        IsEnd(wire[i]), IsEnd(wire[j]), wire[i].race = wire[j].race
                 PROVE  i = j
      BY DEF EndsOnce
    <3> DEFINE n == Len(batch) q == batch \o wire
    <3>1. /\ Len(q) = n + Len(wire) /\ n \in Nat /\ Len(wire) \in Nat
          /\ \A k \in 1 .. n + Len(wire) : q[k] = IF k <= n THEN batch[k] ELSE wire[k - n]
          /\ q \in Seq(GameEvents)
      <4>1. n \in Nat /\ Len(wire) \in Nat
        BY <1>0
      <4> QED BY <1>0, <4>1, ConcatProperties
    <3>2. EndsOnce(q)
      BY DEF RewardInv
    <3> HIDE DEF n, q
    <3>3. i \in Nat /\ j \in Nat /\ 1 <= i /\ 1 <= j /\ i <= Len(wire) /\ j <= Len(wire)
      BY <1>0
    <3>4. n + i \in DOMAIN q /\ n + j \in DOMAIN q /\ q[n + i] = wire[i] /\ q[n + j] = wire[j]
      <4>1. n + i \in 1 .. n + Len(wire) /\ n + j \in 1 .. n + Len(wire)
            /\ ~(n + i <= n) /\ ~(n + j <= n) /\ n + i - n = i /\ n + j - n = j
        BY <3>1, <3>3
      <4> QED BY <3>1, <4>1
    <3>5. n + i = n + j
      BY <3>2, <3>4 DEF EndsOnce
    <3> QED BY <3>1, <3>3, <3>5
  <2>3. EndsOnce(Queue)' /\ EndsOnce(batch \o wire)'
    <3>1. EndsOnce(wire')
      BY <2>1, <2>2 DEF RewardInv
    <3> QED BY <2>1, <3>1 DEF EndsOnce
  <2>4. (Cardinality(EndsOf(Queue)) \in Nat)' /\ (Cardinality(EndsOf(Queue)) <= Len(standings))'
    <3>1. EndsOf(wire') \subseteq 1 .. Len(standings)
      <4>1. wire' \in Seq(GameEvents) /\ AllTruthful(wire')
        BY <1>0, <2>1, QueueIs, TruthQueue DEF EventsInv
      <4> QED BY <4>1, EndsIn
    <3>2. EndsOf(Queue)' \subseteq 1 .. Len(standings)
      BY <2>1, <3>1 DEF EndsOf
    <3>3. IsFiniteSet(1 .. Len(standings)) /\ Cardinality(1 .. Len(standings)) = Len(standings)
      <4> DEFINE L == Len(standings)
      <4>1. L \in Int /\ 1 \in Int /\ L >= 0
        BY <1>0
      <4> HIDE DEF L
      <4>2. IsFiniteSet(1 .. L) /\ Cardinality(1 .. L) = L
        BY <4>1, FS_Interval
      <4> QED BY <4>2 DEF L
    <3>4. Cardinality(EndsOf(Queue)') \in Nat /\ Cardinality(EndsOf(Queue)') <= Len(standings)
      BY <3>2, <3>3, FS_Subset, FS_CardinalityType
    <3>5. standings' = standings
      BY <1>7 DEF BatchDies
    <3> QED BY <3>4, <3>5
  <2>5. ASSUME NEW r \in Racer PROVE (exp[r] + Len(prizes) + Cardinality(EndsOf(Queue)) <= Len(standings) * (1 + deaths))'
    <3> DEFINE c == Cardinality(EndsOf(Queue)) d == Cardinality(EndsOf(Queue)') L == Len(standings)
    <3>1. exp[r] \in Nat /\ exp' = exp /\ Len(prizes') = 0 /\ deaths' = deaths + 1 /\ standings' = standings
      BY <1>7 DEF BatchDies, RaceTypes
    <3>2. exp[r] + Len(prizes) + c <= L * (1 + deaths)
      BY DEF RewardInv
    <3>3. c \in Nat
      BY QueueIs, TruthQueue, EndsIn
    <3>4. d \in Nat /\ d <= L
      BY <2>4, <3>1
    <3>5. L * (1 + (deaths + 1)) = L * (1 + deaths) + L /\ L * (1 + deaths) \in Nat /\ L \in Nat
      BY <1>0
    <3> HIDE DEF c
    <3>6. exp[r] <= L * (1 + deaths)
      BY <1>0, <3>1, <3>2, <3>3, <3>5
    <3>7. exp'[r] + Len(prizes') + d <= L * (1 + (deaths + 1))
      <4> HIDE DEF d, L
      <4> QED BY <1>0, <3>1, <3>4, <3>5, <3>6
    <3> QED BY <3>1, <3>7
  <2> QED BY <2>3, <2>5 DEF RewardInv
<1> QED BY <1>1, <1>2, <1>3, <1>4, <1>5, <1>6, <1>7 DEF RaceNext
-----------------------------------------------------------------------------
(* The queue, while no batch has died.                                     *)
LEMMA ToldIs ==
  ASSUME RaceTypes
  PROVE  /\ Told \in Nat /\ NextNth \in Nat /\ Nth(race.number, race.state) \in Int
         /\ Len(rows) \in Nat /\ race.number \in Nat /\ race.state \in 1 .. 3
         /\ rows # <<>> => /\ Len(rows) \in DOMAIN rows /\ rows[Len(rows)].state \in 1 .. 3
                           /\ Len(rows) # 0
                           /\ Told = 3 * (Len(rows) - 1) + rows[Len(rows)].state
         /\ rows = <<>> => Told = 0 /\ Len(rows) = 0
         /\ \A i \in DOMAIN rows : rows[i] \in RaceRow /\ i \in Nat /\ i # 0 /\ i <= Len(rows)
<1>1. /\ rows \in Seq(RaceRow) /\ Len(rows) \in Nat
      /\ race.number \in Nat /\ race.state \in 1 .. 3 /\ row \in Nat
  BY DEF RaceTypes
<1>2. Nth(race.number, race.state) \in Int
  BY <1>1 DEF Nth
<1>3. CASE rows = <<>>
  BY <1>1, <1>2, <1>3 DEF Told, NextNth
<1>4. CASE rows # <<>>
  <2> DEFINE L == Len(rows) t == rows[L].state
  <2>1. L \in DOMAIN rows /\ L # 0 /\ L \in Nat /\ rows[L] \in RaceRow
    BY <1>1, <1>4
  <2>2. t \in 1 .. 3
    BY <2>1 DEF RaceRow
  <2>3. Told = 3 * (L - 1) + t
    BY <1>4 DEF Told, Nth
  <2>4. Told \in Nat
    <3> HIDE DEF L, t
    <3> QED BY <2>1, <2>2, <2>3
  <2>5. \A i \in DOMAIN rows : rows[i] \in RaceRow /\ i \in Nat /\ i # 0 /\ i <= L
    BY <1>1
  <2>6. NextNth \in Nat
    BY <2>4 DEF NextNth
  <2> QED BY <1>1, <1>2, <1>4, <2>1, <2>2, <2>3, <2>4, <2>5, <2>6
<1> QED BY <1>3, <1>4

(* The next event about the race is the next that was not handled.         *)
LEMMA FirstIs ==
  ASSUME RaceTypes, EventsInv, QueueInv, batch # <<>>, IsBoard(batch[turn])
  PROVE  /\ NthOf(batch[turn]) = NextNth /\ Truthful(batch[turn]) /\ batch[turn] \in BoardEvent
         /\ batch[turn].race \in Nat /\ batch[turn].race # 0 /\ batch[turn].state \in 1 .. 3
         /\ NextNth = 3 * (batch[turn].race - 1) + batch[turn].state
         /\ NextNth <= Nth(race.number, race.state)
<1>1. /\ Queue # <<>> /\ Queue[1] = batch[turn] /\ Queue \in Seq(GameEvents)
      /\ batch[turn] \in GameEvents
  BY QueueIs, HandledIs
<1>2. NthOf(Queue[1]) \in TurnsOf(Queue) /\ \A n \in TurnsOf(Queue) : NthOf(Queue[1]) <= n
  BY <1>1, TurnsTail DEF QueueInv
<1>3. NthOf(batch[turn]) = NextNth /\ NextNth <= Nth(race.number, race.state)
  <2>1. TurnsOf(Queue) = NextNth .. Nth(race.number, race.state)
    BY DEF QueueInv
  <2>2. NextNth \in Nat /\ Nth(race.number, race.state) \in Int
    BY ToldIs
  <2> QED BY <1>1, <1>2, <2>1, <2>2
<1>4. Truthful(batch[turn])
  <2>1. turn \in DOMAIN batch
    BY DEF RaceTypes
  <2> QED BY <2>1 DEF EventsInv, AllTruthful
<1>5. batch[turn] \in BoardEvent
  BY <1>1, BoardIs
<1>6. batch[turn].race \in Nat /\ batch[turn].race # 0 /\ batch[turn].state \in 1 .. 3
  BY <1>4, <1>5, ToldIs DEF Truthful, BoardEvent
<1> QED BY <1>3, <1>4, <1>5, <1>6 DEF NthOf, Nth

(* It goes to a new row if the last race is over, else to the last row.    *)
LEMMA RowIs ==
  ASSUME RaceTypes, EventsInv, QueueInv, RowsInv, UpsertEvent
  PROVE  LET L == Len(rows)
             state == batch[turn].state
         IN  \/ /\ RowFor(state) = 0 /\ state = 1
                /\ \A i \in DOMAIN rows : rows[i].state = 3
             \/ /\ RowFor(state) = L /\ rows # <<>> /\ rows[L].state # 3
                /\ state = rows[L].state + 1
<1> DEFINE L == Len(rows) e == batch[turn] s == e.state k == e.race t == rows[L].state
           open == {i \in DOMAIN rows : rows[i].state <= s}
<1>1. batch # <<>> /\ IsBoard(e) /\ row = 0
  BY HandledIs DEF UpsertEvent, Handling
<1>2. k \in Nat /\ k # 0 /\ s \in 1 .. 3 /\ Told + 1 = 3 * (k - 1) + s
  BY <1>1, FirstIs DEF NextNth
<1>3. /\ L \in Nat
      /\ rows # <<>> => L \in DOMAIN rows /\ t \in 1 .. 3 /\ L # 0 /\ Told = 3 * (L - 1) + t
      /\ rows = <<>> => Told = 0
      /\ \A i \in DOMAIN rows : i \in Nat /\ i <= L
  BY ToldIs
<1>4. \A i \in DOMAIN rows : i # L => rows[i].state = 3
  <2> TAKE i \in DOMAIN rows
  <2>1. i # L => i < L
    BY <1>3
  <2> QED BY <2>1 DEF RowsInv, Finished
<1>5. RowFor(s) = IF open = {} THEN 0 ELSE Max(open)
  BY DEF RowFor
<1>6. CASE rows = <<>>
  <2>1. s = 1
    <3> HIDE DEF k, s
    <3> QED BY <1>2, <1>3, <1>6
  <2>2. open = {} /\ \A i \in DOMAIN rows : rows[i].state = 3
    BY <1>6
  <2> QED BY <1>5, <2>1, <2>2
<1>7. CASE rows # <<>> /\ t = 3
  <2>1. s = 1
    <3> HIDE DEF k, s, t, L
    <3> QED BY <1>2, <1>3, <1>7
  <2>2. \A i \in DOMAIN rows : rows[i].state = 3
    BY <1>4, <1>7
  <2>3. open = {}
    BY <2>1, <2>2
  <2> QED BY <1>5, <2>1, <2>2, <2>3
<1>8. CASE rows # <<>> /\ t # 3
  <2>1. s = t + 1
    <3> HIDE DEF k, s, t, L
    <3> QED BY <1>2, <1>3, <1>8
  <2>2. L \in open
    BY <1>3, <1>8, <2>1
  <2>3. open \subseteq Nat /\ \A i \in open : i <= L
    BY <1>3
  <2>4. Max(open) = L
    <3> HIDE DEF open, L
    <3>1. Max(open) \in open /\ \A y \in open : y <= Max(open)
      <4>1. open # {}
        BY <2>2
      <4> QED BY <1>3, <2>3, <4>1, Largest
    <3>2. L <= Max(open) /\ Max(open) <= L
      BY <2>2, <2>3, <3>1
    <3>3. L \in Nat /\ Max(open) \in Nat
      BY <1>3, <2>3, <3>1
    <3> QED BY <3>2, <3>3
  <2>5. RowFor(s) = L
    BY <1>5, <2>2, <2>4
  <2> QED BY <1>8, <2>1, <2>5
<1> QED BY <1>6, <1>7, <1>8

(* What handling it does to the rows.                                      *)
LEMMA UpsertIs ==
  ASSUME RaceTypes, EventsInv, QueueInv, RowsInv, UpsertEvent
  PROVE  /\ row = 0 /\ row' # 0 /\ row' = Len(rows') /\ Told' = Told + 1
         /\ \/ /\ Len(rows') = Len(rows) + 1 /\ DOMAIN rows' = DOMAIN rows \cup {Len(rows) + 1}
               /\ \A i \in DOMAIN rows : rows'[i] = rows[i] /\ rows[i].state = 3
               /\ rows'[Len(rows) + 1].entry = [r \in Racer |-> NoEntry]
            \/ /\ Len(rows') = Len(rows) /\ DOMAIN rows' = DOMAIN rows /\ rows # <<>>
               /\ \A i \in DOMAIN rows : i # Len(rows) => rows'[i] = rows[i]
               /\ rows'[Len(rows)].entry = rows[Len(rows)].entry
               /\ rows[Len(rows)].state # 3
<1> DEFINE L == Len(rows) state == batch[turn].state found == RowFor(state)
<1>1. /\ L \in Nat /\ rows \in Seq(RaceRow) /\ row = 0
      /\ rows # <<>> => /\ L \in DOMAIN rows /\ L # 0 /\ rows[L].state \in 1 .. 3
                        /\ Told = 3 * (L - 1) + rows[L].state
      /\ rows = <<>> => Told = 0
  BY ToldIs DEF RaceTypes, UpsertEvent
<1>2. CASE found = 0 /\ state = 1 /\ \A i \in DOMAIN rows : rows[i].state = 3
  <2> DEFINE new == [state |-> state, moved |-> FALSE, entry |-> [r \in Racer |-> NoEntry]]
  <2>1. rows' = Append(rows, new) /\ row' = L + 1
    BY <1>2 DEF UpsertEvent
  <2>2. new \in RaceRow
    <3>1. state \in 1 .. 3
      BY <1>2
    <3>2. [r \in Racer |-> NoEntry] \in [Racer -> Entry]
      BY RaceAssumption DEF NoEntry, NoTime, Entry
    <3> QED BY <3>1, <3>2 DEF RaceRow
  <2>3. new.state = 1 /\ new.entry = [r \in Racer |-> NoEntry]
    BY <1>2
  <2> HIDE DEF new
  <2>4. /\ DOMAIN rows' = DOMAIN rows \cup {L + 1} /\ rows'[L + 1] = new
        /\ \A i \in DOMAIN rows : rows'[i] = rows[i]
        /\ Len(rows') = L + 1 /\ rows' # <<>>
    BY <1>1, <2>1, <2>2, AppendIs, AppendProperties
  <2>5. Told' = 3 * L + 1
    <3>1. Told' = Nth(L + 1, 1)
      BY <2>3, <2>4 DEF Told
    <3> QED BY <1>1, <3>1 DEF Nth
  <2>6. Told = 3 * L
    <3>1. rows # <<>> => rows[L].state = 3
      BY <1>1, <1>2
    <3>2. rows = <<>> => L = 0
      OBVIOUS
    <3> QED BY <1>1, <3>1, <3>2
  <2> QED BY <1>1, <1>2, <2>1, <2>3, <2>4, <2>5, <2>6
<1>3. CASE found = L /\ rows # <<>> /\ rows[L].state # 3 /\ state = rows[L].state + 1
  <2>1. rows' = [rows EXCEPT ![L].state = state, ![L].moved = rows[L].state # state]
        /\ row' = L
    BY <1>1, <1>3 DEF UpsertEvent
  <2>2. rows[L] \in RaceRow
    BY <1>1, <1>3
  <2> DEFINE new == [rows[L] EXCEPT !.state = state, !.moved = rows[L].state # state]
  <2>3. rows' = [rows EXCEPT ![L] = new]
    BY <2>1
  <2>4. new.state = state /\ new.entry = rows[L].entry
    BY <2>2 DEF RaceRow
  <2>5. new \in RaceRow
    <3>1. state \in 1 .. 3
      BY <1>1, <1>3
    <3> HIDE DEF state
    <3> QED BY <2>2, <3>1 DEF RaceRow
  <2> HIDE DEF new
  <2>6. /\ rows' \in Seq(RaceRow) /\ DOMAIN rows' = DOMAIN rows /\ Len(rows') = L
        /\ rows'[L] = new /\ \A i \in DOMAIN rows : i # L => rows'[i] = rows[i]
    BY <1>1, <1>3, <2>3, <2>5, ExceptInSeq
  <2>7. rows' # <<>>
    BY <1>1, <1>3, <2>6
  <2>8. Told' = Nth(L, state)
    BY <2>4, <2>6, <2>7 DEF Told
  <2>9. Told' = Told + 1
    BY <1>1, <1>3, <2>8 DEF Nth
  <2> QED BY <1>1, <1>3, <2>1, <2>4, <2>6, <2>9
<1> QED BY <1>2, <1>3, RowIs

(* The other events change entries only.                                   *)
LEMMA EntriesKeep ==
  ASSUME RaceTypes, UpsertEntries \/ RecordSection
  PROVE  /\ Len(rows') = Len(rows) /\ DOMAIN rows' = DOMAIN rows /\ Told' = Told
         /\ \A i \in DOMAIN rows : rows'[i].state = rows[i].state
         /\ UpsertEntries =>
              /\ row \in DOMAIN rows
              /\ \A i \in DOMAIN rows : i # row => rows'[i] = rows[i]
              /\ rows'[row].entry = [r \in Racer |-> UpsertEntry(rows[row].entry[r],
                                                                 batch[turn].board[r])]
         /\ RecordSection =>
              LET e == batch[turn] IN
              /\ \A i \in DOMAIN rows : i # 1 => rows'[i] = rows[i]
              /\ 1 \in DOMAIN rows /\ rows[1].entry[e.who].joined =>
                   rows'[1].entry = [rows[1].entry EXCEPT ![e.who].section = e.section,
                                                          ![e.who].time = e.time]
              /\ ~(1 \in DOMAIN rows /\ rows[1].entry[e.who].joined) => rows' = rows
<1>1. /\ rows \in Seq(RaceRow) /\ DOMAIN rows = 1 .. Len(rows) /\ Len(rows) \in Nat
      /\ rows # <<>> <=> 1 \in DOMAIN rows
  <2>1. rows \in Seq(RaceRow)
    BY DEF RaceTypes
  <2> QED BY <2>1
<1>2. ASSUME NEW m \in DOMAIN rows, NEW new, rows' = [rows EXCEPT ![m].entry = new]
      PROVE  /\ Len(rows') = Len(rows) /\ DOMAIN rows' = DOMAIN rows /\ Told' = Told
             /\ \A i \in DOMAIN rows : rows'[i].state = rows[i].state
             /\ \A i \in DOMAIN rows : i # m => rows'[i] = rows[i]
             /\ rows'[m].entry = new
  <2>1. \A i \in DOMAIN rows : rows[i] \in RaceRow
    BY <1>1
  <2>2. DOMAIN rows' = DOMAIN rows /\ \A i \in DOMAIN rows : i # m => rows'[i] = rows[i]
    BY <1>2
  <2>3. rows'[m] = [rows[m] EXCEPT !.entry = new]
    BY <1>2
  <2>4. rows'[m].entry = new /\ rows'[m].state = rows[m].state
    BY <2>1, <2>3 DEF RaceRow
  <2>5. rows' = [i \in DOMAIN rows |-> rows'[i]]
    BY <1>2
  <2>6. Len(rows') = Len(rows)
    BY <1>1, <2>2, <2>5
  <2>7. rows # <<>> /\ rows' # <<>> /\ Len(rows) \in DOMAIN rows
    BY <1>1, <2>2
  <2>8. \A i \in DOMAIN rows : rows'[i].state = rows[i].state
    BY <2>2, <2>4
  <2>9. Told' = Told
    BY <2>6, <2>7, <2>8 DEF Told
  <2> QED BY <2>2, <2>4, <2>6, <2>8, <2>9
<1>3. CASE UpsertEntries
  <2>1. row \in DOMAIN rows
    BY <1>3 DEF UpsertEntries, RaceTypes
  <2>2. rows' = [rows EXCEPT ![row].entry =
                  [r \in Racer |-> UpsertEntry(rows[row].entry[r], batch[turn].board[r])]]
    BY <1>3 DEF UpsertEntries
  <2>3. ~RecordSection
    BY <1>3, HandledIs DEF UpsertEntries, RecordSection, Handling
  <2> QED BY <1>2, <1>3, <2>1, <2>2, <2>3
<1>4. CASE RecordSection
  <2> DEFINE e == batch[turn]
  <2>1. ~UpsertEntries
    BY <1>4, HandledIs DEF UpsertEntries, RecordSection, Handling
  <2>2. CASE 1 \in DOMAIN rows /\ rows[1].entry[e.who].joined
    <3>1. rows' = [rows EXCEPT ![1].entry[e.who].section = e.section, ![1].entry[e.who].time = e.time]
      BY <1>1, <1>4, <2>2 DEF RecordSection
    <3>2. rows[1] \in RaceRow
      BY <1>1, <2>2
    <3> DEFINE new == [rows[1].entry EXCEPT ![e.who].section = e.section, ![e.who].time = e.time]
    <3>3. rows' = [rows EXCEPT ![1].entry = new]
      <4>1. e.who \in Racer
        BY <1>4, HandledIs, BoardIs DEF RecordSection, Handling, PassEvent
      <4> HIDE DEF e
      <4> QED BY <2>2, <3>1, <3>2, <4>1 DEF RaceRow, Entry
    <3> HIDE DEF new
    <3>4. /\ Len(rows') = Len(rows) /\ DOMAIN rows' = DOMAIN rows /\ Told' = Told
          /\ \A i \in DOMAIN rows : rows'[i].state = rows[i].state
          /\ \A i \in DOMAIN rows : i # 1 => rows'[i] = rows[i]
          /\ rows'[1].entry = new
      BY <1>2, <2>2, <3>3
    <3> QED BY <2>1, <2>2, <3>4 DEF new
  <2>3. CASE ~(1 \in DOMAIN rows /\ rows[1].entry[e.who].joined)
    <3>1. rows' = rows
      BY <1>1, <1>4, <2>3 DEF RecordSection
    <3> QED BY <2>1, <2>3, <3>1 DEF Told
  <2> QED BY <2>2, <2>3
<1> QED BY <1>3, <1>4

LEMMA QueueKept ==
  ASSUME RaceTypes, GameInv, EventsInv, FoundInv, QueueInv, RowsInv,
         RaceTypes', GameInv', RaceNext, ~BatchDies
  PROVE  QueueInv'
<1> DEFINE N == Nth(race.number, race.state)
<1>1. Queue \in Seq(GameEvents) /\ AllTruthful(Queue)
  BY QueueIs, TruthQueue
<1>2. N \in Int /\ NextNth \in Nat /\ Told \in Nat
  BY ToldIs
<1>3. CASE SetUp \/ Start \/ EndRace \/ \E r \in Racer : PassSection(r)
  <2>1. PICK e \in GameEvents : /\ wire' = Append(wire, e)
                                /\ IsBoard(e) <=> SetUp \/ Start \/ EndRace
                                /\ IsBoard(e) => NthOf(e) = N + 1 /\ NthOf(e) = N'
    BY <1>3, SentIs
  <2>2. UNCHANGED <<batch, turn, row, rows>>
    BY <1>3 DEF SetUp, Start, EndRace, PassSection, backend
  <2>3. Queue' = Append(Queue, e)
    BY <2>1, <2>2, QueueAppend
  <2>4. NextNth' = NextNth
    BY <2>2 DEF NextNth, Told
  <2>5. \A n \in TurnsOf(Queue) : n < N + 1
    BY <1>2 DEF QueueInv
  <2>6. /\ TurnsOf(Append(Queue, e)) = TurnsOf(Queue) \cup (IF IsBoard(e) THEN {NthOf(e)} ELSE {})
        /\ InTurn(Append(Queue, e))
    BY <1>1, <2>1, <2>5, TurnsAppend DEF QueueInv
  <2>7. /\ InTurn(Queue)'
        /\ TurnsOf(Queue)' = TurnsOf(Queue) \cup (IF IsBoard(e) THEN {NthOf(e)} ELSE {})
    BY <2>3, <2>6 DEF InTurn, TurnsOf
  <2>8. CASE IsBoard(e)
    <3>1. N' = N + 1 /\ TurnsOf(Queue)' = TurnsOf(Queue) \cup {N + 1}
      BY <2>1, <2>7, <2>8
    <3>2. TurnsOf(Queue) = NextNth .. N /\ NextNth <= N + 1
      BY DEF QueueInv
    <3> HIDE DEF N
    <3>3. TurnsOf(Queue)' = NextNth .. N + 1 /\ NextNth <= N + 1 + 1
      BY <1>2, <3>1, <3>2
    <3> QED BY <2>4, <2>7, <3>1, <3>3 DEF QueueInv, N
  <2>9. CASE ~IsBoard(e)
    <3>1. race' = race
      BY <1>3, <2>1, <2>9 DEF PassSection
    <3>2. TurnsOf(Queue)' = TurnsOf(Queue)
      BY <2>7, <2>9
    <3> QED BY <2>4, <2>7, <3>1, <3>2 DEF QueueInv
  <2> QED BY <2>8, <2>9
<1>4. CASE FetchBatch
  <2>1. Queue = wire /\ Queue' = Sorted(wire)
    BY <1>4, QueueFetch
  <2>2. InTurn(Sorted(wire)) /\ TurnsOf(Sorted(wire)) = TurnsOf(wire)
    BY <1>1, <2>1, TurnsSorted DEF QueueInv, AllTruthful
  <2>3. InTurn(Queue)' /\ TurnsOf(Queue)' = TurnsOf(Queue)
    BY <2>1, <2>2 DEF InTurn, TurnsOf
  <2>4. UNCHANGED <<race, row, rows>>
    BY <1>4 DEF FetchBatch
  <2>5. NextNth' = NextNth
    BY <2>4 DEF NextNth, Told
  <2> QED BY <2>3, <2>4, <2>5 DEF QueueInv
<1>5. CASE UpsertEvent
  <2>1. UNCHANGED <<race, batch, turn, wire>> /\ row = 0 /\ row' # 0 /\ Told' = Told + 1
    BY <1>5, UpsertIs DEF UpsertEvent
  <2>2. Queue' = Queue
    BY <2>1 DEF Queue
  <2>3. NextNth' = NextNth
    BY <2>1 DEF NextNth
  <2>4. InTurn(Queue)' /\ TurnsOf(Queue)' = TurnsOf(Queue)
    BY <2>2 DEF QueueInv, InTurn, TurnsOf
  <2> QED BY <2>1, <2>3, <2>4 DEF QueueInv
<1>6. ASSUME batch # <<>>, NextEvent, UNCHANGED <<wire, race>>, Told' = Told,
             row # 0 <=> IsBoard(batch[turn])
      PROVE  QueueInv'
  <2>1. Queue' = Tail(Queue) /\ Queue # <<>> /\ Queue[1] = batch[turn] /\ row' = 0
    BY <1>6, QueueNext, QueueIs DEF NextEvent
  <2>2. /\ InTurn(Tail(Queue))
        /\ TurnsOf(Tail(Queue)) = TurnsOf(Queue) \ (IF IsBoard(Queue[1]) THEN {NthOf(Queue[1])} ELSE {})
    BY <1>1, <2>1, TurnsTail DEF QueueInv
  <2>3. /\ InTurn(Queue)'
        /\ TurnsOf(Queue)' = TurnsOf(Queue) \ (IF IsBoard(batch[turn]) THEN {NthOf(batch[turn])} ELSE {})
    BY <2>1, <2>2 DEF InTurn, TurnsOf
  <2>4. NextNth' = Told + 1 /\ N' = N
    BY <1>6, <2>1 DEF NextNth
  <2>5. CASE IsBoard(batch[turn])
    <3>1. NthOf(batch[turn]) = NextNth /\ NextNth <= N
      BY <1>6, <2>5, FirstIs
    <3>2. NextNth = Told
      BY <1>6, <2>5 DEF NextNth
    <3>3. TurnsOf(Queue)' = (Told .. N) \ {Told}
      BY <2>3, <2>5, <3>1, <3>2 DEF QueueInv
    <3>4. (Told .. N) \ {Told} = Told + 1 .. N /\ Told + 1 <= N + 1
      <4> HIDE DEF N
      <4> QED BY <1>2, <3>1, <3>2
    <3> QED BY <2>3, <2>4, <3>3, <3>4 DEF QueueInv
  <2>6. CASE ~IsBoard(batch[turn])
    <3>1. NextNth = Told + 1 /\ TurnsOf(Queue)' = TurnsOf(Queue)
      BY <1>6, <2>3, <2>6 DEF NextNth
    <3> QED BY <2>3, <2>4, <3>1 DEF QueueInv
  <2> QED BY <2>5, <2>6
<1>7. CASE UpsertEntries
  <2>1. batch # <<>> /\ NextEvent /\ UNCHANGED <<wire, race>> /\ row # 0 /\ IsBoard(batch[turn])
    BY <1>7, HandledIs DEF UpsertEntries, Handling
  <2>2. Told' = Told
    BY <1>7, EntriesKeep
  <2> QED BY <1>6, <2>1, <2>2
<1>8. CASE RecordSection
  <2>1. batch # <<>> /\ NextEvent /\ UNCHANGED <<wire, race>> /\ ~IsBoard(batch[turn])
    BY <1>8, HandledIs DEF RecordSection, Handling
  <2>2. Told' = Told
    BY <1>8, EntriesKeep
  <2> QED BY <1>6, <2>1, <2>2 DEF FoundInv
<1>9. CASE GrantExp
  <2>1. UNCHANGED <<race, batch, turn, wire, row, rows>>
    BY <1>9 DEF GrantExp
  <2>2. Queue' = Queue /\ NextNth' = NextNth
    BY <2>1 DEF Queue, NextNth, Told
  <2>3. InTurn(Queue)' /\ TurnsOf(Queue)' = TurnsOf(Queue)
    BY <2>2 DEF QueueInv, InTurn, TurnsOf
  <2> QED BY <2>1, <2>2, <2>3 DEF QueueInv
<1> QED BY <1>3, <1>4, <1>5, <1>7, <1>8, <1>9 DEF RaceNext
-----------------------------------------------------------------------------
(* What is left of the sections that were passed, while no batch has died. *)
LEMMA LastAppend ==
  ASSUME NEW q \in Seq(GameEvents), NEW e \in GameEvents, NEW at, NEW to, LastComes(q, at),
         \A r \in Racer : IF IsPassOf(e, r) THEN e.section = to[r] ELSE to[r] = at[r]
  PROVE  LastComes(Append(q, e), to)
<1> DEFINE p == Append(q, e)
<1>1. /\ DOMAIN p = DOMAIN q \cup {Len(q) + 1} /\ Len(q) + 1 \notin DOMAIN q
      /\ p[Len(q) + 1] = e /\ \A i \in DOMAIN q : p[i] = q[i] /\ i \in Nat /\ i < Len(q) + 1
      /\ Len(q) \in Nat
  BY AppendIs
<1> HIDE DEF p
<1>2. SUFFICES ASSUME NEW r \in Racer, NEW i \in DOMAIN p, IsPassOf(p[i], r)
               PROVE  \E j \in DOMAIN p : i <= j /\ IsPassOf(p[j], r) /\ p[j].section = to[r]
  BY DEF LastComes, p
<1>3. CASE IsPassOf(e, r)
  <2>1. i <= Len(q) + 1
    BY <1>1
  <2> QED BY <1>1, <1>3, <2>1
<1>4. CASE ~IsPassOf(e, r)
  <2>1. i \in DOMAIN q /\ IsPassOf(q[i], r)
    BY <1>1, <1>2, <1>4
  <2>2. PICK j \in DOMAIN q : i <= j /\ IsPassOf(q[j], r) /\ q[j].section = at[r]
    BY <2>1 DEF LastComes
  <2> QED BY <1>1, <1>4, <2>2
<1> QED BY <1>3, <1>4

LEMMA LastKept ==
  ASSUME RaceTypes, GameInv, EventsInv, LastInv, RaceTypes', GameInv', RaceNext, ~BatchDies
  PROVE  LastInv'
<1>0. Queue \in Seq(GameEvents) /\ AllTruthful(Queue) /\ race.number \in Nat
  BY QueueIs, TruthQueue, ToldIs
<1>1. SUFFICES ASSUME race'.number = 1 PROVE LastComes(Queue', place')
  BY DEF LastInv, LastComes
<1>2. CASE SetUp \/ Start \/ EndRace \/ \E r \in Racer : PassSection(r)
  <2>1. PICK e \in GameEvents :
          /\ wire' = Append(wire, e)
          /\ IsBoard(e) <=> SetUp \/ Start \/ EndRace
          /\ ~IsBoard(e) => \E r \in Racer : /\ PassSection(r) /\ IsPassOf(e, r)
                                             /\ e.section = place'[r]
    BY <1>2, SentIs
  <2>2. UNCHANGED <<batch, turn>>
    BY <1>2 DEF SetUp, Start, EndRace, PassSection, backend
  <2>3. Queue' = Append(Queue, e)
    BY <2>1, <2>2, QueueAppend
  <2>4. CASE SetUp
    <3>1. race.number = 0
      BY <1>0, <1>1, <2>4 DEF SetUp
    <3>2. DOMAIN Queue = {}
      <4>1. ASSUME NEW i \in DOMAIN Queue PROVE FALSE
        <5>1. Queue[i].race \in 1 .. race.number
          BY <1>0, <4>1 DEF AllTruthful, Truthful
        <5> QED BY <3>1, <5>1
      <4> QED BY <4>1
    <3>3. LastComes(Queue, place')
      BY <3>2 DEF LastComes
    <3>4. \A r \in Racer : ~IsPassOf(e, r)
      BY <2>1, <2>4 DEF IsBoard, IsPassOf
    <3>5. LastComes(Append(Queue, e), place')
      BY <1>0, <3>3, <3>4, LastAppend
    <3> QED BY <2>3, <3>5
  <2>5. CASE Start \/ EndRace
    <3>1. place' = place /\ race.number = 1
      BY <1>1, <2>5 DEF Start, EndRace, RaceTypes
    <3>2. \A r \in Racer : ~IsPassOf(e, r)
      BY <2>1, <2>5 DEF IsBoard, IsPassOf
    <3>3. LastComes(Append(Queue, e), place)
      BY <1>0, <3>1, <3>2, LastAppend DEF LastInv
    <3> QED BY <2>3, <3>1, <3>3
  <2>6. CASE ~(SetUp \/ Start \/ EndRace)
    <3>1. PICK r \in Racer : PassSection(r) /\ IsPassOf(e, r) /\ e.section = place'[r]
      BY <2>1, <2>6
    <3>2. race.number = 1
      BY <1>1, <3>1 DEF PassSection
    <3>3. \A x \in Racer : IF IsPassOf(e, x) THEN e.section = place'[x] ELSE place'[x] = place[x]
      <4> TAKE x \in Racer
      <4>1. x = r <=> IsPassOf(e, x)
        BY <3>1 DEF IsPassOf
      <4>2. x # r => place'[x] = place[x]
        BY <3>1 DEF PassSection, RaceTypes
      <4> QED BY <3>1, <4>1, <4>2
    <3>4. LastComes(Append(Queue, e), place')
      BY <1>0, <3>2, <3>3, LastAppend DEF LastInv
    <3> QED BY <2>3, <3>4
  <2> QED BY <2>4, <2>5, <2>6
<1>3. CASE FetchBatch
  <2>1. Queue = wire /\ Queue' = Sorted(wire) /\ race' = race /\ place' = place
    BY <1>3, QueueFetch DEF FetchBatch
  <2>2. LastComes(Sorted(Queue), place)
    BY <1>0, <1>1, <2>1, LastSorted DEF LastInv
  <2> QED BY <2>1, <2>2
<1>4. CASE UpsertEvent \/ GrantExp
  <2>1. UNCHANGED <<race, place, batch, turn, wire>>
    BY <1>4 DEF UpsertEvent, GrantExp
  <2>2. Queue' = Queue
    BY <2>1 DEF Queue
  <2> QED BY <1>1, <2>1, <2>2 DEF LastInv
<1>5. CASE UpsertEntries \/ RecordSection
  <2>1. UNCHANGED <<race, place, wire>> /\ batch # <<>> /\ NextEvent
    BY <1>5 DEF UpsertEntries, RecordSection, Handling
  <2>2. Queue' = Tail(Queue) /\ Queue # <<>>
    BY <2>1, QueueNext, QueueIs
  <2>3. LastComes(Tail(Queue), place)
    BY <1>0, <1>1, <2>1, <2>2, LastTail DEF LastInv
  <2> QED BY <2>1, <2>2, <2>3
<1> QED BY <1>2, <1>3, <1>4, <1>5 DEF RaceNext
-----------------------------------------------------------------------------
(* The rows, while no batch has died.                                      *)
LEMMA PendingKept ==
  ASSUME NEW q \in Seq(GameEvents), NEW r, ToCome(q, r)
  PROVE  /\ \A e \in GameEvents : ToCome(Append(q, e), r)
         /\ ToCome(Sorted(q), r)
         /\ q # <<>> /\ ~IsPassOf(q[1], r) => ToCome(Tail(q), r)
<1>1. PICK k \in DOMAIN q : IsPassOf(q[k], r)
  BY DEF ToCome
<1>2. \A e \in GameEvents : ToCome(Append(q, e), r)
  BY <1>1, AppendIs DEF ToCome
<1>3. ToCome(Sorted(q), r)
  <2>1. PICK f : Reorders(q, Sorted(q), f)
    BY SortedIs
  <2>2. DOMAIN Sorted(q) = DOMAIN q
    BY SortedIs
  <2>3. PICK n \in DOMAIN q : f[n] = k
    BY <2>1 DEF Reorders
  <2>4. Sorted(q)[n] = q[k]
    BY <2>1, <2>3 DEF Reorders
  <2> QED BY <1>1, <2>2, <2>4 DEF ToCome
<1>4. ASSUME q # <<>>, ~IsPassOf(q[1], r) PROVE ToCome(Tail(q), r)
  <2>1. k # 1
    BY <1>1, <1>4
  <2>2. k - 1 \in DOMAIN Tail(q) /\ Tail(q)[k - 1] = q[k]
    BY <1>4, <2>1, TailIs
  <2> QED BY <1>1, <2>2 DEF ToCome
<1> QED BY <1>2, <1>3, <1>4

(* A complete row is that of a race that has ended.                        *)
LEMMA CompleteIs ==
  ASSUME RaceTypes, GameInv, EventsInv, QueueInv, RowsInv, NEW i \in DOMAIN rows, Complete(i)
  PROVE  i \in DOMAIN standings
<1> DEFINE L == Len(rows) t == rows[L].state n == race.number s == race.state
<1>1. L \in DOMAIN rows /\ t \in 1 .. 3 /\ i \in Nat /\ i # 0 /\ i <= L /\ L \in Nat
      /\ Told = 3 * (L - 1) + t /\ n \in Nat /\ s \in 1 .. 3
  BY ToldIs
<1>2. NextNth <= 3 * (n - 1) + s + 1
  BY DEF QueueInv, Nth
<1>3. NextNth = IF row = 0 THEN Told + 1 ELSE Told
  BY DEF NextNth
<1>4. i < L \/ (i = L /\ t = 3 /\ row = 0)
  <2>1. i = L => t = 3 /\ row = 0
    BY DEF Complete, Finished, RowsInv
  <2> QED BY <1>1, <2>1
<1>5. Len(standings) = IF s = 3 THEN n ELSE n - 1
  BY DEF GameInv, Finished
<1>6. Len(standings) \in Nat /\ DOMAIN standings = 1 .. Len(standings)
  BY DEF RaceTypes
<1> HIDE DEF L, t, n, s
<1>7. i <= Len(standings)
  BY <1>1, <1>2, <1>3, <1>4, <1>5
<1> QED BY <1>1, <1>6, <1>7

LEMMA RowsGame ==
  ASSUME RaceTypes, GameInv, EventsInv, QueueInv, RowsInv, RaceTypes', GameInv',
         SetUp \/ Start \/ EndRace \/ \E r \in Racer : PassSection(r)
  PROVE  RowsInv'
<1>1. UNCHANGED <<batch, turn, row, rows>>
  BY DEF SetUp, Start, EndRace, PassSection, backend
<1>2. \A k \in DOMAIN standings : standings'[k] = standings[k]
  <2>1. standings' = standings \/ standings' = Append(standings, place)
    BY DEF SetUp, Start, EndRace, PassSection
  <2>2. place \in [Racer -> 0 .. Goal] /\ standings \in Seq([Racer -> 0 .. Goal])
    BY DEF RaceTypes
  <2> QED BY <2>1, <2>2, AppendIs
<1>3. PICK e \in GameEvents : wire' = Append(wire, e)
  BY SentIs
<1>4. Queue' = Append(Queue, e) /\ Queue \in Seq(GameEvents)
  BY <1>1, <1>3, QueueAppend, QueueIs
<1>5. ASSUME NEW i \in DOMAIN rows, NEW r \in Racer PROVE EntryIs(i, r)'
  <2>1. EntryIs(i, r)
    BY DEF RowsInv
  <2>2. Complete(i)' <=> Complete(i)
    BY <1>1 DEF Complete
  <2>3. CASE Complete(i)
    <3>1. i \in DOMAIN standings /\ standings'[i] = standings[i]
      BY <1>2, <2>3, CompleteIs
    <3>2. Shows(i, r)' <=> Shows(i, r)
      BY <1>1, <3>1 DEF Shows
    <3>3. race'.number = 1 => race.number = 1
      <4>1. race.number # 0
        BY <3>1 DEF RaceTypes, GameInv
      <4>2. race.number \in Nat /\ race = [number |-> race.number, state |-> race.state]
        BY DEF RaceTypes
      <4>3. CASE SetUp
        BY <4>1, <4>2, <4>3 DEF SetUp
      <4>4. CASE Start \/ EndRace \/ \E x \in Racer : PassSection(x)
        BY <4>2, <4>4 DEF Start, EndRace, PassSection
      <4> QED BY <4>3, <4>4
    <3>4. ToCome(Queue, r) => ToCome(Queue', r)
      BY <1>4, PendingKept
    <3>5. ToCome(Queue', r) <=> ToCome(Queue, r)'
      BY DEF ToCome
    <3> QED BY <1>1, <2>1, <2>2, <2>3, <3>1, <3>2, <3>3, <3>4, <3>5 DEF EntryIs
  <2>4. CASE ~Complete(i)
    BY <1>1, <2>1, <2>2, <2>4 DEF EntryIs
  <2> QED BY <2>3, <2>4
<1>6. \A i \in DOMAIN rows : i < Len(rows) => rows[i].state = Finished
  BY DEF RowsInv
<1>7. row # 0 => row = Len(rows)
  BY DEF RowsInv
<1>8. (\A i \in DOMAIN rows : \A r \in Racer : EntryIs(i, r))'
  BY <1>1, <1>5
<1> QED BY <1>1, <1>6, <1>7, <1>8 DEF RowsInv

LEMMA RowsUpsert ==
  ASSUME RaceTypes, EventsInv, QueueInv, RowsInv, UpsertEvent
  PROVE  RowsInv'
<1>1. UNCHANGED <<race, batch, turn, wire, standings>>
  BY DEF UpsertEvent
<1>2. Queue' = Queue
  BY <1>1 DEF Queue
<1>3. row = 0 /\ row' # 0 /\ row' = Len(rows') /\ Len(rows) \in Nat
  BY UpsertIs DEF RaceTypes
<1>4. \A i \in DOMAIN rows : i \in Nat /\ i <= Len(rows) /\ i # 0
  BY ToldIs
<1>5. ASSUME NEW i \in DOMAIN rows, NEW r \in Racer, rows'[i] = rows[i], i # Len(rows')
      PROVE  EntryIs(i, r)'
  <2>1. EntryIs(i, r)
    BY DEF RowsInv
  <2>2. Complete(i)' <=> Complete(i)
    BY <1>3, <1>4, <1>5 DEF Complete
  <2>3. (Shows(i, r)' <=> Shows(i, r)) /\ (ToCome(Queue, r)' <=> ToCome(Queue, r))
    BY <1>1, <1>2, <1>5 DEF Shows, ToCome
  <2> QED BY <1>1, <1>5, <2>1, <2>2, <2>3 DEF EntryIs
<1>6. CASE /\ Len(rows') = Len(rows) + 1 /\ DOMAIN rows' = DOMAIN rows \cup {Len(rows) + 1}
           /\ \A i \in DOMAIN rows : rows'[i] = rows[i] /\ rows[i].state = 3
           /\ rows'[Len(rows) + 1].entry = [r \in Racer |-> NoEntry]
  <2>1. \A i \in DOMAIN rows' : i < Len(rows') => rows'[i].state = Finished
    BY <1>3, <1>6 DEF Finished
  <2>2. ASSUME NEW i \in DOMAIN rows', NEW r \in Racer PROVE EntryIs(i, r)'
    <3>1. CASE i \in DOMAIN rows
      <4>1. i # Len(rows')
        BY <1>3, <1>4, <1>6, <3>1
      <4> QED BY <1>5, <1>6, <3>1, <4>1
    <3>2. CASE i = Len(rows) + 1
      <4>1. ~Complete(i)' /\ rows'[i].entry[r].finished = FALSE
        BY <1>3, <1>6, <3>2 DEF Complete, NoEntry
      <4> QED BY <4>1 DEF EntryIs
    <3> QED BY <1>6, <3>1, <3>2
  <2> QED BY <1>3, <2>1, <2>2 DEF RowsInv
<1>7. CASE /\ Len(rows') = Len(rows) /\ DOMAIN rows' = DOMAIN rows /\ rows # <<>>
           /\ \A i \in DOMAIN rows : i # Len(rows) => rows'[i] = rows[i]
           /\ rows'[Len(rows)].entry = rows[Len(rows)].entry
           /\ rows[Len(rows)].state # 3
  <2>1. \A i \in DOMAIN rows' : i < Len(rows') => rows'[i].state = Finished
    BY <1>3, <1>4, <1>7 DEF RowsInv
  <2>2. ASSUME NEW i \in DOMAIN rows', NEW r \in Racer PROVE EntryIs(i, r)'
    <3>1. CASE i # Len(rows)
      BY <1>5, <1>7, <3>1
    <3>2. CASE i = Len(rows)
      <4>1. EntryIs(i, r) /\ ~Complete(i) /\ ~Complete(i)'
        BY <1>3, <1>7, <2>2, <3>2 DEF RowsInv, Complete, Finished
      <4> QED BY <1>7, <3>2, <4>1 DEF EntryIs
    <3> QED BY <3>1, <3>2
  <2> QED BY <1>3, <2>1, <2>2 DEF RowsInv
<1> QED BY <1>6, <1>7, UpsertIs

LEMMA RowsEntries ==
  ASSUME RaceTypes, GameInv, EventsInv, FoundInv, QueueInv, RowsInv, UpsertEntries
  PROVE  RowsInv'
<1> DEFINE e == batch[turn] L == Len(rows)
<1>1. batch # <<>> /\ IsBoard(e) /\ row # 0 /\ NextEvent /\ UNCHANGED <<race, wire, standings>>
  BY HandledIs DEF UpsertEntries, Handling
<1>2. row = L /\ L \in DOMAIN rows /\ rows[L].state = e.state /\ row' = 0 /\ L \in Nat
  BY <1>1, EntriesKeep, ToldIs DEF RowsInv, FoundInv, NextEvent
<1>3. /\ Len(rows') = L /\ DOMAIN rows' = DOMAIN rows
      /\ \A i \in DOMAIN rows : rows'[i].state = rows[i].state
      /\ \A i \in DOMAIN rows : i # L => rows'[i] = rows[i]
      /\ rows'[L].entry = [r \in Racer |-> UpsertEntry(rows[L].entry[r], e.board[r])]
  BY <1>2, EntriesKeep
<1>4. Queue' = Tail(Queue) /\ Queue # <<>> /\ Queue[1] = e /\ Queue \in Seq(GameEvents)
      /\ e \in GameEvents
  BY <1>1, QueueNext, QueueIs, HandledIs
<1>5. e.race = L
  <2> DEFINE k == e.race s == e.state
  <2>1. k \in Nat /\ s \in 1 .. 3 /\ Told = 3 * (k - 1) + s
    BY <1>1, FirstIs DEF NextNth
  <2>2. Told = 3 * (L - 1) + s
    BY <1>2, ToldIs
  <2> HIDE DEF k, s, L
  <2>3. k = L
    BY <1>2, <2>1, <2>2
  <2> QED BY <2>3 DEF k
<1>6. e.board = Board(L, IF e.state = Finished THEN standings[L] ELSE [r \in Racer |-> 0])
  BY <1>1, <1>5, FirstIs DEF Truthful
<1>7. ASSUME NEW r \in Racer PROVE EntryIs(L, r)'
  <2>1. ~rows[L].entry[r].finished
    BY <1>2 DEF RowsInv, EntryIs, Complete
  <2>2. rows'[L].entry[r] = [joined |-> TRUE, section |-> e.board[r].section,
                             time |-> e.board[r].time, finished |-> e.board[r].finished]
    BY <1>3, <2>1 DEF UpsertEntry
  <2>3. Complete(L)' <=> e.state = Finished
    BY <1>2, <1>3 DEF Complete
  <2>4. CASE e.state = Finished
    <3>1. e.board[r] = [section |-> standings[L][r], time |-> Time(L, standings[L][r]),
                        finished |-> standings[L][r] = Goal]
      BY <1>6, <2>4 DEF Board
    <3>2. /\ rows'[L].entry[r].joined /\ rows'[L].entry[r].section = standings[L][r]
          /\ rows'[L].entry[r].time = Time(L, standings[L][r])
          /\ rows'[L].entry[r].finished = (standings[L][r] = Goal)
      BY <2>2, <3>1
    <3>3. Shows(L, r)'
      BY <1>1, <1>3, <3>2 DEF Shows
    <3> QED BY <1>1, <1>3, <2>3, <2>4, <3>2, <3>3 DEF EntryIs
  <2>5. CASE e.state # Finished
    <3>1. 0 # Goal
      BY RaceAssumption
    <3>2. e.board[r].finished = (0 = Goal)
      BY <1>6, <2>5 DEF Board
    <3>3. rows'[L].entry[r].finished = (0 = Goal)
      BY <2>2, <3>2
    <3>4. ~rows'[L].entry[r].finished
      BY <3>1, <3>3, Zenon
    <3> QED BY <1>3, <2>3, <2>5, <3>4 DEF EntryIs
  <2> QED BY <2>4, <2>5
<1>8. ASSUME NEW i \in DOMAIN rows, NEW r \in Racer, i # L PROVE EntryIs(i, r)'
  <2>1. EntryIs(i, r) /\ rows'[i] = rows[i]
    BY <1>3, <1>8 DEF RowsInv
  <2>2. Complete(i)' <=> Complete(i)
    <3>1. i # 0
      BY ToldIs
    <3> QED BY <1>2, <1>8, <2>1, <3>1 DEF Complete
  <2>3. Shows(i, r)' <=> Shows(i, r)
    BY <1>1, <2>1 DEF Shows
  <2>4. ToCome(Queue, r) => ToCome(Queue, r)'
    <3>1. ~IsPassOf(Queue[1], r)
      BY <1>1, <1>4 DEF IsBoard, IsPassOf
    <3>2. ToCome(Queue, r) => ToCome(Tail(Queue), r)
      BY <1>4, <3>1, PendingKept
    <3> QED BY <1>4, <3>2 DEF ToCome
  <2> QED BY <1>1, <2>1, <2>2, <2>3, <2>4 DEF EntryIs
<1>9. \A i \in DOMAIN rows : i < L => rows[i].state = Finished
  BY DEF RowsInv
<1> QED BY <1>2, <1>3, <1>7, <1>8, <1>9 DEF RowsInv

LEMMA RowsRecord ==
  ASSUME RaceTypes, GameInv, EventsInv, FoundInv, LastInv, QueueInv, RowsInv, RecordSection
  PROVE  RowsInv'
<1> DEFINE e == batch[turn]
<1>1. batch # <<>> /\ ~IsBoard(e) /\ NextEvent /\ UNCHANGED <<race, place, wire, standings>>
  BY HandledIs DEF RecordSection, Handling
<1>2. row = 0 /\ row' = 0 /\ e \in PassEvent /\ e.hook = "pass"
  BY <1>1, HandledIs, BoardIs DEF FoundInv, NextEvent
<1>3. /\ Len(rows') = Len(rows) /\ DOMAIN rows' = DOMAIN rows
      /\ \A i \in DOMAIN rows : rows'[i].state = rows[i].state
      /\ \A i \in DOMAIN rows : i # 1 => rows'[i] = rows[i]
      /\ 1 \in DOMAIN rows /\ rows[1].entry[e.who].joined =>
           rows'[1].entry = [rows[1].entry EXCEPT ![e.who].section = e.section,
                                                  ![e.who].time = e.time]
      /\ ~(1 \in DOMAIN rows /\ rows[1].entry[e.who].joined) => rows' = rows
  BY EntriesKeep
<1>4. Queue' = Tail(Queue) /\ Queue # <<>> /\ Queue[1] = e /\ Queue \in Seq(GameEvents)
      /\ e \in GameEvents
  BY <1>1, QueueNext, QueueIs, HandledIs
<1>5. \A i \in DOMAIN rows : Complete(i)' <=> Complete(i)
  BY <1>2, <1>3 DEF Complete
<1>6. \A r \in Racer : r # e.who /\ ToCome(Queue, r) => ToCome(Queue, r)'
  <2> TAKE r \in Racer
  <2>1. r # e.who => ~IsPassOf(Queue[1], r)
    BY <1>4 DEF IsPassOf
  <2>2. r # e.who /\ ToCome(Queue, r) => ToCome(Tail(Queue), r)
    BY <1>4, <2>1, PendingKept
  <2> QED BY <1>4, <2>2 DEF ToCome
<1>7. ASSUME NEW i \in DOMAIN rows, NEW r \in Racer, i # 1 PROVE EntryIs(i, r)'
  <2>1. EntryIs(i, r) /\ rows'[i] = rows[i]
    BY <1>3, <1>7 DEF RowsInv
  <2>2. Shows(i, r)' <=> Shows(i, r)
    BY <1>1, <2>1 DEF Shows
  <2> QED BY <1>1, <1>5, <1>7, <2>1, <2>2 DEF EntryIs
<1>8. ASSUME 1 \in DOMAIN rows, NEW r \in Racer PROVE EntryIs(1, r)'
  <2>1. EntryIs(1, r) /\ rows[1].entry \in [Racer -> Entry]
    <3>1. rows[1] \in RaceRow
      BY <1>8, ToldIs
    <3> QED BY <1>8, <3>1 DEF RowsInv, RaceRow
  <2>2. /\ rows'[1].entry[r].joined = rows[1].entry[r].joined
        /\ rows'[1].entry[r].finished = rows[1].entry[r].finished
        /\ r # e.who => rows'[1].entry[r] = rows[1].entry[r]
        /\ r = e.who /\ rows[1].entry[r].joined =>
             rows'[1].entry[r].section = e.section /\ rows'[1].entry[r].time = e.time
    <3>1. rows[1].entry[r] \in Entry
      BY <2>1
    <3>2. CASE rows[1].entry[e.who].joined
      <4>1. e.who \in Racer
        BY <1>2 DEF PassEvent
      <4>2. rows'[1].entry = [rows[1].entry EXCEPT ![e.who].section = e.section,
                                                   ![e.who].time = e.time]
        BY <1>3, <1>8, <3>2
      <4> DEFINE old == rows[1].entry new == rows'[1].entry
      <4>3. /\ old \in [Racer -> Entry] /\ old[r] \in Entry
            /\ new = [old EXCEPT ![e.who].section = e.section, ![e.who].time = e.time]
        BY <2>1, <3>1, <4>2
      <4> HIDE DEF e, old, new
      <4>4. /\ new[r].joined = old[r].joined /\ new[r].finished = old[r].finished
            /\ r # e.who => new[r] = old[r]
            /\ r = e.who => new[r].section = e.section /\ new[r].time = e.time
        BY <4>1, <4>3 DEF Entry
      <4> QED BY <4>4 DEF old, new
    <3>3. CASE ~rows[1].entry[e.who].joined
      BY <1>3, <3>3
    <3> QED BY <3>2, <3>3
  <2>3. CASE ~Complete(1)
    BY <1>5, <1>8, <2>1, <2>2, <2>3 DEF EntryIs
  <2>4. ASSUME Complete(1), race.number = 1 PROVE Shows(1, r)' \/ ToCome(Queue, r)'
    <3>1. rows[1].entry[r].joined /\ (Shows(1, r) \/ ToCome(Queue, r))
      BY <2>1, <2>4 DEF EntryIs
    <3>2. CASE r # e.who
      <4>1. Shows(1, r)' <=> Shows(1, r)
        BY <1>1, <2>2, <3>2 DEF Shows
      <4> QED BY <1>6, <3>1, <3>2, <4>1
    <3>3. CASE r = e.who
      <4>1. IsPassOf(Queue[1], r) /\ LastComes(Queue, place)
        BY <1>2, <1>4, <2>4, <3>3 DEF IsPassOf, LastInv
      <4>2. e.section = place[r] \/ ToCome(Tail(Queue), r)
        BY <1>4, <4>1, LastTail DEF ToCome
      <4>3. place = standings[1]
        <5>1. 1 \in DOMAIN standings
          BY <1>8, <2>4, CompleteIs
        <5>2. race.state = Finished
          BY <2>4, <5>1 DEF GameInv, RaceTypes
        <5> QED BY <2>4, <5>2 DEF GameInv
      <4>4. e.time = Time(1, e.section)
        <5>1. Truthful(e)
          <6>1. turn \in DOMAIN batch
            BY <1>1 DEF RaceTypes
          <6> QED BY <6>1 DEF EventsInv, AllTruthful
        <5>2. e.race \in 1 .. 1 /\ e.time = Time(e.race, e.section)
          BY <1>1, <2>4, <5>1 DEF Truthful
        <5> QED BY <5>2
      <4>5. CASE e.section = place[r]
        BY <1>1, <2>2, <3>1, <3>3, <4>3, <4>4, <4>5 DEF Shows
      <4>6. CASE ToCome(Tail(Queue), r)
        BY <1>4, <4>6 DEF ToCome
      <4> QED BY <4>2, <4>5, <4>6
    <3> QED BY <3>2, <3>3
  <2>5. CASE Complete(1)
    BY <1>1, <1>5, <1>8, <2>1, <2>2, <2>4, <2>5 DEF EntryIs
  <2> QED BY <2>3, <2>5
<1>9. \A i \in DOMAIN rows : i < Len(rows) => rows[i].state = Finished
  BY DEF RowsInv
<1> QED BY <1>2, <1>3, <1>7, <1>8, <1>9 DEF RowsInv

LEMMA RowsKept ==
  ASSUME RaceTypes, GameInv, EventsInv, FoundInv, QueueInv, RowsInv, LastInv,
         RaceTypes', GameInv', RaceNext, ~BatchDies
  PROVE  RowsInv'
<1>1. CASE FetchBatch
  <2>1. Queue = wire /\ Queue' = Sorted(Queue) /\ Queue \in Seq(GameEvents)
        /\ UNCHANGED <<race, row, rows, standings>>
    BY <1>1, QueueFetch, QueueIs DEF FetchBatch
  <2>2. ASSUME NEW i \in DOMAIN rows, NEW r \in Racer PROVE EntryIs(i, r)'
    <3>1. EntryIs(i, r)
      BY DEF RowsInv
    <3>2. (Complete(i)' <=> Complete(i)) /\ (Shows(i, r)' <=> Shows(i, r))
      BY <2>1 DEF Complete, Shows
    <3>3. ToCome(Queue, r) => ToCome(Queue, r)'
      <4>1. ToCome(Queue, r) => ToCome(Sorted(Queue), r)
        BY <2>1, PendingKept
      <4> QED BY <2>1, <4>1 DEF ToCome
    <3> QED BY <2>1, <3>1, <3>2, <3>3 DEF EntryIs
  <2> QED BY <2>1, <2>2 DEF RowsInv
<1>2. CASE GrantExp
  <2>1. UNCHANGED <<race, batch, turn, wire, row, rows, standings>>
    BY <1>2 DEF GrantExp
  <2>2. Queue' = Queue
    BY <2>1 DEF Queue
  <2>3. ASSUME NEW i \in DOMAIN rows, NEW r \in Racer PROVE EntryIs(i, r)'
    BY <2>1, <2>2 DEF RowsInv, EntryIs, Complete, Shows, ToCome
  <2> QED BY <2>1, <2>3 DEF RowsInv
<1>3. CASE SetUp \/ Start \/ EndRace \/ \E r \in Racer : PassSection(r)
  BY <1>3, RowsGame
<1>4. CASE UpsertEvent
  BY <1>4, RowsUpsert
<1>5. CASE UpsertEntries
  BY <1>5, RowsEntries
<1>6. CASE RecordSection
  BY <1>6, RowsRecord
<1> QED BY <1>1, <1>2, <1>3, <1>4, <1>5, <1>6 DEF RaceNext

LEMMA InitRaces == RaceInit => RaceInv
<1> SUFFICES ASSUME RaceInit PROVE RaceInv
  OBVIOUS
<1>1. RaceTypes
  BY InitTypes
<1>2. /\ race.number = 0 /\ race.state = 3 /\ wire = <<>> /\ batch = <<>> /\ row = 0 /\ rows = <<>>
      /\ prizes = <<>> /\ exp = [r \in Racer |-> 0] /\ deaths = 0 /\ standings = <<>>
  BY DEF RaceInit, Finished
<1>3. GameInv
  BY <1>2 DEF GameInv, Finished, Ready
<1>4. EventsInv /\ FoundInv
  BY <1>2 DEF EventsInv, FoundInv, AllTruthful
<1>5. Queue = <<>> /\ batch \o wire = <<>>
  BY <1>2 DEF Queue
<1>6. EndsOnce(<<>>) /\ EndsOf(<<>>) = {}
  BY DEF EndsOnce, EndsOf
<1>7. RewardInv
  <2>1. Cardinality(EndsOf(Queue)) = 0
    BY <1>5, <1>6, FS_EmptySet
  <2>2. \A r \in Racer : exp[r] + Len(prizes) + 0 <= Len(standings) * (1 + deaths)
    BY <1>2
  <2> QED BY <1>5, <1>6, <2>1, <2>2 DEF RewardInv
<1>8. InTurn(<<>>) /\ TurnsOf(<<>>) = {} /\ LastComes(<<>>, place)
  BY DEF InTurn, TurnsOf, LastComes
<1>9. Nth(race.number, race.state) = 0 /\ NextNth = 1
  BY <1>2 DEF Nth, NextNth, Told
<1>10. QueueInv
  <2>1. 1 .. 0 = {} /\ 1 <= 0 + 1
    OBVIOUS
  <2> QED BY <1>5, <1>8, <1>9, <2>1 DEF QueueInv
<1>11. RowsInv /\ LastInv
  BY <1>2, <1>5, <1>8 DEF RowsInv, LastInv
<1> QED BY <1>1, <1>3, <1>4, <1>7, <1>10, <1>11 DEF RaceInv, OrderInv

LEMMA RacesStep == RaceInv /\ [RaceNext]_raceVars => RaceInv'
<1>1. ASSUME RaceInv, RaceNext PROVE RaceInv'
  <2>1. RaceTypes /\ GameInv /\ EventsInv /\ FoundInv /\ RewardInv /\ OrderInv
    BY <1>1 DEF RaceInv
  <2>2. RaceTypes'
    BY <1>1, <2>1, GameTypes, ProgramTypes DEF RaceNext
  <2>3. GameInv'
    BY <1>1, <2>1, GameKept
  <2>4. EventsInv' /\ FoundInv'
    BY <1>1, <2>1, <2>2, <2>3, EventsKept, FoundKept
  <2>5. RewardInv'
    BY <1>1, <2>1, <2>2, <2>3, <2>4, RewardKept
  <2>6. OrderInv'
    <3>1. CASE BatchDies
      <4>1. deaths' # 0
        BY <2>1, <3>1 DEF BatchDies, RaceTypes
      <4> QED BY <4>1 DEF OrderInv
    <3>2. CASE ~BatchDies
      <4>1. deaths' = deaths
        BY <1>1, <3>2 DEF RaceNext, SetUp, Start, EndRace, PassSection, backend, FetchBatch,
                          UpsertEvent, UpsertEntries, RecordSection, GrantExp
      <4>2. CASE deaths = 0
        <5>1. QueueInv /\ RowsInv /\ LastInv
          BY <2>1, <4>2 DEF OrderInv
        <5>2. QueueInv' /\ RowsInv' /\ LastInv'
          BY <1>1, <2>1, <2>2, <2>3, <3>2, <5>1, QueueKept, RowsKept, LastKept
        <5> QED BY <5>2 DEF OrderInv
      <4>3. CASE deaths # 0
        BY <4>1, <4>3 DEF OrderInv
      <4> QED BY <4>2, <4>3
    <3> QED BY <3>1, <3>2
  <2> QED BY <2>2, <2>3, <2>4, <2>5, <2>6 DEF RaceInv
<1>2. ASSUME RaceInv, UNCHANGED raceVars PROVE RaceInv'
  <2>1. UNCHANGED <<race, place, wire, batch, turn, row, rows, prizes, exp, deaths, standings>>
    BY <1>2 DEF raceVars
  <2>2. Queue' = Queue /\ (batch \o wire)' = batch \o wire
    BY <2>1 DEF Queue
  <2>3. RaceTypes' /\ GameInv'
    BY <1>2, <2>1 DEF RaceInv, RaceTypes, GameInv
  <2>4. EventsInv' /\ FoundInv'
    BY <1>2, <2>1 DEF RaceInv, EventsInv, AllTruthful, Truthful, FoundInv, IsBoard
  <2>5. RewardInv'
    BY <1>2, <2>1, <2>2 DEF RaceInv, RewardInv, EndsOnce, EndsOf
  <2>6. QueueInv => QueueInv'
    BY <2>1, <2>2 DEF QueueInv, NextNth, Told, InTurn, TurnsOf
  <2>7. RowsInv => RowsInv'
    BY <2>1, <2>2 DEF RowsInv, EntryIs, Complete, Shows, ToCome
  <2>8. LastInv => LastInv'
    BY <2>1, <2>2 DEF LastInv, LastComes
  <2> QED BY <1>2, <2>1, <2>3, <2>4, <2>5, <2>6, <2>7, <2>8 DEF RaceInv, OrderInv
<1> QED BY <1>1, <1>2

LEMMA RacesFollow == RaceInv => RacesAreKept
<1> SUFFICES ASSUME RaceInv PROVE RacesAreKept
  OBVIOUS
<1>0. RaceTypes /\ GameInv /\ EventsInv /\ RewardInv
  BY DEF RaceInv
<1>1. ASSUME NEW r \in Racer PROVE exp[r] <= Len(standings) * (1 + deaths)
  <2>1. exp[r] + Len(prizes) + Cardinality(EndsOf(Queue)) <= Len(standings) * (1 + deaths)
    BY <1>0 DEF RewardInv
  <2>2. Cardinality(EndsOf(Queue)) \in Nat
    BY <1>0, QueueIs, TruthQueue, EndsIn
  <2>3. exp[r] \in Nat /\ Len(prizes) \in Nat /\ Len(standings) * (1 + deaths) \in Nat
    BY <1>0 DEF RaceTypes
  <2> QED BY <2>1, <2>2, <2>3
<1>2. ASSUME deaths = 0, wire = <<>>, batch = <<>>
      PROVE  /\ Len(rows) = race.number
             /\ \A i \in DOMAIN standings : i > 1 \/ race.number = 1 => Kept(i)
  <2> DEFINE L == Len(rows) t == rows[L].state n == race.number s == race.state
  <2>1. QueueInv /\ RowsInv
    BY <1>2 DEF RaceInv, OrderInv
  <2>2. Queue = <<>> /\ TurnsOf(Queue) = {} /\ row = 0
    BY <1>0, <1>2 DEF Queue, TurnsOf, RaceTypes
  <2>3. /\ L \in Nat /\ n \in Nat /\ s \in 1 .. 3 /\ Told \in Nat
        /\ rows # <<>> => L \in DOMAIN rows /\ t \in 1 .. 3 /\ L # 0 /\ Told = 3 * (L - 1) + t
        /\ rows = <<>> => Told = 0 /\ L = 0
    BY <1>0, ToldIs
  <2>4. Told = 3 * (n - 1) + s
    <3>1. NextNth = Told + 1
      BY <2>2 DEF NextNth
    <3>2. Told + 1 .. 3 * (n - 1) + s = {} /\ Told + 1 <= 3 * (n - 1) + s + 1
      BY <2>1, <2>2, <3>1 DEF QueueInv, Nth
    <3> HIDE DEF n, s
    <3>3. ~(Told + 1 <= 3 * (n - 1) + s)
      <4> DEFINE N == 3 * (n - 1) + s
      <4>1. N \in Int /\ Told + 1 \in Int /\ Told + 1 .. N = {}
        BY <2>3, <3>2
      <4> HIDE DEF N
      <4>2. Told + 1 <= N => Told + 1 \in Told + 1 .. N
        BY <4>1
      <4>3. ~(Told + 1 <= N)
        BY <4>1, <4>2
      <4> QED BY <4>3 DEF N
    <3> QED BY <2>3, <3>2, <3>3
  <2>5. n = 0 => s = 3
    BY <1>0 DEF GameInv, Finished
  <2>6. L = n /\ (L # 0 => t = s)
    <3>1. CASE rows = <<>>
      <4> HIDE DEF n, s, t
      <4> QED BY <2>3, <2>4, <2>5, <3>1
    <3>2. CASE rows # <<>>
      <4> HIDE DEF n, s, t, L
      <4> QED BY <2>3, <2>4, <2>5, <3>2
    <3> QED BY <3>1, <3>2
  <2>7. ASSUME NEW i \in DOMAIN standings, i > 1 \/ n = 1 PROVE Kept(i)
    <3>1. i \in Nat /\ i # 0 /\ i <= Len(standings) /\ Len(standings) \in Nat
      BY <1>0 DEF RaceTypes
    <3>2. Len(standings) = IF s = 3 THEN n ELSE n - 1
      BY <1>0 DEF GameInv, Finished
    <3>3. i <= L /\ (i = L => t = 3)
      <4> HIDE DEF n, s, t, L
      <4> QED BY <2>3, <2>6, <3>1, <3>2
    <3>4. i \in DOMAIN rows
      BY <1>0, <3>1, <3>3 DEF RaceTypes
    <3>5. rows[i].state = Finished
      <4>1. i < L \/ i = L
        BY <2>3, <3>1, <3>3
      <4> QED BY <2>1, <3>3, <3>4, <4>1 DEF RowsInv, Finished
    <3>6. Complete(i)
      BY <2>2, <3>1, <3>5 DEF Complete
    <3>7. ASSUME NEW r \in Racer
          PROVE  /\ rows[i].entry[r].finished = (standings[i][r] = Goal)
                 /\ Shows(i, r)
      <4>1. EntryIs(i, r)
        BY <2>1, <3>4 DEF RowsInv
      <4>2. ~ToCome(Queue, r)
        BY <2>2 DEF ToCome
      <4>3. i > 1 \/ i = 1
        BY <3>1
      <4> QED BY <2>7, <3>6, <4>1, <4>2, <4>3 DEF EntryIs
    <3> QED BY <3>5, <3>7 DEF Kept, Shows
  <2> QED BY <2>6, <2>7
<1> QED BY <1>1, <1>2 DEF RacesAreKept

(* When all events are handled and no batch died, each race that ended has *)
(* a row of its own with its places and times, and no death of a batch     *)
(* repeats the rewards of a race more than once: for every number of       *)
(* racers, sections, races and deaths.                                     *)
THEOREM RacesKept == RaceSpec => []RacesAreKept
<1>1. RaceSpec => []RaceInv
  BY InitRaces, RacesStep, PTL DEF RaceSpec
<1> QED BY <1>1, RacesFollow, PTL
-----------------------------------------------------------------------------
(* ----- Logins and logouts -----                                          *)
(* What a set of lines says when it is read in its order: a login and the  *)
(* logout that follows it make a span; what has no other side is open.     *)
Pair(P, a, b) ==
  /\ a \in P /\ b \in P /\ a < b /\ IsLogin(a) /\ ~IsLogin(b)
  /\ \A k \in P : ~(a < k /\ k < b)

Span(P, a, b) ==
  \/ Pair(P, a, b)
  \/ b = Open /\ a \in P /\ IsLogin(a) /\ \A k \in P : ~Pair(P, a, k)
  \/ a = Ever /\ b \in P /\ ~IsLogin(b) /\ \A k \in P : ~Pair(P, k, b)

Reading(P) == {s \in (P \cup {Ever}) \X (P \cup {Open}) : Span(P, s[1], s[2])}

(* The line recorded next to t.                                            *)
After(P, t, q)  == q \in P /\ t < q /\ \A k \in P : ~(t < k /\ k < q)
Before(P, p, t) == p \in P /\ p < t /\ \A k \in P : ~(p < k /\ k < t)

Recorded == {n \in Line : runs[n] # 0}

(* No recorded line is more than three lines after one that is not.        *)
Window(P) == \A m \in P : \A u \in Line \ P : u < m => m - u <= 3

SpansInv ==
  overtook <= 3 /\ (\A n \in Line : runs[n] <= 1) /\ Window(Recorded)
    => spans = SetToBag(Reading(Recorded))

PresenceTypes ==
  /\ first \in {"login", "logout"} /\ sent \in 0 .. Lines
  /\ runs \in [Line -> 0 .. 2] /\ overtook \in Nat
  /\ job \in [Line -> {"unsent", "queued", "resolve", "mark", "done"}]
  /\ \A n \in Line : (job[n] # "unsent" \/ runs[n] # 0) => n <= sent

PresenceInv == PresenceTypes /\ SpansInv
-----------------------------------------------------------------------------
(* Logins and logouts take turns.                                          *)
LEMMA TakeTurns ==
  ASSUME NEW n \in Nat
  PROVE  IsLogin(n + 1) <=> ~IsLogin(n)
<1>1. (n + 1) % 2 = 1 <=> n % 2 # 1
  OBVIOUS
<1> QED BY <1>1 DEF IsLogin

LEMMA SameSide ==
  ASSUME NEW m \in Nat, NEW n \in Nat, m < n, IsLogin(m) <=> IsLogin(n)
  PROVE  m + 2 <= n
<1>1. n # m + 1
  BY TakeTurns
<1> QED BY <1>1

LEMMA LinesAre ==
  /\ Ever \notin Line /\ Open \notin Line /\ Ever # Open /\ Open \in Nat /\ Ever \in Nat
  /\ \A n \in Line : n \in Nat /\ Ever < n /\ n < Open
BY PresenceAssumption DEF Line, Ever, Open

(* Bags of which nothing is there twice.                                   *)
LEMMA AddToBag ==
  ASSUME NEW R, NEW X, R \cap X = {}
  PROVE  SetToBag(R) (+) SetToBag(X) = SetToBag(R \cup X)
<1> DEFINE B == SetToBag(R)
           C == SetToBag(X)
<1>1. DOMAIN B = R /\ DOMAIN C = X /\ (\A e \in R : B[e] = 1) /\ (\A e \in X : C[e] = 1)
  BY DEF SetToBag
<1> HIDE DEF B, C
<1>2. \A e \in R \cup X : (IF e \in R THEN B[e] ELSE 0) + (IF e \in X THEN C[e] ELSE 0) = 1
  BY <1>1
<1>3. B (+) C = [e \in R \cup X |-> 1]
  BY <1>1, <1>2 DEF (+)
<1> QED BY <1>3 DEF B, C, SetToBag

LEMMA TakeFromBag ==
  ASSUME NEW R, NEW X \in SUBSET R
  PROVE  SetToBag(R) (-) SetToBag(X) = SetToBag(R \ X)
<1> DEFINE B == SetToBag(R)
           C == SetToBag(X)
           D == [e \in R |-> IF e \in X THEN B[e] - C[e] ELSE B[e]]
<1>1. DOMAIN B = R /\ DOMAIN C = X /\ (\A e \in R : B[e] = 1) /\ (\A e \in X : C[e] = 1)
  BY DEF SetToBag
<1>2. B (-) C = [e \in {d \in R : D[d] > 0} |-> D[e]]
  BY <1>1 DEF (-)
<1>3. \A e \in R : D[e] = IF e \in X THEN 0 ELSE 1
  BY <1>1
<1> HIDE DEF B, C, D
<1>4. {d \in R : D[d] > 0} = R \ X
  BY <1>3
<1>5. B (-) C = [e \in R \ X |-> 1]
  BY <1>2, <1>3, <1>4
<1> QED BY <1>5 DEF B, C, SetToBag

LEMMA ReplaceInBag ==
  ASSUME NEW R, spans = SetToBag(R), NEW s \in R, NEW x, NEW I,
         x \notin R \ {s}, I \cap ((R \ {s}) \cup {x}) = {}
  PROVE  Replaced(s, x, I) = SetToBag((R \ {s}) \cup {x} \cup I)
<1>1. spans (-) SetToBag({s}) = SetToBag(R \ {s})
  BY TakeFromBag
<1>2. SetToBag(R \ {s}) (+) SetToBag({x}) = SetToBag((R \ {s}) \cup {x})
  BY AddToBag
<1>3. SetToBag((R \ {s}) \cup {x}) (+) SetToBag(I) = SetToBag((R \ {s}) \cup {x} \cup I)
  BY AddToBag
<1> QED BY <1>1, <1>2, <1>3 DEF Replaced
-----------------------------------------------------------------------------
(* How the pairs change with a line that is recorded.                      *)
LEMMA InReading ==
  ASSUME NEW P \in SUBSET Line
  PROVE  /\ \A a, b : <<a, b>> \in Reading(P) <=> Span(P, a, b)
         /\ \A s \in Reading(P) : s = <<s[1], s[2]>> /\ Span(P, s[1], s[2])
<1>1. \A a, b : Span(P, a, b) => a \in P \cup {Ever} /\ b \in P \cup {Open}
  BY DEF Span, Pair
<1> QED BY <1>1 DEF Reading

LEMMA PairOnce ==
  ASSUME NEW P \in SUBSET Line, NEW a, NEW b, Pair(P, a, b)
  PROVE  /\ \A k : Pair(P, a, k) => k = b
         /\ \A k : Pair(P, k, b) => k = a
<1>1. \A n \in P : n \in Nat
  BY LinesAre
<1> QED BY <1>1 DEF Pair

(* A login before a logout, the next of the lines that are recorded.       *)
LEMMA PairLogin ==
  ASSUME NEW P \in SUBSET Line, NEW t \in Line \ P, IsLogin(t), NEW a, NEW b
  PROVE  Pair(P \cup {t}, a, b) <=> \/ Pair(P, a, b) /\ ~(a < t /\ t < b)
                                    \/ a = t /\ After(P, t, b) /\ ~IsLogin(b)
<1>1. \A n \in P \cup {t} : n \in Nat
  BY LinesAre
<1>2. CASE a = t
  <2>1. ~Pair(P, a, b)
    BY <1>2 DEF Pair
  <2>2. Pair(P \cup {t}, t, b) <=> After(P, t, b) /\ ~IsLogin(b)
    BY <1>1 DEF Pair, After
  <2> QED BY <1>2, <2>1, <2>2
<1>3. CASE a # t
  <2>1. Pair(P \cup {t}, a, b) => Pair(P, a, b) /\ ~(a < t /\ t < b)
    BY <1>3 DEF Pair
  <2>2. Pair(P, a, b) /\ ~(a < t /\ t < b) => Pair(P \cup {t}, a, b)
    BY <1>3 DEF Pair
  <2> QED BY <1>3, <2>1, <2>2
<1> QED BY <1>2, <1>3

LEMMA PairLogout ==
  ASSUME NEW P \in SUBSET Line, NEW t \in Line \ P, ~IsLogin(t), NEW a, NEW b
  PROVE  Pair(P \cup {t}, a, b) <=> \/ Pair(P, a, b) /\ ~(a < t /\ t < b)
                                    \/ b = t /\ Before(P, a, t) /\ IsLogin(a)
<1>1. \A n \in P \cup {t} : n \in Nat
  BY LinesAre
<1>2. CASE b = t
  <2>1. ~Pair(P, a, b)
    BY <1>2 DEF Pair
  <2>2. Pair(P \cup {t}, a, t) <=> Before(P, a, t) /\ IsLogin(a)
    BY <1>1 DEF Pair, Before
  <2> QED BY <1>2, <2>1, <2>2
<1>3. CASE b # t
  <2>1. Pair(P \cup {t}, a, b) => Pair(P, a, b) /\ ~(a < t /\ t < b)
    BY <1>3 DEF Pair
  <2>2. Pair(P, a, b) /\ ~(a < t /\ t < b) => Pair(P \cup {t}, a, b)
    BY <1>3 DEF Pair
  <2> QED BY <1>3, <2>1, <2>2
<1> QED BY <1>2, <1>3

(* What is read when a login is recorded: it takes the place of the login  *)
(* of the span that ends at the logout after it, or it is open.            *)
LEMMA ReadingLogin ==
  ASSUME NEW P \in SUBSET Line, NEW t \in Line \ P, IsLogin(t)
  PROVE  /\ \A q, a : After(P, t, q) /\ ~IsLogin(q) /\ <<a, q>> \in Reading(P) =>
              Reading(P \cup {t}) = (Reading(P) \ {<<a, q>>}) \cup {<<t, q>>}
                                      \cup (IF a = Ever THEN {} ELSE {<<a, Open>>})
         /\ (\A q : After(P, t, q) => IsLogin(q)) =>
              Reading(P \cup {t}) = Reading(P) \cup {<<t, Open>>}
<1> DEFINE Q == P \cup {t}
<1>0. \A n \in Q : n \in Nat /\ n # Ever /\ n # Open /\ Ever # Open
  BY LinesAre
<1>1. \A a, b : Pair(Q, a, b) <=> \/ Pair(P, a, b) /\ ~(a < t /\ t < b)
                                  \/ a = t /\ After(P, t, b) /\ ~IsLogin(b)
  BY PairLogin
<1>2. Q \in SUBSET Line
  OBVIOUS
<1>3. /\ \A a, b : <<a, b>> \in Reading(P) <=> Span(P, a, b)
      /\ \A a, b : <<a, b>> \in Reading(Q) <=> Span(Q, a, b)
      /\ \A s \in Reading(P) \cup Reading(Q) : s = <<s[1], s[2]>>
  BY <1>2, InReading
<1> HIDE DEF Q
<1>4. ASSUME NEW q, NEW a, After(P, t, q), ~IsLogin(q), <<a, q>> \in Reading(P)
      PROVE  Reading(Q) = (Reading(P) \ {<<a, q>>}) \cup {<<t, q>>}
                            \cup (IF a = Ever THEN {} ELSE {<<a, Open>>})
  <2>1. Span(P, a, q) /\ q \in P /\ t < q
    BY <1>3, <1>4 DEF After
  <2>2. a # Ever => Pair(P, a, q)
    BY <1>0, <2>1 DEF Span, Q
  <2>3. \A k : Pair(P, k, q) => k = a
    <3>1. CASE a = Ever
      <4>1. ~Pair(P, a, q)
        BY <1>0, <3>1 DEF Pair, Q
      <4>2. \A k \in P : ~Pair(P, k, q)
        BY <1>0, <2>1, <4>1 DEF Span, Q
      <4> QED BY <4>2 DEF Pair
    <3>2. CASE a # Ever
      BY <2>2, <3>2, PairOnce
    <3> QED BY <3>1, <3>2
  <2>4. \A k, b : Pair(P, k, b) /\ k < t /\ t < b <=> Pair(P, k, b) /\ b = q
    BY <1>0, <1>4 DEF Pair, After, Q
  <2>5. \A k, b : Pair(Q, k, b) <=> (Pair(P, k, b) /\ b # q) \/ (k = t /\ b = q)
    <3>1. \A b : After(P, t, b) /\ ~IsLogin(b) <=> b = q
      BY <1>0, <1>4 DEF After, Q
    <3> QED BY <1>1, <2>4, <3>1
  <2>6. \A k, b : Span(Q, k, b) <=> \/ Span(P, k, b) /\ ~(k = a /\ b = q)
                                    \/ k = t /\ b = q
                                    \/ a # Ever /\ k = a /\ b = Open
    <3> SUFFICES ASSUME NEW k, NEW b
                 PROVE  Span(Q, k, b) <=> \/ Span(P, k, b) /\ ~(k = a /\ b = q)
                                          \/ k = t /\ b = q
                                          \/ a # Ever /\ k = a /\ b = Open
      OBVIOUS
    <3>0. /\ q \in P /\ q \in Q /\ q # Open /\ q # Ever
          /\ t \in Q /\ t # Open /\ t # Ever /\ t \notin P
          /\ \A n : n \in Q <=> n \in P \/ n = t
      BY <1>0, <2>1 DEF Q
    <3>1. CASE b = Open
      <4>1. ~Pair(Q, k, b) /\ ~Pair(P, k, b)
        BY <1>0, <3>1 DEF Pair, Q
      <4>2. Span(Q, k, b) <=> k \in Q /\ IsLogin(k) /\ \A m \in Q : ~Pair(Q, k, m)
        BY <1>0, <3>1, <4>1 DEF Span
      <4>3. Span(P, k, b) <=> k \in P /\ IsLogin(k) /\ \A m \in P : ~Pair(P, k, m)
        BY <1>0, <3>1, <4>1 DEF Span, Q
      <4>4. CASE k = t
        <5>1. Pair(Q, t, q)
          BY <2>5
        <5>2. ~(a # Ever /\ k = a)
          BY <2>2, <3>0, <4>4 DEF Pair
        <5> QED BY <3>0, <3>1, <4>2, <4>3, <4>4, <5>1, <5>2
      <4>5. CASE k # t /\ Pair(P, k, q)
        <5>1. k = a /\ k \in P /\ IsLogin(k) /\ a # Ever
          BY <1>0, <2>3, <4>5 DEF Pair, Q
        <5>2. \A m : ~Pair(Q, k, m)
          BY <2>5, <4>5, PairOnce
        <5>3. k \in Q
          BY <3>0, <5>1
        <5>4. Span(Q, k, b)
          BY <4>2, <5>1, <5>2, <5>3
        <5> QED BY <3>1, <5>1, <5>4
      <4>6. CASE k # t /\ ~Pair(P, k, q)
        <5>1. \A m : Pair(Q, k, m) <=> Pair(P, k, m)
          BY <2>5, <4>6
        <5>2. ~(a # Ever /\ k = a)
          BY <2>2, <4>6
        <5>3. \A m : Pair(P, k, m) => m \in P
          BY DEF Pair
        <5>4. k \in Q <=> k \in P
          BY <3>0, <4>6
        <5>5. (\A m \in Q : ~Pair(Q, k, m)) <=> (\A m \in P : ~Pair(P, k, m))
          BY <3>0, <5>1, <5>3
        <5>6. Span(Q, k, b) <=> Span(P, k, b)
          BY <4>2, <4>3, <5>4, <5>5
        <5> QED BY <3>0, <3>1, <4>6, <5>2, <5>6
      <4> QED BY <4>4, <4>5, <4>6
    <3>2. CASE b # Open /\ k = Ever
      <4>1. ~Pair(Q, k, b) /\ ~Pair(P, k, b)
        BY <1>0, <3>2 DEF Pair, Q
      <4>2. Span(Q, k, b) <=> b \in Q /\ ~IsLogin(b) /\ \A m \in Q : ~Pair(Q, m, b)
        BY <3>2, <4>1 DEF Span
      <4>3. Span(P, k, b) <=> b \in P /\ ~IsLogin(b) /\ \A m \in P : ~Pair(P, m, b)
        BY <3>2, <4>1 DEF Span
      <4>4. CASE b = q
        <5>1. Pair(Q, t, q)
          BY <2>5
        <5>2. Span(P, k, b) => k = a
          <6>1. Pair(P, a, q) => a \in P
            BY DEF Pair
          <6> QED BY <2>2, <3>2, <4>3, <4>4, <6>1
        <5> QED BY <3>0, <3>2, <4>2, <4>4, <5>1, <5>2
      <4>5. CASE b # q
        <5>1. \A m : Pair(Q, m, b) <=> Pair(P, m, b)
          BY <2>5, <4>5
        <5>2. \A m : Pair(P, m, b) => m \in P
          BY DEF Pair
        <5>3. b = t => ~Span(Q, k, b)
          BY <4>2
        <5>4. b # t => (b \in Q <=> b \in P)
          BY <3>0
        <5>5. (\A m \in Q : ~Pair(Q, m, b)) <=> (\A m \in P : ~Pair(P, m, b))
          BY <3>0, <5>1, <5>2
        <5>6. b = t => ~Span(P, k, b)
          BY <4>3
        <5>7. Span(Q, k, b) <=> Span(P, k, b)
          BY <4>2, <4>3, <5>3, <5>4, <5>5, <5>6
        <5> QED BY <3>2, <4>5, <5>7
      <4> QED BY <4>4, <4>5
    <3>3. CASE b # Open /\ k # Ever
      <4>1. (Span(Q, k, b) <=> Pair(Q, k, b)) /\ (Span(P, k, b) <=> Pair(P, k, b))
        BY <3>3 DEF Span
      <4>2. Pair(P, k, b) /\ b = q => k = a
        BY <2>3
      <4> QED BY <2>5, <3>3, <4>1, <4>2
    <3> QED BY <3>1, <3>2, <3>3
  <2>7. \A k, b : <<k, b>> \in Reading(Q) <=>
          <<k, b>> \in (Reading(P) \ {<<a, q>>}) \cup {<<t, q>>}
                         \cup (IF a = Ever THEN {} ELSE {<<a, Open>>})
    <3>1. \A x, y, k, b : <<k, b>> = <<x, y>> <=> k = x /\ b = y
      OBVIOUS
    <3>2. CASE a = Ever
      <4>1. \A k, b : Span(Q, k, b) <=> (Span(P, k, b) /\ <<k, b>> # <<a, q>>) \/ <<k, b>> = <<t, q>>
        BY <2>6, <3>1, <3>2
      <4> QED BY <1>3, <3>2, <4>1
    <3>3. CASE a # Ever
      <4>1. \A k, b : Span(Q, k, b) <=> \/ Span(P, k, b) /\ <<k, b>> # <<a, q>>
                                        \/ <<k, b>> = <<t, q>>
                                        \/ <<k, b>> = <<a, Open>>
        BY <2>6, <3>1, <3>3
      <4> QED BY <1>3, <3>3, <4>1
    <3> QED BY <3>2, <3>3
  <2> QED BY <1>3, <2>7
<1>5. ASSUME \A q : After(P, t, q) => IsLogin(q)
      PROVE  Reading(Q) = Reading(P) \cup {<<t, Open>>}
  <2>1. \A k, b : ~(Pair(P, k, b) /\ k < t /\ t < b)
    <3> SUFFICES ASSUME NEW k, NEW b, Pair(P, k, b), k < t, t < b PROVE FALSE
      OBVIOUS
    <3>1. After(P, t, b) /\ ~IsLogin(b)
      BY <1>0 DEF Pair, After, Q
    <3> QED BY <1>5, <3>1
  <2>2. \A k, b : Pair(Q, k, b) <=> Pair(P, k, b)
    BY <1>1, <1>5, <2>1
  <2>3. \A k, b : Span(Q, k, b) <=> Span(P, k, b) \/ (k = t /\ b = Open)
    <3>1. t \in Q /\ t # Ever /\ t # Open /\ t \notin P /\ \A n : n \in Q <=> n \in P \/ n = t
      BY <1>0 DEF Q
    <3>2. \A k, b : Pair(P, k, b) => k \in P /\ b \in P
      BY DEF Pair
    <3> QED BY <2>2, <3>1, <3>2 DEF Span
  <2>4. \A k, b : <<k, b>> \in Reading(Q) <=> <<k, b>> \in Reading(P) \cup {<<t, Open>>}
    BY <1>3, <2>3
  <2> QED BY <1>3, <2>4
<1> QED BY <1>4, <1>5 DEF Q
(* What is read when a logout is recorded: it ends the span of the login   *)
(* before it, or its login is not known.                                   *)
LEMMA ReadingLogout ==
  ASSUME NEW P \in SUBSET Line, NEW t \in Line \ P, ~IsLogin(t)
  PROVE  /\ \A p, e : Before(P, p, t) /\ IsLogin(p) /\ <<p, e>> \in Reading(P) =>
              Reading(P \cup {t}) = (Reading(P) \ {<<p, e>>}) \cup {<<p, t>>}
                                      \cup (IF e = Open THEN {} ELSE {<<Ever, e>>})
         /\ (\A p : Before(P, p, t) => ~IsLogin(p)) =>
              Reading(P \cup {t}) = Reading(P) \cup {<<Ever, t>>}
<1> DEFINE Q == P \cup {t}
<1>0. \A n \in Q : n \in Nat /\ n # Ever /\ n # Open /\ Ever # Open
  BY LinesAre
<1>1. \A a, b : Pair(Q, a, b) <=> \/ Pair(P, a, b) /\ ~(a < t /\ t < b)
                                  \/ b = t /\ Before(P, a, t) /\ IsLogin(a)
  BY PairLogout
<1>2. Q \in SUBSET Line
  OBVIOUS
<1>3. /\ \A a, b : <<a, b>> \in Reading(P) <=> Span(P, a, b)
      /\ \A a, b : <<a, b>> \in Reading(Q) <=> Span(Q, a, b)
      /\ \A s \in Reading(P) \cup Reading(Q) : s = <<s[1], s[2]>>
  BY <1>2, InReading
<1> HIDE DEF Q
<1>4. ASSUME NEW p, NEW e, Before(P, p, t), IsLogin(p), <<p, e>> \in Reading(P)
      PROVE  Reading(Q) = (Reading(P) \ {<<p, e>>}) \cup {<<p, t>>}
                            \cup (IF e = Open THEN {} ELSE {<<Ever, e>>})
  <2>1. Span(P, p, e) /\ p \in P /\ p < t
    BY <1>3, <1>4 DEF Before
  <2>2. e # Open => Pair(P, p, e)
    BY <1>0, <2>1 DEF Span, Q
  <2>3. \A k : Pair(P, p, k) => k = e
    <3>1. CASE e = Open
      <4>1. ~Pair(P, p, e)
        BY <1>0, <3>1 DEF Pair, Q
      <4>2. \A k \in P : ~Pair(P, p, k)
        BY <1>0, <2>1, <4>1 DEF Span, Q
      <4> QED BY <4>2 DEF Pair
    <3>2. CASE e # Open
      BY <2>2, <3>2, PairOnce
    <3> QED BY <3>1, <3>2
  <2>4. \A k, b : Pair(P, k, b) /\ k < t /\ t < b <=> Pair(P, k, b) /\ k = p
    BY <1>0, <1>4 DEF Pair, Before, Q
  <2>5. \A k, b : Pair(Q, k, b) <=> (Pair(P, k, b) /\ k # p) \/ (k = p /\ b = t)
    <3>1. \A k : Before(P, k, t) /\ IsLogin(k) <=> k = p
      BY <1>0, <1>4 DEF Before, Q
    <3> QED BY <1>1, <2>4, <3>1
  <2>6. \A k, b : Span(Q, k, b) <=> \/ Span(P, k, b) /\ ~(k = p /\ b = e)
                                    \/ k = p /\ b = t
                                    \/ e # Open /\ k = Ever /\ b = e
    <3> SUFFICES ASSUME NEW k, NEW b
                 PROVE  Span(Q, k, b) <=> \/ Span(P, k, b) /\ ~(k = p /\ b = e)
                                          \/ k = p /\ b = t
                                          \/ e # Open /\ k = Ever /\ b = e
      OBVIOUS
    <3>0. /\ p \in P /\ p \in Q /\ p # Open /\ p # Ever
          /\ t \in Q /\ t # Open /\ t # Ever /\ t \notin P
          /\ \A n : n \in Q <=> n \in P \/ n = t
      BY <1>0, <2>1 DEF Q
    <3>1. CASE k = Ever
      <4>1. ~Pair(Q, k, b) /\ ~Pair(P, k, b)
        BY <1>0, <3>1 DEF Pair, Q
      <4>2. Span(Q, k, b) <=> b \in Q /\ ~IsLogin(b) /\ \A m \in Q : ~Pair(Q, m, b)
        BY <1>0, <3>0, <3>1, <4>1 DEF Span
      <4>3. Span(P, k, b) <=> b \in P /\ ~IsLogin(b) /\ \A m \in P : ~Pair(P, m, b)
        BY <1>0, <3>0, <3>1, <4>1 DEF Span, Q
      <4>4. CASE b = t
        <5>1. Pair(Q, p, t)
          BY <2>5
        <5>2. ~(e # Open /\ b = e)
          BY <2>2, <3>0, <4>4 DEF Pair
        <5> QED BY <3>0, <3>1, <4>2, <4>3, <4>4, <5>1, <5>2
      <4>5. CASE b # t /\ Pair(P, p, b)
        <5>1. b = e /\ b \in P /\ ~IsLogin(b) /\ e # Open
          BY <1>0, <2>3, <4>5 DEF Pair, Q
        <5>2. \A m : ~Pair(Q, m, b)
          BY <2>5, <4>5, PairOnce
        <5>3. b \in Q
          BY <3>0, <5>1
        <5>4. Span(Q, k, b)
          BY <4>2, <5>1, <5>2, <5>3
        <5> QED BY <3>1, <5>1, <5>4
      <4>6. CASE b # t /\ ~Pair(P, p, b)
        <5>1. \A m : Pair(Q, m, b) <=> Pair(P, m, b)
          BY <2>5, <4>6
        <5>2. ~(e # Open /\ b = e)
          BY <2>2, <4>6
        <5>3. \A m : Pair(P, m, b) => m \in P
          BY DEF Pair
        <5>4. b \in Q <=> b \in P
          BY <3>0, <4>6
        <5>5. (\A m \in Q : ~Pair(Q, m, b)) <=> (\A m \in P : ~Pair(P, m, b))
          BY <3>0, <5>1, <5>3
        <5>6. Span(Q, k, b) <=> Span(P, k, b)
          BY <4>2, <4>3, <5>4, <5>5
        <5> QED BY <3>0, <3>1, <4>6, <5>2, <5>6
      <4> QED BY <4>4, <4>5, <4>6
    <3>2. CASE k # Ever /\ b = Open
      <4>1. ~Pair(Q, k, b) /\ ~Pair(P, k, b)
        BY <1>0, <3>2 DEF Pair, Q
      <4>2. Span(Q, k, b) <=> k \in Q /\ IsLogin(k) /\ \A m \in Q : ~Pair(Q, k, m)
        BY <3>2, <4>1 DEF Span
      <4>3. Span(P, k, b) <=> k \in P /\ IsLogin(k) /\ \A m \in P : ~Pair(P, k, m)
        BY <3>2, <4>1 DEF Span
      <4>4. CASE k = p
        <5>1. Pair(Q, p, t)
          BY <2>5
        <5>2. Span(P, k, b) => b = e
          <6>1. Pair(P, p, e) => e \in P
            BY DEF Pair
          <6> QED BY <2>2, <3>2, <4>3, <4>4, <6>1
        <5> QED BY <3>0, <3>2, <4>2, <4>4, <5>1, <5>2
      <4>5. CASE k # p
        <5>1. \A m : Pair(Q, k, m) <=> Pair(P, k, m)
          BY <2>5, <4>5
        <5>2. \A m : Pair(P, k, m) => m \in P
          BY DEF Pair
        <5>3. k = t => ~Span(Q, k, b)
          BY <4>2
        <5>4. k # t => (k \in Q <=> k \in P)
          BY <3>0
        <5>5. (\A m \in Q : ~Pair(Q, k, m)) <=> (\A m \in P : ~Pair(P, k, m))
          BY <3>0, <5>1, <5>2
        <5>6. k = t => ~Span(P, k, b)
          BY <4>3
        <5>7. Span(Q, k, b) <=> Span(P, k, b)
          BY <4>2, <4>3, <5>3, <5>4, <5>5, <5>6
        <5> QED BY <3>2, <4>5, <5>7
      <4> QED BY <4>4, <4>5
    <3>3. CASE b # Open /\ k # Ever
      <4>1. (Span(Q, k, b) <=> Pair(Q, k, b)) /\ (Span(P, k, b) <=> Pair(P, k, b))
        BY <3>3 DEF Span
      <4>2. Pair(P, k, b) /\ k = p => b = e
        BY <2>3
      <4> QED BY <2>5, <3>3, <4>1, <4>2
    <3> QED BY <3>1, <3>2, <3>3
  <2>7. \A k, b : <<k, b>> \in Reading(Q) <=>
          <<k, b>> \in (Reading(P) \ {<<p, e>>}) \cup {<<p, t>>}
                         \cup (IF e = Open THEN {} ELSE {<<Ever, e>>})
    <3>1. \A x, y, k, b : <<k, b>> = <<x, y>> <=> k = x /\ b = y
      OBVIOUS
    <3>2. CASE e = Open
      <4>1. \A k, b : Span(Q, k, b) <=> (Span(P, k, b) /\ <<k, b>> # <<p, e>>) \/ <<k, b>> = <<p, t>>
        BY <2>6, <3>1, <3>2
      <4> QED BY <1>3, <3>2, <4>1
    <3>3. CASE e # Open
      <4>1. \A k, b : Span(Q, k, b) <=> \/ Span(P, k, b) /\ <<k, b>> # <<p, e>>
                                        \/ <<k, b>> = <<p, t>>
                                        \/ <<k, b>> = <<Ever, e>>
        BY <2>6, <3>1, <3>3
      <4> QED BY <1>3, <3>3, <4>1
    <3> QED BY <3>2, <3>3
  <2> QED BY <1>3, <2>7
<1>5. ASSUME \A p : Before(P, p, t) => ~IsLogin(p)
      PROVE  Reading(Q) = Reading(P) \cup {<<Ever, t>>}
  <2>1. \A k, b : ~(Pair(P, k, b) /\ k < t /\ t < b)
    <3> SUFFICES ASSUME NEW k, NEW b, Pair(P, k, b), k < t, t < b PROVE FALSE
      OBVIOUS
    <3>1. Before(P, k, t) /\ IsLogin(k)
      BY <1>0 DEF Pair, Before, Q
    <3> QED BY <1>5, <3>1
  <2>2. \A k, b : Pair(Q, k, b) <=> Pair(P, k, b)
    BY <1>1, <1>5, <2>1
  <2>3. \A k, b : Span(Q, k, b) <=> Span(P, k, b) \/ (k = Ever /\ b = t)
    <3>1. t \in Q /\ t # Ever /\ t # Open /\ t \notin P /\ \A n : n \in Q <=> n \in P \/ n = t
      BY <1>0 DEF Q
    <3>2. \A k, b : Pair(P, k, b) => k \in P /\ b \in P
      BY DEF Pair
    <3> QED BY <2>2, <3>1, <3>2 DEF Span
  <2>4. \A k, b : <<k, b>> \in Reading(Q) <=> <<k, b>> \in Reading(P) \cup {<<Ever, t>>}
    BY <1>3, <2>3
  <2> QED BY <1>3, <2>4
<1> QED BY <1>4, <1>5 DEF Q
-----------------------------------------------------------------------------
LEMMA NextTurns ==
  ASSUME NEW n \in Nat
  PROVE  /\ IsLogin(n + 1) <=> ~IsLogin(n)
         /\ IsLogin(n + 2) <=> IsLogin(n)
         /\ IsLogin(n + 3) <=> ~IsLogin(n)
         /\ IsLogin(n + 4) <=> IsLogin(n)
<1>1. n + 1 \in Nat /\ n + 2 \in Nat /\ n + 3 \in Nat /\ n + 4 \in Nat
  OBVIOUS
<1>2. (n + 1) + 1 = n + 2 /\ (n + 2) + 1 = n + 3 /\ (n + 3) + 1 = n + 4
  OBVIOUS
<1>3. IsLogin(n + 1) <=> ~IsLogin(n)
  BY TakeTurns
<1>4. IsLogin((n + 1) + 1) <=> ~IsLogin(n + 1)
  BY <1>1, TakeTurns
<1>5. IsLogin((n + 2) + 1) <=> ~IsLogin(n + 2)
  BY <1>1, TakeTurns
<1>6. IsLogin((n + 3) + 1) <=> ~IsLogin(n + 3)
  BY <1>1, TakeTurns
<1> QED BY <1>2, <1>3, <1>4, <1>5, <1>6

LEMMA CoveringAre ==
  ASSUME NEW R, spans = SetToBag(R), NEW t
  PROVE  Covering(t) = {s \in R : s[1] <= t /\ t < s[2]}
BY DEF Covering, BagToSet, SetToBag

LEMMA SpanOnce ==
  ASSUME NEW P \in SUBSET Line, NEW a, NEW b, Span(P, a, b)
  PROVE  /\ a \in P \cup {Ever} /\ b \in P \cup {Open} /\ ~(a = Ever /\ b = Open)
         /\ b \in P => \A k : Span(P, k, b) => k = a
         /\ a \in P => \A k : Span(P, a, k) => k = b
<1>1. \A n \in P : n \in Nat /\ n # Ever /\ n # Open /\ Ever # Open
  BY LinesAre
<1>2. Ever # Open /\ Ever \notin P /\ Open \notin P
  BY LinesAre
<1>3. \A x, y : Pair(P, x, y) => x \in P /\ y \in P
  BY DEF Pair
<1>4. a \in P \cup {Ever} /\ b \in P \cup {Open} /\ ~(a = Ever /\ b = Open)
  BY <1>2, <1>3 DEF Span
<1>5. ASSUME b \in P, NEW k, Span(P, k, b)
      PROVE  k = a
  <2>1. b # Open
    BY <1>2, <1>5
  <2>2. \A x : Span(P, x, b) => Pair(P, x, b) \/ (x = Ever /\ \A y \in P : ~Pair(P, y, b))
    BY <2>1 DEF Span
  <2>3. \A x, y : Pair(P, x, b) /\ Pair(P, y, b) => x = y
    BY PairOnce
  <2> QED BY <1>3, <1>5, <2>2, <2>3
<1>6. ASSUME a \in P, NEW k, Span(P, a, k)
      PROVE  k = b
  <2>1. a # Ever
    BY <1>2, <1>6
  <2>2. \A x : Span(P, a, x) => Pair(P, a, x) \/ (x = Open /\ \A y \in P : ~Pair(P, a, y))
    BY <2>1 DEF Span
  <2>3. \A x, y : Pair(P, a, x) /\ Pair(P, a, y) => x = y
    BY PairOnce
  <2> QED BY <1>3, <1>6, <2>2, <2>3
<1> QED BY <1>4, <1>5, <1>6

(* Every login and every logout that is recorded is in a span.             *)
LEMMA SpanOfLine ==
  ASSUME NEW P \in SUBSET Line, NEW n \in P
  PROVE  /\ ~IsLogin(n) => \E a : Span(P, a, n)
         /\ IsLogin(n) => \E b : Span(P, n, b)
BY DEF Span
-----------------------------------------------------------------------------
(* A login with a logout after it.                                         *)
LEMMA LoginBeforeLogout ==
  ASSUME NEW P \in SUBSET Line, NEW t \in Line \ P, IsLogin(t),
         spans = SetToBag(Reading(P)), NEW q, After(P, t, q), ~IsLogin(q),
         process_login_event(t)
  PROVE  spans' = SetToBag(Reading(P \cup {t}))
<1> DEFINE R == Reading(P)
<1>0. /\ \A n \in P \cup {t} : n \in Nat /\ n # Ever /\ n # Open /\ Ever < n /\ n < Open
      /\ Ever # Open /\ Ever \in Nat /\ Open \in Nat
  BY LinesAre
<1>1. /\ \A a, b : <<a, b>> \in R <=> Span(P, a, b)
      /\ \A s \in R : s = <<s[1], s[2]>> /\ Span(P, s[1], s[2])
  BY InReading
<1>2. Covering(t) = {s \in R : s[1] <= t /\ t < s[2]}
  BY CoveringAre
<1>3. q \in P /\ t < q /\ \A k \in P : ~(t < k /\ k < q)
  BY DEF After
<1>4. PICK a : Span(P, a, q)
  BY <1>3, SpanOfLine
<1>5. a \in P \cup {Ever} /\ \A k : Span(P, k, q) => k = a
  BY <1>3, <1>4, SpanOnce
<1>6. a # Ever => Pair(P, a, q)
  BY <1>0, <1>3, <1>4 DEF Span
<1>7. a <= t
  <2>1. CASE a = Ever
    BY <1>0, <2>1
  <2>2. CASE a # Ever
    <3>1. a \in P /\ a < q
      BY <1>6, <2>2 DEF Pair
    <3> QED BY <1>0, <1>3, <3>1
  <2> QED BY <2>1, <2>2
<1> HIDE DEF R
<1>8. <<a, q>> \in Covering(t)
  <2>1. <<a, q>> \in R
    BY <1>1, <1>4
  <2> QED BY <1>2, <1>3, <1>7, <2>1
<1>9. ASSUME NEW s \in Covering(t), \A r \in Covering(t) : s[2] <= r[2]
      PROVE  s = <<a, q>>
  <2>1. s \in R /\ s[1] <= t /\ t < s[2] /\ s[2] <= q
    <3>1. <<a, q>>[2] = q
      OBVIOUS
    <3> QED BY <1>2, <1>8, <1>9, <3>1
  <2>2. Span(P, s[1], s[2]) /\ s = <<s[1], s[2]>>
    BY <1>1, <2>1
  <2>3. s[2] \in P \cup {Open}
    BY <2>2, SpanOnce
  <2>4. s[2] = q
    BY <1>0, <1>3, <2>1, <2>3
  <2> QED BY <1>5, <2>2, <2>4
<1>10. spans' = Replaced(<<a, q>>, <<t, q>>, IF a = Ever THEN {} ELSE {<<a, Open>>})
  <2>1. Covering(t) # {}
    BY <1>8
  <2>2. PICK s \in Covering(t) :
           /\ \A r \in Covering(t) : s[2] <= r[2]
           /\ spans' = Replaced(s, <<t, s[2]>>, IF s[1] = Ever THEN {} ELSE {<<s[1], Open>>})
    BY <2>1 DEF process_login_event
  <2>3. s = <<a, q>>
    BY <1>9, <2>2
  <2> QED BY <2>2, <2>3
<1>11. <<a, q>> \in R /\ <<t, q>> \notin R
  <2>1. <<a, q>> \in R
    BY <1>1, <1>4
  <2>2. \A x, y : Span(P, x, y) => x \in P \cup {Ever}
    BY SpanOnce
  <2> QED BY <1>0, <1>1, <2>1, <2>2
<1>12. a # Ever => <<a, Open>> \notin R /\ <<a, Open>> # <<t, q>>
  <2> SUFFICES ASSUME a # Ever PROVE <<a, Open>> \notin R /\ q # Open
    OBVIOUS
  <2>1. a \in P /\ q # Open
    BY <1>0, <1>3, <1>5
  <2>2. \A k : Span(P, a, k) => k = q
    BY <1>4, <2>1, SpanOnce
  <2> QED BY <1>1, <2>1, <2>2
<1>13. spans' = SetToBag((R \ {<<a, q>>}) \cup {<<t, q>>} \cup (IF a = Ever THEN {} ELSE {<<a, Open>>}))
  <2> DEFINE I == IF a = Ever THEN {} ELSE {<<a, Open>>}
  <2>1. I \cap ((R \ {<<a, q>>}) \cup {<<t, q>>}) = {}
    BY <1>12
  <2>2. spans = SetToBag(R) /\ <<t, q>> \notin R \ {<<a, q>>}
    BY <1>11 DEF R
  <2> HIDE DEF I
  <2>3. Replaced(<<a, q>>, <<t, q>>, I) = SetToBag((R \ {<<a, q>>}) \cup {<<t, q>>} \cup I)
    BY <1>11, <2>1, <2>2, ReplaceInBag
  <2> QED BY <1>10, <2>3 DEF I
<1>14. Reading(P \cup {t}) = (R \ {<<a, q>>}) \cup {<<t, q>>} \cup (IF a = Ever THEN {} ELSE {<<a, Open>>})
  <2>1. <<a, q>> \in Reading(P)
    BY <1>11 DEF R
  <2> QED BY <2>1, ReadingLogin DEF R
<1> QED BY <1>13, <1>14

(* A login without a logout after it: the spans that cover it are open,    *)
(* since a logout of an unknown login is at most three lines later.        *)
LEMMA LoginAtEnd ==
  ASSUME NEW P \in SUBSET Line, NEW t \in Line \ P, IsLogin(t), Window(P),
         spans = SetToBag(Reading(P)), \A q : After(P, t, q) => IsLogin(q),
         process_login_event(t)
  PROVE  spans' = SetToBag(Reading(P \cup {t}))
<1> DEFINE R == Reading(P)
<1>0. /\ \A n \in P \cup {t} : n \in Nat /\ n # Ever /\ n # Open /\ Ever < n /\ n < Open
      /\ Ever # Open /\ Ever \in Nat /\ Open \in Nat /\ t \in Nat /\ t # Ever /\ t # Open
  BY LinesAre
<1>1. /\ \A a, b : <<a, b>> \in R <=> Span(P, a, b)
      /\ \A s \in R : s = <<s[1], s[2]>> /\ Span(P, s[1], s[2])
  BY InReading
<1>2. Covering(t) = {s \in R : s[1] <= t /\ t < s[2]}
  BY CoveringAre
<1>3. ASSUME NEW a, NEW b \in P, Span(P, a, b), a <= t, t < b
      PROVE  FALSE
  <2>1. CASE Pair(P, a, b)
    <3>1. a \in P /\ a < t
      BY <1>0, <1>3, <2>1 DEF Pair
    <3>2. After(P, t, b) /\ ~IsLogin(b)
      BY <1>0, <1>3, <2>1, <3>1 DEF Pair, After
    <3> QED BY <1>2, <3>2
  <2>2. CASE ~Pair(P, a, b)
    <3>1. ~IsLogin(b) /\ \A k \in P : ~Pair(P, k, b)
      BY <1>0, <1>3, <2>2 DEF Span
    <3>2. b - t <= 3
      BY <1>3 DEF Window
    <3>3. b = t + 1 \/ b = t + 2 \/ b = t + 3
      BY <1>0, <1>3, <3>2
    <3>4. b = t + 1 \/ b = t + 3
      BY <1>0, <3>1, <3>3, NextTurns
    <3>5. t + 1 \notin P
      <4> SUFFICES ASSUME t + 1 \in P PROVE FALSE
        OBVIOUS
      <4>1. After(P, t, t + 1)
        BY <1>0 DEF After
      <4> QED BY <1>0, <4>1, NextTurns
    <3>6. b = t + 3
      BY <3>4, <3>5
    <3>7. t + 2 \notin P
      <4> SUFFICES ASSUME t + 2 \in P PROVE FALSE
        OBVIOUS
      <4>1. IsLogin(t + 2)
        BY <1>0, NextTurns
      <4>2. \A k \in P : ~(t + 2 < k /\ k < b)
        BY <1>0, <3>6
      <4>3. Pair(P, t + 2, b)
        BY <1>0, <1>3, <3>1, <3>6, <4>1, <4>2 DEF Pair
      <4> QED BY <3>1, <4>3
    <3>8. \A k \in P : ~(t < k /\ k < b)
      BY <1>0, <3>5, <3>6, <3>7
    <3>9. After(P, t, b)
      BY <1>3, <3>8 DEF After
    <3> QED BY <3>1, <3>9
  <2> QED BY <2>1, <2>2
<1>4. Reading(P \cup {t}) = R \cup {<<t, Open>>}
  BY ReadingLogin
<1>5. <<t, Open>> \notin R
  <2>1. \A x, y : Span(P, x, y) => x \in P \cup {Ever}
    BY SpanOnce
  <2> QED BY <1>0, <1>1, <2>1
<1> HIDE DEF R
<1>6. CASE Covering(t) = {}
  <2>1. spans' = spans (+) SetToBag({<<t, Open>>})
    BY <1>6 DEF process_login_event
  <2>2. spans = SetToBag(R)
    BY DEF R
  <2> QED BY <1>4, <1>5, <2>1, <2>2, AddToBag
<1>7. CASE Covering(t) # {}
  <2>1. PICK s \in Covering(t) :
           spans' = Replaced(s, <<t, s[2]>>, IF s[1] = Ever THEN {} ELSE {<<s[1], Open>>})
    BY <1>7 DEF process_login_event
  <2>2. s \in R /\ s = <<s[1], s[2]>> /\ Span(P, s[1], s[2]) /\ s[1] <= t /\ t < s[2]
    BY <1>1, <1>2
  <2>3. s[1] \in P \cup {Ever} /\ s[2] \in P \cup {Open} /\ ~(s[1] = Ever /\ s[2] = Open)
    BY <2>2, SpanOnce
  <2>4. s[2] = Open /\ s[1] # Ever /\ s[1] # t
    BY <1>0, <1>3, <2>2, <2>3
  <2>5. s = <<s[1], Open>>
    BY <2>2, <2>4
  <2>6. spans' = Replaced(s, <<t, Open>>, {s})
    BY <2>1, <2>4, <2>5
  <2>7. s # <<t, Open>>
    BY <2>4, <2>5
  <2>8. s \notin (R \ {s}) \cup {<<t, Open>>} /\ spans = SetToBag(R) /\ <<t, Open>> \notin R \ {s}
    BY <1>5, <2>7 DEF R
  <2>9. {s} \cap ((R \ {s}) \cup {<<t, Open>>}) = {}
    BY <2>8
  <2>10. Replaced(s, <<t, Open>>, {s}) = SetToBag((R \ {s}) \cup {<<t, Open>>} \cup {s})
    BY <2>2, <2>8, <2>9, ReplaceInBag
  <2>11. (R \ {s}) \cup {<<t, Open>>} \cup {s} = R \cup {<<t, Open>>}
    BY <2>2
  <2> QED BY <1>4, <2>6, <2>10, <2>11
<1> QED BY <1>6, <1>7

(* A logout with a login before it: no span of an unknown login covers it. *)
LEMMA LogoutAfterLogin ==
  ASSUME NEW P \in SUBSET Line, NEW t \in Line \ P, ~IsLogin(t), Window(P),
         spans = SetToBag(Reading(P)), NEW p, Before(P, p, t), IsLogin(p),
         process_logout_event(t)
  PROVE  spans' = SetToBag(Reading(P \cup {t}))
<1> DEFINE R == Reading(P)
<1>0. /\ \A n \in P \cup {t} : n \in Nat /\ n # Ever /\ n # Open /\ Ever < n /\ n < Open
      /\ Ever # Open /\ Ever \in Nat /\ Open \in Nat /\ t \in Nat /\ t # Ever /\ t # Open
  BY LinesAre
<1>1. /\ \A a, b : <<a, b>> \in R <=> Span(P, a, b)
      /\ \A s \in R : s = <<s[1], s[2]>> /\ Span(P, s[1], s[2])
  BY InReading
<1>2. Covering(t) = {s \in R : s[1] <= t /\ t < s[2]}
  BY CoveringAre
<1>3. p \in P /\ p < t /\ \A k \in P : ~(p < k /\ k < t)
  BY DEF Before
<1>4. PICK e : Span(P, p, e)
  BY <1>3, SpanOfLine
<1>5. e \in P \cup {Open} /\ \A k : Span(P, p, k) => k = e
  BY <1>3, <1>4, SpanOnce
<1>6. e # Open => Pair(P, p, e)
  BY <1>0, <1>3, <1>4 DEF Span
<1>7. t < e
  <2>1. CASE e = Open
    BY <1>0, <2>1
  <2>2. CASE e # Open
    <3>1. e \in P /\ p < e
      BY <1>6, <2>2 DEF Pair
    <3> QED BY <1>0, <1>3, <3>1
  <2> QED BY <2>1, <2>2
<1>8. ASSUME NEW b \in P, Span(P, Ever, b), t < b
      PROVE  FALSE
  <2>1. ~Pair(P, Ever, b)
    BY <1>0 DEF Pair
  <2>2. ~IsLogin(b) /\ \A k \in P : ~Pair(P, k, b)
    BY <1>0, <1>8, <2>1 DEF Span
  <2>3. b - t <= 3
    BY <1>8 DEF Window
  <2>4. b = t + 1 \/ b = t + 2 \/ b = t + 3
    BY <1>0, <1>8, <2>3
  <2>5. b = t + 2 /\ IsLogin(t + 1)
    BY <1>0, <2>2, <2>4, NextTurns
  <2>6. t + 1 \notin P
    <3> SUFFICES ASSUME t + 1 \in P PROVE FALSE
      OBVIOUS
    <3>1. \A k \in P : ~(t + 1 < k /\ k < b)
      BY <1>0, <2>5
    <3>2. Pair(P, t + 1, b)
      BY <1>0, <1>8, <2>2, <2>5, <3>1 DEF Pair
    <3> QED BY <2>2, <3>2
  <2>7. \A k \in P : ~(p < k /\ k < b)
    BY <1>0, <1>3, <2>5, <2>6
  <2>8. Pair(P, p, b)
    BY <1>0, <1>3, <1>8, <2>2, <2>7 DEF Pair
  <2> QED BY <1>3, <2>2, <2>8
<1> HIDE DEF R
<1>9. <<p, e>> \in Covering(t)
  <2>1. <<p, e>> \in R
    BY <1>1, <1>4
  <2> QED BY <1>0, <1>2, <1>3, <1>7, <2>1
<1>10. ASSUME NEW s \in Covering(t), \A r \in Covering(t) : FirstByLower(s, r)
       PROVE  s = <<p, e>>
  <2>1. s \in R /\ s[1] <= t /\ t < s[2] /\ FirstByLower(s, <<p, e>>)
    BY <1>2, <1>9, <1>10
  <2>2. Span(P, s[1], s[2]) /\ s = <<s[1], s[2]>>
    BY <1>1, <2>1
  <2>3. s[1] \in P \cup {Ever} /\ s[2] \in P \cup {Open} /\ ~(s[1] = Ever /\ s[2] = Open)
    BY <2>2, SpanOnce
  <2>4. s[1] # Ever
    <3> SUFFICES ASSUME s[1] = Ever PROVE FALSE
      OBVIOUS
    <3>1. s[2] \in P
      BY <2>3
    <3> QED BY <1>8, <2>1, <2>2, <3>1
  <2>5. s[1] >= p
    BY <2>1, <2>4 DEF FirstByLower
  <2>6. s[1] \in P /\ s[1] # t
    BY <2>3, <2>4
  <2>7. s[1] = p
    <3>1. s[1] \in Nat /\ p \in Nat /\ t \in Nat /\ s[1] <= t
      BY <1>0, <1>3, <2>1, <2>6
    <3>2. ~(p < s[1] /\ s[1] < t)
      BY <1>3, <2>6
    <3> QED BY <2>5, <2>6, <3>1, <3>2
  <2> QED BY <1>5, <2>2, <2>7
<1>11. spans' = Replaced(<<p, e>>, <<p, t>>, IF e = Open THEN {} ELSE {<<Ever, e>>})
  <2>1. Covering(t) # {}
    BY <1>9
  <2>2. PICK s \in Covering(t) :
           /\ \A r \in Covering(t) : FirstByLower(s, r)
           /\ spans' = Replaced(s, <<s[1], t>>, IF s[2] = Open THEN {} ELSE {<<Ever, s[2]>>})
    BY <2>1 DEF process_logout_event
  <2>3. s = <<p, e>>
    BY <1>10, <2>2
  <2> QED BY <2>2, <2>3
<1>12. <<p, e>> \in R /\ <<p, t>> \notin R
  <2>1. <<p, e>> \in R
    BY <1>1, <1>4
  <2>2. \A x, y : Span(P, x, y) => y \in P \cup {Open}
    BY SpanOnce
  <2> QED BY <1>0, <1>1, <2>1, <2>2
<1>13. e # Open => <<Ever, e>> \notin R /\ <<Ever, e>> # <<p, t>>
  <2> SUFFICES ASSUME e # Open PROVE <<Ever, e>> \notin R /\ p # Ever
    OBVIOUS
  <2>1. e \in P /\ p # Ever
    BY <1>0, <1>3, <1>5
  <2>2. \A k : Span(P, k, e) => k = p
    BY <1>4, <2>1, SpanOnce
  <2> QED BY <1>1, <2>1, <2>2
<1>14. spans' = SetToBag((R \ {<<p, e>>}) \cup {<<p, t>>} \cup (IF e = Open THEN {} ELSE {<<Ever, e>>}))
  <2> DEFINE I == IF e = Open THEN {} ELSE {<<Ever, e>>}
  <2>1. I \cap ((R \ {<<p, e>>}) \cup {<<p, t>>}) = {}
    BY <1>13
  <2>2. spans = SetToBag(R) /\ <<p, t>> \notin R \ {<<p, e>>}
    BY <1>12 DEF R
  <2> HIDE DEF I
  <2>3. Replaced(<<p, e>>, <<p, t>>, I) = SetToBag((R \ {<<p, e>>}) \cup {<<p, t>>} \cup I)
    BY <1>12, <2>1, <2>2, ReplaceInBag
  <2> QED BY <1>11, <2>3 DEF I
<1>15. Reading(P \cup {t}) = (R \ {<<p, e>>}) \cup {<<p, t>>} \cup (IF e = Open THEN {} ELSE {<<Ever, e>>})
  <2>1. <<p, e>> \in Reading(P)
    BY <1>12 DEF R
  <2> QED BY <2>1, ReadingLogout DEF R
<1> QED BY <1>14, <1>15

(* A logout without a login before it: the spans that cover it are of an   *)
(* unknown login, since an open one began at most three lines earlier than *)
(* the logout that is missing.                                             *)
LEMMA LogoutAtStart ==
  ASSUME NEW P \in SUBSET Line, NEW t \in Line \ P, ~IsLogin(t), Window(P \cup {t}),
         spans = SetToBag(Reading(P)), \A p : Before(P, p, t) => ~IsLogin(p),
         process_logout_event(t)
  PROVE  spans' = SetToBag(Reading(P \cup {t}))
<1> DEFINE R == Reading(P)
<1>0. /\ \A n \in P \cup {t} : n \in Nat /\ n # Ever /\ n # Open /\ Ever < n /\ n < Open
      /\ Ever # Open /\ Ever \in Nat /\ Open \in Nat /\ t \in Nat /\ t # Ever /\ t # Open
  BY LinesAre
<1>1. /\ \A a, b : <<a, b>> \in R <=> Span(P, a, b)
      /\ \A s \in R : s = <<s[1], s[2]>> /\ Span(P, s[1], s[2])
  BY InReading
<1>2. Covering(t) = {s \in R : s[1] <= t /\ t < s[2]}
  BY CoveringAre
<1>3. ASSUME NEW a \in P, NEW b, Span(P, a, b), a <= t, t < b
      PROVE  FALSE
  <2>0. a < t /\ IsLogin(a) /\ a \in Nat
    BY <1>0, <1>3 DEF Span, Pair
  <2>1. CASE Pair(P, a, b)
    <3>1. Before(P, a, t)
      BY <1>0, <1>3, <2>0, <2>1 DEF Pair, Before
    <3> QED BY <2>0, <3>1
  <2>2. CASE ~Pair(P, a, b)
    <3>1. \A k \in P : ~Pair(P, a, k)
      BY <1>0, <1>3, <2>2 DEF Span
    <3>2. a + 1 # t
      <4> SUFFICES ASSUME a + 1 = t PROVE FALSE
        OBVIOUS
      <4>1. Before(P, a, t)
        BY <1>0, <2>0 DEF Before
      <4> QED BY <2>0, <4>1
    <3>3. a + 1 \notin P
      <4> SUFFICES ASSUME a + 1 \in P PROVE FALSE
        OBVIOUS
      <4>1. ~IsLogin(a + 1)
        BY <2>0, NextTurns
      <4>2. Pair(P, a, a + 1)
        BY <1>0, <2>0, <4>1 DEF Pair
      <4> QED BY <3>1, <4>2
    <3>4. a + 1 \in Line \ (P \cup {t}) /\ a + 1 < t
      <4>1. a + 1 < t
        BY <1>0, <2>0, <3>2
      <4>2. a + 1 \in Line
        BY <2>0, <4>1, PresenceAssumption DEF Line
      <4> QED BY <3>2, <3>3, <4>1, <4>2
    <3>5. t - (a + 1) <= 3
      BY <3>4 DEF Window
    <3>6. t = a + 2 \/ t = a + 3 \/ t = a + 4
      BY <1>0, <2>0, <3>4, <3>5
    <3>7. t = a + 3 /\ IsLogin(a + 2)
      BY <2>0, <3>6, NextTurns
    <3>8. a + 2 \notin P
      <4> SUFFICES ASSUME a + 2 \in P PROVE FALSE
        OBVIOUS
      <4>1. \A k \in P : ~(a + 2 < k /\ k < t)
        BY <1>0, <2>0, <3>7
      <4>2. Before(P, a + 2, t)
        BY <1>0, <2>0, <3>7, <4>1 DEF Before
      <4> QED BY <3>7, <4>2
    <3>9. \A k \in P : ~(a < k /\ k < t)
      BY <1>0, <2>0, <3>3, <3>7, <3>8
    <3>10. Before(P, a, t)
      BY <1>3, <2>0, <3>9 DEF Before
    <3> QED BY <2>0, <3>10
  <2> QED BY <2>1, <2>2
<1>4. Reading(P \cup {t}) = R \cup {<<Ever, t>>}
  BY ReadingLogout
<1>5. <<Ever, t>> \notin R
  <2>1. \A x, y : Span(P, x, y) => y \in P \cup {Open}
    BY SpanOnce
  <2> QED BY <1>0, <1>1, <2>1
<1> HIDE DEF R
<1>6. CASE Covering(t) = {}
  <2>1. spans' = spans (+) SetToBag({<<Ever, t>>})
    BY <1>6 DEF process_logout_event
  <2>2. spans = SetToBag(R)
    BY DEF R
  <2> QED BY <1>4, <1>5, <2>1, <2>2, AddToBag
<1>7. CASE Covering(t) # {}
  <2>1. PICK s \in Covering(t) :
           spans' = Replaced(s, <<s[1], t>>, IF s[2] = Open THEN {} ELSE {<<Ever, s[2]>>})
    BY <1>7 DEF process_logout_event
  <2>2. s \in R /\ s = <<s[1], s[2]>> /\ Span(P, s[1], s[2]) /\ s[1] <= t /\ t < s[2]
    BY <1>1, <1>2
  <2>3. s[1] \in P \cup {Ever} /\ s[2] \in P \cup {Open} /\ ~(s[1] = Ever /\ s[2] = Open)
    BY <2>2, SpanOnce
  <2>4. s[1] = Ever /\ s[2] # Open /\ s[2] # t
    BY <1>0, <1>3, <2>2, <2>3
  <2>5. s = <<Ever, s[2]>>
    BY <2>2, <2>4
  <2>6. spans' = Replaced(s, <<Ever, t>>, {s})
    BY <2>1, <2>4, <2>5
  <2>7. s # <<Ever, t>>
    BY <2>4, <2>5
  <2>8. s \notin (R \ {s}) \cup {<<Ever, t>>} /\ spans = SetToBag(R) /\ <<Ever, t>> \notin R \ {s}
    BY <1>5, <2>7 DEF R
  <2>9. {s} \cap ((R \ {s}) \cup {<<Ever, t>>}) = {}
    BY <2>8
  <2>10. Replaced(s, <<Ever, t>>, {s}) = SetToBag((R \ {s}) \cup {<<Ever, t>>} \cup {s})
    BY <2>2, <2>8, <2>9, ReplaceInBag
  <2>11. (R \ {s}) \cup {<<Ever, t>>} \cup {s} = R \cup {<<Ever, t>>}
    BY <2>2
  <2> QED BY <1>4, <2>6, <2>10, <2>11
<1> QED BY <1>6, <1>7

(* So the spans follow the lines read in their order.                      *)
LEMMA SpansFollow ==
  ASSUME NEW P \in SUBSET Line, NEW t \in Line \ P, Window(P), Window(P \cup {t}),
         spans = SetToBag(Reading(P)),
         IF IsLogin(t) THEN process_login_event(t) ELSE process_logout_event(t)
  PROVE  spans' = SetToBag(Reading(P \cup {t}))
<1>1. CASE IsLogin(t) /\ \E q : After(P, t, q) /\ ~IsLogin(q)
  BY <1>1, LoginBeforeLogout
<1>2. CASE IsLogin(t) /\ \A q : After(P, t, q) => IsLogin(q)
  BY <1>2, LoginAtEnd
<1>3. CASE ~IsLogin(t) /\ \E p : Before(P, p, t) /\ IsLogin(p)
  BY <1>3, LogoutAfterLogin
<1>4. CASE ~IsLogin(t) /\ \A p : Before(P, p, t) => ~IsLogin(p)
  BY <1>4, LogoutAtStart
<1> QED BY <1>1, <1>2, <1>3, <1>4
-----------------------------------------------------------------------------
LEMMA OvertookIs ==
  ASSUME PresenceTypes, NEW t \in Line, overtook' = Max({overtook} \cup {m - t : m \in Behind(t)})
  PROVE  overtook' \in Nat /\ overtook <= overtook' /\ \A m \in Behind(t) : m - t <= overtook'
<1> DEFINE S == {overtook} \cup {m - t : m \in Behind(t)}
           b == overtook + Lines
<1>1. overtook \in Nat /\ Lines \in Nat /\ b \in Nat
  BY PresenceAssumption DEF PresenceTypes
<1>2. \A m \in Behind(t) : m - t \in Nat /\ m - t <= Lines
  BY PresenceAssumption DEF Behind, Line
<1>3. S \subseteq Nat /\ S # {} /\ \A x \in S : x <= b
  BY <1>1, <1>2
<1> HIDE DEF b
<1>4. overtook \in S /\ (\A m \in Behind(t) : m - t \in S) /\ overtook' = Max(S)
  OBVIOUS
<1> HIDE DEF S
<1>5. Max(S) \in S /\ \A y \in S : y <= Max(S)
  BY <1>1, <1>3, Largest
<1> QED BY <1>3, <1>4, <1>5

LEMMA ReadingStays ==
  ASSUME first' = first
  PROVE  Reading(Recorded)' = Reading(Recorded')
<1>1. \A n : IsLogin(n)' <=> IsLogin(n)
  BY DEF IsLogin
<1> QED BY <1>1 DEF Reading, Span, Pair

(* A line that changes the spans keeps them as read in order.              *)
LEMMA RecordKeepsSpans ==
  ASSUME PresenceTypes, SpansInv, NEW t \in Line, RecordLine(t)
  PROVE  SpansInv'
<1> SUFFICES ASSUME overtook' <= 3, \A n \in Line : runs'[n] <= 1, Window(Recorded')
             PROVE  spans' = SetToBag(Reading(Recorded'))
  <2>1. first' = first
    BY DEF RecordLine
  <2>2. Window(Recorded)' <=> Window(Recorded')
    BY DEF Window
  <2> QED BY <2>1, <2>2, ReadingStays DEF SpansInv
<1>1. runs \in [Line -> 0 .. 2] /\ runs' = [runs EXCEPT ![t] = IF @ = 0 THEN 1 ELSE 2]
  BY DEF PresenceTypes, RecordLine
<1>2. runs[t] = 0
  <2>1. runs'[t] = IF runs[t] = 0 THEN 1 ELSE 2
    BY <1>1
  <2>2. runs'[t] <= 1
    OBVIOUS
  <2> QED BY <2>1, <2>2
<1>3. \A n \in Line : n # t => runs'[n] = runs[n]
  BY <1>1
<1>4. Recorded' = Recorded \cup {t} /\ t \notin Recorded /\ Recorded \subseteq Line
  BY <1>1, <1>2, <1>3 DEF Recorded
<1>5. \A n \in Line : runs[n] <= 1
  BY <1>2, <1>3
<1>6. overtook <= 3 /\ \A m \in Behind(t) : m - t <= 3
  <2>1. overtook' = Max({overtook} \cup {m - t : m \in Behind(t)})
    BY DEF RecordLine
  <2>2. overtook' \in Nat /\ overtook <= overtook' /\ \A m \in Behind(t) : m - t <= overtook'
    BY <2>1, OvertookIs
  <2>3. \A m \in Behind(t) : m - t \in Int
    BY LinesAre DEF Behind
  <2>4. overtook \in Nat
    BY DEF PresenceTypes
  <2> QED BY <2>2, <2>3, <2>4
<1>7. Window(Recorded)
  <2> SUFFICES ASSUME NEW m \in Recorded, NEW u \in Line \ Recorded, u < m
               PROVE  m - u <= 3
    BY DEF Window
  <2>1. CASE u = t
    <3>1. m \in Behind(t)
      <4>1. m \in Line /\ runs[m] # 0 /\ runs[m] \in 0 .. 2
        BY <1>1 DEF Recorded
      <4> QED BY <2>1, <4>1 DEF Behind
    <3> QED BY <1>6, <2>1, <3>1
  <2>2. CASE u # t
    BY <1>4, <2>2 DEF Window
  <2> QED BY <2>1, <2>2
<1>8. spans = SetToBag(Reading(Recorded))
  BY <1>5, <1>6, <1>7 DEF SpansInv
<1>9. IF IsLogin(t) THEN process_login_event(t) ELSE process_logout_event(t)
  BY DEF RecordLine
<1>10. t \in Line \ Recorded /\ Recorded \in SUBSET Line /\ Window(Recorded \cup {t})
  BY <1>4
<1>11. spans' = SetToBag(Reading(Recorded \cup {t}))
  BY <1>7, <1>8, <1>9, <1>10, SpansFollow
<1> QED BY <1>4, <1>11

LEMMA PresenceTypesHold == PresenceInit => PresenceTypes
BY PresenceAssumption DEF PresenceInit, PresenceTypes, Line

LEMMA PresenceTypesStay ==
  ASSUME PresenceTypes, [PresenceNext]_presenceVars
  PROVE  PresenceTypes'
<1> USE DEF PresenceTypes
<1>0. Lines \in Nat /\ \A n \in Line : n \in Nat
  BY PresenceAssumption, LinesAre
<1>1. CASE Send
  <2>1. sent' = sent + 1 /\ sent' \in 0 .. Lines
    BY <1>0, <1>1 DEF Send
  <2>2. job' = [job EXCEPT ![sent + 1] = "queued"] /\ UNCHANGED <<first, runs, overtook>>
    BY <1>1 DEF Send, JobTo
  <2>3. \A n \in Line : n # sent + 1 => job'[n] = job[n]
    BY <2>2
  <2>4. \A n \in Line : (job'[n] # "unsent" \/ runs'[n] # 0) => n <= sent'
    BY <1>0, <2>1, <2>2, <2>3
  <2> QED BY <2>1, <2>2, <2>4
<1>2. CASE StopJobs
  BY <1>2 DEF StopJobs, Slip
<1>3. ASSUME NEW n \in Line, RecordLine(n)
      PROVE  PresenceTypes'
  <2>1. overtook' \in Nat
    BY <1>3, OvertookIs DEF RecordLine
  <2>2. /\ first' = first /\ sent' = sent /\ job[n] = "resolve"
        /\ job' = [job EXCEPT ![n] = "mark"]
        /\ runs' = [runs EXCEPT ![n] = IF @ = 0 THEN 1 ELSE 2]
    BY <1>3 DEF RecordLine, JobTo
  <2>3. n <= sent
    BY <2>2
  <2>4. \A k \in Line : (job'[k] # "unsent" \/ runs'[k] # 0) => k <= sent'
    BY <2>2, <2>3
  <2> QED BY <2>1, <2>2, <2>4
<1>4. ASSUME NEW n \in Line, SendAgain(n) \/ FindLog(n) \/ NoCharacter(n) \/ MarkProcessed(n) \/ JobFails(n)
      PROVE  PresenceTypes'
  <2>1. /\ UNCHANGED <<first, sent, runs, overtook>> /\ job[n] # "unsent"
        /\ \E s \in {"queued", "resolve", "mark", "done"} : job' = [job EXCEPT ![n] = s]
    BY <1>4 DEF SendAgain, FindLog, NoCharacter, MarkProcessed, JobFails, JobTo
  <2> QED BY <2>1
<1>5. CASE UNCHANGED presenceVars
  BY <1>5 DEF presenceVars
<1> QED BY <1>1, <1>2, <1>3, <1>4, <1>5 DEF PresenceNext

LEMMA PresenceInductive ==
  /\ PresenceInit => PresenceInv
  /\ PresenceInv /\ [PresenceNext]_presenceVars => PresenceInv'
<1>1. PresenceInit => SpansInv
  <2> SUFFICES ASSUME PresenceInit PROVE SpansInv
    OBVIOUS
  <2>1. Recorded = {} /\ spans = EmptyBag
    BY DEF PresenceInit, Recorded
  <2>2. Reading({}) = {}
    BY DEF Reading, Span, Pair
  <2>3. SetToBag({}) = EmptyBag
    BY DEF SetToBag, EmptyBag
  <2> QED BY <2>1, <2>2, <2>3 DEF SpansInv
<1>2. ASSUME PresenceInv, [PresenceNext]_presenceVars
      PROVE  SpansInv'
  <2>1. ASSUME NEW n \in Line, RecordLine(n)
        PROVE  SpansInv'
    BY <1>2, <2>1, RecordKeepsSpans DEF PresenceInv
  <2>2. ASSUME UNCHANGED <<first, spans, runs, overtook>>
        PROVE  SpansInv'
    <3>1. Recorded' = Recorded /\ Reading(Recorded)' = Reading(Recorded')
      BY <2>2, ReadingStays DEF Recorded
    <3>2. Window(Recorded)' <=> Window(Recorded)
      BY <3>1 DEF Window
    <3> QED BY <1>2, <2>2, <3>1, <3>2 DEF PresenceInv, SpansInv
  <2>3. (\E n \in Line : RecordLine(n)) \/ UNCHANGED <<first, spans, runs, overtook>>
    BY <1>2 DEF PresenceNext, presenceVars, Send, StopJobs, SendAgain, FindLog, NoCharacter, MarkProcessed,
                JobFails
  <2> QED BY <2>1, <2>2, <2>3
<1> QED BY <1>1, <1>2, PresenceTypesHold, PresenceTypesStay DEF PresenceInv

(* When every line has had its effect once, what is read are the sessions. *)
LEMMA ReadingIsSessions ==
  ASSUME PresenceTypes, \A n \in 1 .. sent : runs[n] = 1
  PROVE  /\ \A n \in Line : runs[n] <= 1
         /\ Window(Recorded)
         /\ Reading(Recorded) = Sessions
<1> DEFINE P == 1 .. sent
<1>0. sent \in Nat /\ Lines \in Nat /\ sent <= Lines /\ P \subseteq Line /\ \A n \in Line : n \in Nat
  BY PresenceAssumption, LinesAre DEF PresenceTypes, Line
<1>1. \A n \in Line : (n \in P => runs[n] = 1) /\ (n \notin P => runs[n] = 0)
  BY <1>0 DEF PresenceTypes, Line
<1>2. Recorded = P /\ \A n \in Line : runs[n] <= 1
  BY <1>0, <1>1 DEF Recorded
<1>3. Window(P)
  BY <1>0 DEF Window, Line
<1>4. \A n \in P : n \in Nat /\ n >= 1 /\ n <= sent /\ n # Ever /\ n # Open
  BY <1>0, LinesAre
<1>5. \A n : n \in P <=> n \in Nat /\ n >= 1 /\ n <= sent
  BY <1>0
<1> HIDE DEF P
<1>6. \A a, b : Pair(P, a, b) <=> a \in P /\ a # sent /\ b = a + 1 /\ IsLogin(a)
  <2> SUFFICES ASSUME NEW a, NEW b
               PROVE  Pair(P, a, b) <=> a \in P /\ a # sent /\ b = a + 1 /\ IsLogin(a)
    OBVIOUS
  <2>1. ASSUME Pair(P, a, b)
        PROVE  a \in P /\ a # sent /\ b = a + 1 /\ IsLogin(a)
    <3>1. a \in P /\ b \in P /\ a < b /\ IsLogin(a) /\ \A k \in P : ~(a < k /\ k < b)
      BY <2>1 DEF Pair
    <3>2. a + 1 \in P
      BY <1>0, <1>5, <3>1
    <3> QED BY <1>0, <1>5, <3>1, <3>2
  <2>2. ASSUME a \in P, a # sent, b = a + 1, IsLogin(a)
        PROVE  Pair(P, a, b)
    <3>1. a \in Nat /\ b \in P /\ a < b
      BY <1>0, <1>5, <2>2
    <3>2. ~IsLogin(b)
      BY <2>2, <3>1, NextTurns
    <3>3. \A k \in P : ~(a < k /\ k < b)
      BY <1>5, <2>2, <3>1
    <3> QED BY <2>2, <3>1, <3>2, <3>3 DEF Pair
  <2> QED BY <2>1, <2>2
<1>7. Ever = 0 /\ Open = Lines + 1 /\ Ever # Open
  BY <1>0 DEF Ever, Open
<1>8. \A a, b : Span(P, a, b) <=>
         \/ a \in P /\ IsLogin(a) /\ b = IF a = sent THEN Open ELSE a + 1
         \/ a = Ever /\ b = 1 /\ 1 <= sent /\ ~IsLogin(1)
  <2> SUFFICES ASSUME NEW a, NEW b
               PROVE  Span(P, a, b) <=>
                        \/ a \in P /\ IsLogin(a) /\ b = IF a = sent THEN Open ELSE a + 1
                        \/ a = Ever /\ b = 1 /\ 1 <= sent /\ ~IsLogin(1)
    OBVIOUS
  <2>1. (b = Open /\ a \in P /\ IsLogin(a) /\ \A k \in P : ~Pair(P, a, k))
          <=> b = Open /\ a = sent /\ a \in P /\ IsLogin(a)
    <3>1. a \in P /\ a # sent => a + 1 \in P
      BY <1>0, <1>5
    <3> QED BY <1>6, <3>1
  <2>2. (a = Ever /\ b \in P /\ ~IsLogin(b) /\ \A k \in P : ~Pair(P, k, b))
          <=> a = Ever /\ b = 1 /\ 1 <= sent /\ ~IsLogin(1)
    <3>1. b \in P /\ b # 1 /\ ~IsLogin(b) => \E k \in P : Pair(P, k, b)
      <4> SUFFICES ASSUME b \in P, b # 1, ~IsLogin(b) PROVE Pair(P, b - 1, b) /\ b - 1 \in P
        OBVIOUS
      <4>1. b - 1 \in P /\ b - 1 # sent /\ b = (b - 1) + 1 /\ b - 1 \in Nat
        BY <1>0, <1>5
      <4>2. IsLogin(b - 1)
        BY <4>1, NextTurns
      <4> QED BY <1>6, <4>1, <4>2
    <3>2. \A k \in P : ~Pair(P, k, 1)
      BY <1>5, <1>6
    <3>3. 1 \in P <=> 1 <= sent
      BY <1>0, <1>5
    <3> QED BY <3>1, <3>2, <3>3
  <2>3. Pair(P, a, b) <=> a \in P /\ IsLogin(a) /\ a # sent /\ b = a + 1
    BY <1>6
  <2> QED BY <2>1, <2>2, <2>3 DEF Span
<1>9. \A a, b : <<a, b>> \in Reading(P) <=> Span(P, a, b)
  BY <1>0, InReading
<1>10. \A a, b : <<a, b>> \in Sessions <=>
         \/ a \in P /\ IsLogin(a) /\ b = IF a = sent THEN Open ELSE a + 1
         \/ a = Ever /\ b = 1 /\ 1 <= sent /\ ~IsLogin(1)
  BY <1>0 DEF Sessions, P
<1>11. /\ \A s \in Reading(P) : s = <<s[1], s[2]>>
       /\ \A s \in Sessions : s = <<s[1], s[2]>>
  BY <1>0, InReading DEF Sessions
<1>12. Reading(P) = Sessions
  <2> DEFINE A == Reading(P)
             B == Sessions
  <2>1. \A a, b : <<a, b>> \in A <=> <<a, b>> \in B
    BY <1>8, <1>9, <1>10
  <2>2. (\A s \in A : s = <<s[1], s[2]>>) /\ (\A s \in B : s = <<s[1], s[2]>>)
    BY <1>11
  <2> HIDE DEF A, B
  <2>3. A = B
    BY <2>1, <2>2
  <2> QED BY <2>3 DEF A, B
<1> QED BY <1>2, <1>3, <1>12

(* Whatever the order in which the lines were processed, the spans are     *)
(* those of the lines read in their order, for any number of lines, as     *)
(* soon as every line has had its effect once and none was overtaken by    *)
(* one more than three lines later (tasks.py, process_login_event).        *)
THEOREM SessionsKept == PresenceSpec => []SessionsMatchLines
<1>1. PresenceInv => SessionsMatchLines
  BY ReadingIsSessions DEF PresenceInv, SpansInv, SessionsMatchLines
<1> QED BY <1>1, PresenceInductive, PTL DEF PresenceSpec
=============================================================================
