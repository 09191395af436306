------------------------------ MODULE Polling -------------------------------
(***************************************************************************)
(* The webhook events without the SSE connection: monitor_webhook asks the *)
(* mod server every four seconds for its whole ring of events and keeps    *)
(* those above the mark (webhook.py, pipeline/dedup.py).  The events here  *)
(* have no number, so that the mark is a time; a worker without a mark     *)
(* takes over the newest time in the ring when it starts (worker.py).      *)
(***************************************************************************)
EXTENDS Naturals, FiniteSetsExt

CONSTANTS Poller,       \* runs of the cron that may overlap
          Emits,        \* bound: events
          Ticks,        \* bound: instants that the timestamps tell apart
          RingLength,   \* events that the mod server keeps
          Breaks        \* bound: exceptions of a handler, stops of the worker

ASSUME PollingAssumption ==
  {Emits, Ticks, RingLength} \subseteq Nat \ {0} /\ Breaks \in Nat

VARIABLES now,          \* the clock of the mod server
          stamp,        \* the timestamp of each event, 0: not there yet
          floor,        \* LAST_TS_CACHE_KEY, 0: none
          worker,       \* "starting", "running"
          poll,         \* monitor_webhook: the events of the batch, those left
          breaks,
          dealt,        \* ghost: how often each event was dispatched
          broken,       \* ghost: batches that did not end, by event
          waived        \* ghost: what the ring held when a mark was taken over

pollingVars == <<now, stamp, floor, worker, poll, breaks, dealt, broken, waived>>

Number  == 1 .. Emits
NoBatch == [all |-> {}, todo |-> {}]

PollingInit ==
  /\ now = 1 /\ stamp = [n \in Number |-> 0]
  /\ floor = 0 /\ worker = "starting"
  /\ poll = [p \in Poller |-> NoBatch] /\ breaks = 0
  /\ dealt = [n \in Number |-> 0] /\ broken = [n \in Number |-> 0] /\ waived = {}

-----------------------------------------------------------------------------
(* The mod server.                                                         *)
Occurred == {n \in Number : stamp[n] > 0}
InRing   == {n \in Occurred : n + RingLength > Cardinality(Occurred)}

ClockTicks ==
  /\ now < Ticks
  /\ now' = now + 1
  /\ UNCHANGED <<stamp, floor, worker, poll, breaks, dealt, broken, waived>>

Occur ==
  /\ Cardinality(Occurred) < Emits
  /\ stamp' = [stamp EXCEPT ![Cardinality(Occurred) + 1] = now]
  /\ UNCHANGED <<now, floor, worker, poll, breaks, dealt, broken, waived>>

-----------------------------------------------------------------------------
(* startup; the request may fail, and then there is no mark.               *)
Bootstrap ==
  /\ worker = "starting"
  /\ worker' = "running"
  /\ \/ /\ floor = 0 /\ InRing # {}
        /\ floor' = Max({stamp[n] : n \in InRing})
        /\ waived' = waived \cup InRing
     \/ UNCHANGED <<floor, waived>>
  /\ UNCHANGED <<now, stamp, poll, breaks, dealt, broken>>

(* deduplicate_events; a mark of zero is no mark.                          *)
Fresh == {n \in InRing : floor = 0 \/ stamp[n] > floor}

PollAnyway(p) ==   \* planted mistake: a poll starts beside the running one
  /\ worker = "running" /\ poll[p] = NoBatch /\ Fresh # {}
  /\ poll' = [poll EXCEPT ![p] = [all |-> Fresh, todo |-> Fresh]]
  /\ UNCHANGED <<now, stamp, floor, worker, breaks, dealt, broken, waived>>

(* skip_if_running.                                                        *)
Poll(p) ==
  /\ worker = "running" /\ \A q \in Poller : poll[q] = NoBatch
  /\ Fresh # {}
  /\ poll' = [poll EXCEPT ![p] = [all |-> Fresh, todo |-> Fresh]]
  /\ UNCHANGED <<now, stamp, floor, worker, breaks, dealt, broken, waived>>

(* The batch is sorted by character and hook: any event may be the next.   *)
Dispatch(p) ==
  \E n \in poll[p].todo :
    /\ dealt' = [dealt EXCEPT ![n] = @ + 1]
    /\ poll' = [poll EXCEPT ![p].todo = @ \ {n}]
    /\ UNCHANGED <<now, stamp, floor, worker, breaks, broken, waived>>

(* persist_watermarks.                                                     *)
Persist(p) ==
  /\ poll[p] # NoBatch /\ poll[p].todo = {}
  /\ floor' = Max({floor} \cup {stamp[n] : n \in poll[p].all})
  /\ poll' = [poll EXCEPT ![p] = NoBatch]
  /\ UNCHANGED <<now, stamp, worker, breaks, dealt, broken, waived>>

Break(ps) ==
  /\ breaks < Breaks /\ breaks' = breaks + 1
  /\ broken' = [n \in Number |->
                  IF \E p \in ps : n \in poll[p].all THEN broken[n] + 1 ELSE broken[n]]
  /\ poll' = [p \in Poller |-> IF p \in ps THEN NoBatch ELSE poll[p]]

(* The handler of an event raises: nothing is marked, and the next poll    *)
(* fetches the batch again.  Some of the event's effects may have happened.*)
DispatchRaises(p) ==
  \E n \in poll[p].todo :
    /\ Break({p})
    /\ \/ dealt' = [dealt EXCEPT ![n] = @ + 1]
       \/ UNCHANGED dealt
    /\ UNCHANGED <<now, stamp, floor, worker, waived>>

StopPolling ==
  /\ worker = "running"
  /\ Break(Poller)
  /\ worker' = "starting"
  /\ UNCHANGED <<now, stamp, floor, dealt, waived>>

PollingNext ==
  \/ ClockTicks \/ Occur \/ Bootstrap \/ StopPolling
  \/ \E p \in Poller : Poll(p) \/ Dispatch(p) \/ Persist(p) \/ DispatchRaises(p)

PollingSpec == PollingInit /\ [][PollingNext]_pollingVars

-----------------------------------------------------------------------------
Settled(n)  == dealt[n] > 0 \/ n \in waived
Shadowed(n) == \E m \in Number : m < n /\ stamp[m] = stamp[n] /\ Settled(m)

(* An event is dispatched again only for a batch of it that broke, once    *)
(* for each; and the mark passes an event that was not dispatched only if  *)
(* it fell into the instant of one that was, or was in the ring when a     *)
(* worker took over its mark (webhook.py:126-130, dedup.py:60-68).         *)
PolledOnce ==
  /\ \A n \in Number : dealt[n] <= 1 + broken[n]
  /\ \A n \in InRing : stamp[n] <= floor => Settled(n) \/ Shadowed(n)
=============================================================================
