------------------------------- MODULE Ingest -------------------------------
(***************************************************************************)
(* The webhook events of the mod server, from its ring buffer to           *)
(* process_events: the SSE listener and its flush task (sse_client.py),    *)
(* the batches of process_events (webhook.py) and their marks (Watermark). *)
(*                                                                         *)
(* Listener and flush task are two coroutines of the worker; an action is  *)
(* the code between two awaits.  The mod server is external: it numbers    *)
(* the events of each of its starts, keeps the last of them in a ring, and *)
(* answers a connection with what follows the Last-Event-ID.               *)
(***************************************************************************)
EXTENDS Watermark

CONSTANTS RingSize,      \* events that the mod server keeps
          Leftover,      \* the mark that the polling mode left in the cache
          MaxDrops,      \* bound: connections lost, and silences of 120 s
          MaxFailures,   \* bound: exceptions of a handler
          MaxRestarts    \* bound: stops of the worker

ASSUME IngestAssumption ==
  /\ RingSize \in Nat \ {0} /\ Leftover \in Nat
  /\ MaxDrops \in Nat /\ MaxFailures \in Nat /\ MaxRestarts \in Nat

VARIABLES epoch,      \* the mod server's current start
          head,       \* events it has sent out, for each start
          open,       \* the server's end of the connection is open
          stream,     \* sent and not yet read by the listener
          reader,     \* run_sse_listener
          buffer,     \* event_buffer
          signal,     \* event_signal
          flush,      \* _flush_loop
          work,       \* the running process_events
          handled,    \* how often an event was dispatched (ghost)
          rewarded,   \* how often its profit was paid out (ghost)
          died,       \* events of batches that did not end well (ghost)
          lost,       \* received, and given up before they were done (ghost)
          missed,     \* no connection ever offered them (ghost)
          dropped,    \* taken for duplicates (ghost)
          silences,   \* times the mark was zeroed by a read timeout (ghost)
          drops, failures, restarts   \* counted against the bounds

server   == <<epoch, head, open, stream>>
ghosts   == <<handled, rewarded, died, lost, missed, dropped, silences>>
counters == <<drops, failures, restarts>>
vars     == <<marks, server, reader, buffer, signal, flush, work, ghosts, counters>>

NoId   == <<0, 0>>   \* last_event_id = "0"
NoWork == [all |-> {}, todo |-> {}, due |-> {}, max |-> 0, last |-> 0]

Starting(id) == [at |-> "connect", id |-> id, epoch |-> epochMark,
                 event |-> NoId, stopping |-> FALSE]

Init ==
  /\ epochMark = NoEpoch /\ seqMark = Leftover
  /\ epoch = 1 /\ head = [n \in 1 .. MaxEpoch |-> 0]
  /\ open = FALSE /\ stream = <<>>
  /\ reader = Starting(NoId)
  /\ buffer = <<>> /\ signal = FALSE /\ flush = "none" /\ work = NoWork
  /\ handled = [e \in Event |-> 0] /\ rewarded = [e \in Event |-> 0]
  /\ died = {} /\ lost = {} /\ missed = {} /\ dropped = {}
  /\ silences = 0 /\ drops = 0 /\ failures = 0 /\ restarts = 0

-----------------------------------------------------------------------------
(* The mod server.                                                         *)
Emit ==
  /\ head[epoch] < MaxSeq
  /\ head' = [head EXCEPT ![epoch] = @ + 1]
  /\ stream' = IF open THEN Append(stream, <<epoch, head'[epoch]>>) ELSE stream
  /\ UNCHANGED <<marks, epoch, open, reader, buffer, signal, flush, work,
                 ghosts, counters>>

(* What was sent may still arrive, or some of it may not.                  *)
Disconnect ==
  /\ open' = FALSE
  /\ \E n \in 0 .. Len(stream) : stream' = SubSeq(stream, 1, n)

RestartServer ==
  /\ epoch < MaxEpoch
  /\ epoch' = epoch + 1
  /\ Disconnect
  /\ UNCHANGED <<marks, head, reader, buffer, signal, flush, work, ghosts, counters>>

LoseConnection ==
  /\ open /\ drops < MaxDrops
  /\ drops' = drops + 1
  /\ Disconnect
  /\ UNCHANGED <<marks, epoch, head, reader, buffer, signal, flush, work, ghosts,
                 failures, restarts>>

Emitted == {e \in Event : SeqOf(e) <= head[EpochOf(e)]}

After(id, e) == EpochOf(e) > EpochOf(id) \/ (EpochOf(e) = EpochOf(id) /\ SeqOf(e) > SeqOf(id))

Ring == (IF head[epoch] > RingSize THEN head[epoch] - RingSize ELSE 0) + 1 .. head[epoch]

(* Without a Last-Event-ID the server may replay its ring or start live.   *)
Replays(id) ==
  IF id = NoId THEN {Ring, {}} ELSE {{n \in Ring : After(id, <<epoch, n>>)}}

-----------------------------------------------------------------------------
(* run_sse_listener.  A connection gets a buffer and a flush task of its   *)
(* own.                                                                    *)
Connect ==
  /\ reader.at = "connect"
  /\ \E replay \in Replays(reader.id) :
       /\ stream' = [i \in 1 .. Cardinality(replay) |->
                       <<epoch, head[epoch] - Cardinality(replay) + i>>]
       /\ missed' = missed \cup {e \in Emitted : After(reader.id, e)
                                   /\ ~(EpochOf(e) = epoch /\ SeqOf(e) \in replay)}
  /\ open' = TRUE
  /\ reader' = [reader EXCEPT !.at = "read"]
  /\ buffer' = <<>> /\ signal' = FALSE /\ flush' = "waiting"
  /\ UNCHANGED <<marks, epoch, head, work, handled, rewarded, died, lost, dropped,
                 silences, counters>>

ReadEvent ==
  /\ reader.at = "read" /\ stream # <<>>
  /\ LET e == Head(stream) IN
       reader' = [reader EXCEPT !.id = e, !.event = e,
                    !.at = IF reader.epoch \notin {NoEpoch, EpochOf(e)}
                           THEN "resetSeq" ELSE "setEpoch"]
  /\ stream' = Tail(stream)
  /\ UNCHANGED <<marks, epoch, head, open, buffer, signal, flush, work, ghosts, counters>>

(* The two writes to the cache and the append are separate steps.          *)
ResetSeq ==
  /\ reader.at = "resetSeq"
  /\ seqMark' = 0
  /\ reader' = [reader EXCEPT !.at = "setEpoch"]
  /\ UNCHANGED <<epochMark, server, buffer, signal, flush, work, ghosts, counters>>

SetEpoch ==
  /\ reader.at = "setEpoch"
  /\ epochMark' = EpochOf(reader.event)
  /\ reader' = [reader EXCEPT !.at = "append", !.epoch = EpochOf(reader.event)]
  /\ UNCHANGED <<seqMark, server, buffer, signal, flush, work, ghosts, counters>>

NotifyAppend ==   \* planted mistake: a task that is busy is not signalled
  /\ reader.at = "append"
  /\ buffer' = Append(buffer, reader.event)
  /\ signal' = (flush = "waiting" \/ signal)
  /\ reader' = [reader EXCEPT !.at = "read", !.event = NoId]
  /\ UNCHANGED <<marks, server, flush, work, ghosts, counters>>

AppendEvent ==
  /\ reader.at = "append"
  /\ buffer' = Append(buffer, reader.event) /\ signal' = TRUE
  /\ reader' = [reader EXCEPT !.at = "read", !.event = NoId]
  /\ UNCHANGED <<marks, server, flush, work, ghosts, counters>>

(* 120 seconds of silence: the mark is zeroed and the connection closed.   *)
ReadTimeout ==
  /\ reader.at = "read" /\ open /\ stream = <<>> /\ drops < MaxDrops
  /\ drops' = drops + 1
  /\ seqMark' = 0 /\ silences' = silences + 1
  /\ reader' = [reader EXCEPT !.at = "closing"]
  /\ UNCHANGED <<epochMark, server, buffer, signal, flush, work, handled, rewarded,
                 died, lost, missed, dropped, failures, restarts>>

EndOfStream ==
  /\ reader.at = "read" /\ ~open /\ stream = <<>>
  /\ reader' = [reader EXCEPT !.at = "closing"]
  /\ UNCHANGED <<marks, server, buffer, signal, flush, work, ghosts, counters>>

-----------------------------------------------------------------------------
(* process_events: a batch above the mark is dispatched, event by event in *)
(* an order of its own (by player and hook), then the profits are paid,    *)
(* then the mark is moved.                                                 *)
StartWork(batch) ==
  /\ deduplicate_events(batch)
  /\ dropped' = dropped \cup (EventsOf(batch) \ NewEvents(batch))
  /\ work' = IF NewEvents(batch) = {} THEN NoWork
             ELSE [all |-> NewEvents(batch), todo |-> NewEvents(batch), due |-> {},
                   max |-> MaxSeqOf(batch), last |-> LastProcessed(batch)]

Working == work # NoWork

HandleEvent(e) ==
  /\ e \in work.todo
  /\ handled' = [handled EXCEPT ![e] = @ + 1]
  /\ work' = [work EXCEPT !.todo = @ \ {e}, !.due = @ \cup {e}]
  /\ UNCHANGED <<marks, server, reader, buffer, signal, flush, rewarded, died, lost,
                 missed, dropped, silences, counters>>

PayProfit(e) ==
  /\ work.todo = {} /\ e \in work.due
  /\ rewarded' = [rewarded EXCEPT ![e] = @ + 1]
  /\ work' = [work EXCEPT !.due = @ \ {e}]
  /\ UNCHANGED <<marks, server, reader, buffer, signal, flush, handled, died, lost,
                 missed, dropped, silences, counters>>

(* Whoever called process_events goes on.                                  *)
Return ==
  IF reader.at = "flushRest"
  THEN /\ reader' = [reader EXCEPT !.at = IF reader.stopping THEN "stopped" ELSE "connect"]
       /\ UNCHANGED flush
  ELSE flush' = "waiting" /\ UNCHANGED reader

EndWork ==
  /\ Working /\ work.todo = {} /\ work.due = {}
  /\ persist_watermarks(work.max, work.last)
  /\ work' = NoWork
  /\ Return
  /\ UNCHANGED <<server, buffer, signal, ghosts, counters>>

GiveUp == /\ died' = died \cup work.all
          /\ lost' = lost \cup work.todo \cup work.due

(* A handler raises: both callers log the exception and go on.             *)
FailWork ==
  /\ Working /\ failures < MaxFailures
  /\ failures' = failures + 1
  /\ GiveUp
  /\ work' = NoWork
  /\ Return
  /\ UNCHANGED <<marks, server, buffer, signal, handled, rewarded, missed, dropped,
                 silences, drops, restarts>>

-----------------------------------------------------------------------------
(* _flush_loop.                                                            *)
Wake ==
  /\ flush = "waiting" /\ signal
  /\ signal' = FALSE /\ flush' = "debounce"
  /\ UNCHANGED <<marks, server, reader, buffer, work, ghosts, counters>>

Debounce ==
  /\ flush = "debounce" /\ signal
  /\ signal' = FALSE
  /\ UNCHANGED <<marks, server, reader, buffer, flush, work, ghosts, counters>>

(* Silence, the ceiling or a full batch ends the debounce.                 *)
Drain ==
  /\ flush = "debounce"
  /\ IF buffer = <<>>
     THEN flush' = "waiting" /\ UNCHANGED <<marks, work, dropped>>
     ELSE /\ StartWork(buffer)
          /\ flush' = IF work' = NoWork THEN "waiting" ELSE "processing"
  /\ buffer' = <<>>
  /\ UNCHANGED <<server, reader, signal, handled, rewarded, died, lost, missed,
                 silences, counters>>

CloseWithoutFlush ==   \* planted mistake: the buffer is thrown away
  /\ reader.at = "closing"
  /\ GiveUp /\ flush' = "none"
  /\ reader' = [reader EXCEPT !.at = IF reader.stopping THEN "stopped" ELSE "connect"]
  /\ work' = NoWork
  /\ buffer' = <<>> /\ open' = FALSE /\ stream' = <<>>
  /\ UNCHANGED <<marks, epoch, head, signal, handled, rewarded, missed, dropped,
                 silences, counters>>

CloseWithoutCancel ==   \* planted mistake: the flush task goes on
  /\ reader.at = "closing"
  /\ IF buffer = <<>> \/ Working
     THEN reader' = [reader EXCEPT !.at = "connect"] /\ UNCHANGED <<marks, work, dropped>>
     ELSE StartWork(buffer) /\ reader' = [reader EXCEPT !.at = "flushRest"]
  /\ buffer' = <<>> /\ open' = FALSE /\ stream' = <<>>
  /\ UNCHANGED <<epoch, head, signal, flush, handled, rewarded, died, lost, missed,
                 silences, counters>>

(* The connection is over: the flush task is cancelled, wherever it is,    *)
(* and the listener processes what the buffer still holds.                 *)
CancelFlush ==
  /\ reader.at = "closing"
  /\ GiveUp /\ flush' = "none"
  /\ LET next == IF reader.stopping THEN "stopped" ELSE "connect" IN
       IF buffer = <<>>
       THEN /\ reader' = [reader EXCEPT !.at = next]
            /\ work' = NoWork /\ UNCHANGED <<marks, dropped>>
       ELSE /\ StartWork(buffer)
            /\ reader' = [reader EXCEPT !.at = IF work' = NoWork THEN next ELSE "flushRest"]
  /\ buffer' = <<>> /\ open' = FALSE /\ stream' = <<>>
  /\ UNCHANGED <<epoch, head, signal, handled, rewarded, missed, silences, counters>>

-----------------------------------------------------------------------------
(* The worker stops: on shutdown the listener is cancelled and runs its    *)
(* finally block, a kill ends everything at once.  At the start the        *)
(* listener takes its position from the cache.                             *)
Shutdown ==
  /\ restarts < MaxRestarts
  /\ reader.at \in {"read", "resetSeq", "setEpoch", "append"}
  /\ restarts' = restarts + 1
  /\ reader' = [reader EXCEPT !.at = "closing", !.stopping = TRUE, !.event = NoId]
  /\ UNCHANGED <<marks, server, buffer, signal, flush, work, ghosts, drops, failures>>

Kill ==
  /\ restarts < MaxRestarts /\ ~reader.stopping
  /\ restarts' = restarts + 1
  /\ GiveUp
  /\ reader' = [reader EXCEPT !.at = "stopped", !.event = NoId]
  /\ open' = FALSE /\ stream' = <<>>
  /\ buffer' = <<>> /\ flush' = "none" /\ work' = NoWork
  /\ UNCHANGED <<marks, epoch, head, signal, handled, rewarded, missed, dropped,
                 silences, drops, failures>>

CachedId == IF epochMark = NoEpoch \/ seqMark = 0 THEN NoId ELSE <<epochMark, seqMark>>

StartWorker ==
  /\ reader.at = "stopped"
  /\ reader' = Starting(CachedId)
  /\ UNCHANGED <<marks, server, buffer, signal, flush, work, ghosts, counters>>

Listen == \/ Connect \/ ReadEvent \/ ResetSeq \/ SetEpoch \/ AppendEvent
          \/ EndOfStream \/ CancelFlush \/ StartWorker

Process == \/ \E e \in Event : HandleEvent(e) \/ PayProfit(e)
           \/ EndWork

FlushStep == Wake \/ Debounce \/ Drain

Mishap == \/ RestartServer \/ LoseConnection \/ ReadTimeout \/ FailWork
          \/ Shutdown \/ Kill

Next == Emit \/ Listen \/ Process \/ FlushStep \/ Mishap

Spec == Init /\ [][Next]_vars

FairSpec == /\ Spec
            /\ WF_vars(Listen) /\ WF_vars(Process)
            /\ WF_vars(Wake) /\ WF_vars(Drain)

-----------------------------------------------------------------------------
(* No event is processed twice, whatever connections break and servers     *)
(* restart, unless its batch died (the handler raised, the connection      *)
(* broke or the worker stopped before the mark was moved) or a silence of  *)
(* 120 s zeroed the mark (sse_client.py:218-223, webhook.py:330).          *)
RepeatNeedsDeath ==
  silences = 0 => \A e \in Event \ died : handled[e] <= 1 /\ rewarded[e] <= 1

Settled == {e \in Event : rewarded[e] > 0} \cup lost \cup missed

(* The mark in the cache covers no event that is still to be processed: a  *)
(* worker that restarts from it skips nothing (sse_client.py:137-147).     *)
MarkIsHonest ==
  \A e \in Emitted :
    EpochOf(e) = epochMark /\ SeqOf(e) <= seqMark => e \in Settled

(* Nor does a connection that starts after last_event_id: what lies before *)
(* it is done, given up with its batch, or still in hand                   *)
(* (sse_client.py:173-175, 252).                                           *)
Pending == EventsOf(buffer) \cup {reader.event} \cup work.todo \cup work.due

NothingSkipped ==
  ~reader.stopping /\ reader.at # "stopped" =>
    \A e \in Emitted : ~After(reader.id, e) => e \in Settled \cup Pending

(* The events in the buffer and in the running batch are of one start of   *)
(* the server, the one in the cache.  deduplicate_events relies on it: it  *)
(* looks at the first event only (dedup.py:29-46).                         *)
OneEpochPerBatch ==
  \A e \in EventsOf(buffer) \cup work.all : EpochOf(e) = epochMark

(* Every event is processed in the end, given up with its batch, or was    *)
(* never offered again after the ring had forgotten it (sse_client.py:290, *)
(* 79-117: no wake-up of the flush task is lost).                          *)
EventsArrive == \A e \in Event : e \in Emitted ~> e \in Settled

-----------------------------------------------------------------------------
(* What comments and tests say, and the program does not do.               *)

(* "The LAST_SEQ is likely from the old polling system and meaningless for *)
(* the SSE ring buffer.  Start fresh." (sse_client.py:144-146), "First     *)
(* epoch (no cached epoch) should set it without filtering."               *)
(* (test_dedup.py:115): with no failure at all, nothing is filtered.       *)
FirstEpochUnfiltered == restarts = 0 /\ failures = 0 => dropped = {}

(* "Flush any remaining events before reconnecting" (sse_client.py:300): a *)
(* lost connection alone costs no event.                                   *)
ReconnectLosesNothing == restarts = 0 /\ failures = 0 /\ silences = 0 => lost = {}
=============================================================================
