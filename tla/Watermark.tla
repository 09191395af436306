----------------------------- MODULE Watermark -----------------------------
(***************************************************************************)
(* pipeline/dedup.py: the two marks in the cache that say which webhook    *)
(* events were processed, and what deduplicate_events and                  *)
(* persist_watermarks do to them.  Both are synchronous: nothing runs      *)
(* between their reads and their writes.                                   *)
(*                                                                         *)
(* An event is <<epoch, seq>>: the start of the mod server that sent it,   *)
(* and its number since then.                                              *)
(***************************************************************************)
EXTENDS Naturals, Sequences, FiniteSetsExt

CONSTANTS MaxEpoch,   \* bound: starts of the mod server
          MaxSeq      \* bound: events of one start

ASSUME EventAssumption == MaxEpoch \in Nat \ {0} /\ MaxSeq \in Nat

Event == (1 .. MaxEpoch) \X (1 .. MaxSeq)

EpochOf(e) == e[1]
SeqOf(e)   == e[2]

NoEpoch == 0   \* the cache holds no epoch

VARIABLES epochMark,   \* LAST_EPOCH_CACHE_KEY
          seqMark      \* LAST_SEQ_CACHE_KEY

marks == <<epochMark, seqMark>>

EventsOf(batch) == {batch[i] : i \in DOMAIN batch}

(* Only the first event of the batch is asked for its epoch: another one   *)
(* than the cached, or none cached, resets the mark.                       *)
LastProcessed(batch) ==
  IF EpochOf(batch[1]) = epochMark THEN seqMark ELSE 0

(* What is kept of a batch is what lies above the mark.                    *)
NewEvents(batch) == {e \in EventsOf(batch) : SeqOf(e) > LastProcessed(batch)}

MaxSeqOf(batch) ==
  Max({LastProcessed(batch)} \cup {SeqOf(e) : e \in NewEvents(batch)})

EagerDeduplication(batch) ==   \* planted mistake: the mark moves before the work
  /\ epochMark' = EpochOf(batch[1])
  /\ seqMark' = MaxSeqOf(batch)

deduplicate_events(batch) ==
  /\ epochMark' = EpochOf(batch[1])
  /\ seqMark' = LastProcessed(batch)

ForgetfulPersist(max, last) == UNCHANGED marks   \* planted mistake

persist_watermarks(max, last) ==
  /\ seqMark' = IF max > last THEN max ELSE seqMark
  /\ UNCHANGED epochMark
=============================================================================
