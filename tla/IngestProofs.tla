---------------------------- MODULE IngestProofs ----------------------------
(***************************************************************************)
(* Proofs about Ingest, for any number of server starts, events, lost      *)
(* connections and stops of the worker.                                    *)
(*                                                                         *)
(* deduplicate_events looks at the epoch of the first event of a batch     *)
(* only.  That this is enough is no property of one function: it rests on  *)
(* the server giving each start its own connections, on the flush task     *)
(* being cancelled with its connection, and on the listener emptying the   *)
(* buffer before it connects again.                                        *)
(*                                                                         *)
(* Nothing is processed again (Repeats): what was dispatched, and did not  *)
(* die with its batch, is below the mark or of a start that is gone.       *)
(* Nothing is skipped (SkipInv): what was sent out is settled or in hand   *)
(* up to where the listener has come, and settled up to the mark.          *)
(***************************************************************************)
EXTENDS Ingest, SequenceTheorems, SumProofs

Pair == Int \X Int

Places == {"connect", "read", "resetSeq", "setEpoch", "append", "closing",
           "flushRest", "stopped"}

Connected == reader.at \in {"read", "resetSeq", "setEpoch", "append"}

InHand == IF reader.at \in {"resetSeq", "setEpoch", "append"} THEN {reader.event} ELSE {}

Received == EventsOf(buffer) \cup work.all

(* What the present connection has brought and will still bring.           *)
Brought == Received \cup (IF Connected THEN EventsOf(stream) \cup InHand ELSE {})

ReaderShape ==
  \E id, ep : \E at \in Places, event \in Pair, stopping \in BOOLEAN :
    reader = [at |-> at, id |-> id, epoch |-> ep, event |-> event, stopping |-> stopping]

WorkShape ==
  \E all, todo, due, max, last :
    work = [all |-> all, todo |-> todo, due |-> due, max |-> max, last |-> last]

Shapes ==
  /\ ReaderShape /\ WorkShape
  /\ buffer \in Seq(Pair) /\ stream \in Seq(Pair)
  /\ epochMark \in Int /\ epoch \in 1 .. MaxEpoch
  /\ head \in [1 .. MaxEpoch -> Nat]

(* Nothing is left of a connection when the listener has none.             *)
Cleared ==
  /\ reader.at \in {"connect", "stopped"} => Received = {}
  /\ reader.at = "flushRest" => buffer = <<>>

(* One connection, one start of the server: the current one, as long as    *)
(* the connection is open.                                                 *)
OneEpochBrought ==
  /\ \A e, f \in Brought : EpochOf(e) = EpochOf(f)
  /\ open /\ Connected => \A e \in Brought : EpochOf(e) = epoch

(* The listener has written the epoch of what it is about to append.       *)
Announced == reader.at = "append" => EpochOf(reader.event) = epochMark

EpochInv == Shapes /\ Cleared /\ OneEpochBrought /\ OneEpochPerBatch /\ Announced

-----------------------------------------------------------------------------
(* The events of a sequence.                                               *)
LEMMA EventsAppend ==
  ASSUME NEW s \in Seq(Pair), NEW e \in Pair
  PROVE  Append(s, e) \in Seq(Pair) /\ EventsOf(Append(s, e)) = EventsOf(s) \cup {e}
<1>1. Append(s, e) \in Seq(Pair) /\ DOMAIN Append(s, e) = 1 .. Len(s) + 1
  OBVIOUS
<1>2. \A i \in 1 .. Len(s) : Append(s, e)[i] = s[i]
  OBVIOUS
<1>3. Append(s, e)[Len(s) + 1] = e
  OBVIOUS
<1>4. DOMAIN s = 1 .. Len(s) /\ 1 .. Len(s) + 1 = (1 .. Len(s)) \cup {Len(s) + 1}
  OBVIOUS
<1> QED BY <1>1, <1>2, <1>3, <1>4 DEF EventsOf

LEMMA EventsTail ==
  ASSUME NEW s \in Seq(Pair), s # <<>>
  PROVE  /\ Head(s) \in Pair /\ Head(s) \in EventsOf(s)
         /\ Tail(s) \in Seq(Pair) /\ EventsOf(Tail(s)) \subseteq EventsOf(s)
<1>1. Head(s) = s[1] /\ 1 \in DOMAIN s /\ s[1] \in Pair
  OBVIOUS
<1>2. Tail(s) \in Seq(Pair) /\ DOMAIN Tail(s) = 1 .. Len(s) - 1
  OBVIOUS
<1>3. \A i \in 1 .. Len(s) - 1 : Tail(s)[i] = s[i + 1] /\ i + 1 \in DOMAIN s
  OBVIOUS
<1> QED BY <1>1, <1>2, <1>3 DEF EventsOf

LEMMA EventsSubSeq ==
  ASSUME NEW s \in Seq(Pair), NEW n \in 0 .. Len(s)
  PROVE  SubSeq(s, 1, n) \in Seq(Pair) /\ EventsOf(SubSeq(s, 1, n)) \subseteq EventsOf(s)
<1>1. /\ SubSeq(s, 1, n) \in Seq(Pair) /\ DOMAIN SubSeq(s, 1, n) = 1 .. n
      /\ \A i \in 1 .. n : SubSeq(s, 1, n)[i] = s[i] /\ i \in DOMAIN s
  OBVIOUS
<1> QED BY <1>1 DEF EventsOf

LEMMA EventsEmpty == <<>> \in Seq(Pair) /\ EventsOf(<<>>) = {}
BY DEF EventsOf

LEMMA FirstEvent ==
  ASSUME NEW s \in Seq(Pair), s # <<>>
  PROVE  s[1] \in EventsOf(s) /\ s[1] \in Pair
<1>1. 1 \in DOMAIN s /\ s[1] \in Pair
  OBVIOUS
<1> QED BY <1>1 DEF EventsOf

(* A replay is of the server's current start.                              *)
LEMMA ReplayOfEpoch ==
  ASSUME NEW n \in Nat, NEW e \in Int, NEW last \in Int
  PROVE  LET s == [i \in 1 .. n |-> <<e, last - n + i>>]
         IN  s \in Seq(Pair) /\ \A x \in EventsOf(s) : EpochOf(x) = e
<1> DEFINE s == [i \in 1 .. n |-> <<e, last - n + i>>]
<1>1. \A i \in 1 .. n : s[i] = <<e, last - n + i>> /\ s[i] \in Pair /\ s[i][1] = e
  BY DEF Pair
<1>2. s \in [1 .. n -> Pair] /\ DOMAIN s = 1 .. n
  BY <1>1
<1> HIDE DEF s
<1>3. s \in Seq(Pair)
  BY <1>2, SeqDef
<1>4. \A x \in EventsOf(s) : EpochOf(x) = e
  BY <1>1, <1>2 DEF EventsOf, EpochOf
<1> QED BY <1>3, <1>4 DEF s

LEMMA ReplaySize ==
  ASSUME Shapes, NEW id, NEW replay \in Replays(id)
  PROVE  Cardinality(replay) \in Nat
<1>1. head[epoch] \in Nat
  BY DEF Shapes
<1>2. PICK lo \in Nat : Ring = lo .. head[epoch]
  BY <1>1, IngestAssumption DEF Ring
<1>3. IsFiniteSet(Ring)
  BY <1>1, <1>2, FS_Interval
<1>4. replay \subseteq Ring
  BY DEF Replays
<1>5. IsFiniteSet(replay)
  BY <1>3, <1>4, FS_Subset
<1> QED BY <1>5, FS_CardinalityType

-----------------------------------------------------------------------------
LEMMA EpochInit == Init => EpochInv
<1> SUFFICES ASSUME Init PROVE EpochInv
  OBVIOUS
<1>1. EventsOf(buffer) = {} /\ EventsOf(stream) = {} /\ <<>> \in Seq(Pair)
  BY EventsEmpty DEF Init
<1>2. reader.at = "connect" /\ work.all = {}
  BY DEF Init, Starting, NoWork
<1>3. 0 \in Int /\ NoId \in Pair
  BY DEF NoId, Pair
<1>4. reader = [at |-> "connect", id |-> NoId, epoch |-> NoEpoch, event |-> NoId,
                stopping |-> FALSE]
  BY DEF Init, Starting
<1>5. epoch \in 1 .. MaxEpoch /\ head \in [1 .. MaxEpoch -> Nat]
  BY EventAssumption DEF Init
<1>6. Shapes
  <2>1. ReaderShape
    BY <1>3, <1>4 DEF Places, ReaderShape, NoEpoch
  <2>2. WorkShape
    BY DEF Init, NoWork, WorkShape
  <2> QED BY <1>1, <1>5, <2>1, <2>2 DEF Shapes, Init, NoEpoch
<1>7. Received = {} /\ Brought = {}
  BY <1>1, <1>2 DEF Received, Brought, Connected
<1> QED BY <1>2, <1>6, <1>7
        DEF EpochInv, Cleared, OneEpochBrought, OneEpochPerBatch, Received, Announced
-----------------------------------------------------------------------------
(* The records of the listener and of the batch.                           *)
LEMMA ReaderMoves ==
  ASSUME ReaderShape, NEW at \in Places, reader' = [reader EXCEPT !.at = at]
  PROVE  ReaderShape' /\ reader'.at = at /\ reader'.event = reader.event
<1>1. PICK id, ep : \E was \in Places, event \in Pair, stopping \in BOOLEAN :
        reader = [at |-> was, id |-> id, epoch |-> ep, event |-> event,
                  stopping |-> stopping]
  BY DEF ReaderShape
<1>2. PICK was \in Places, event \in Pair, stopping \in BOOLEAN :
        reader = [at |-> was, id |-> id, epoch |-> ep, event |-> event,
                  stopping |-> stopping]
  BY <1>1
<1>3. reader' = [at |-> at, id |-> id, epoch |-> ep, event |-> event, stopping |-> stopping]
  BY <1>2
<1> QED BY <1>2, <1>3 DEF ReaderShape

LEMMA WorkKeepsAll ==
  ASSUME WorkShape, NEW todo, NEW due,
         work' = [work EXCEPT !.todo = todo, !.due = due]
      \/ work' = [work EXCEPT !.due = due]
  PROVE  WorkShape' /\ work'.all = work.all
BY DEF WorkShape

LEMMA NoWorkIs ==
  ASSUME work' = NoWork
  PROVE  WorkShape' /\ work'.all = {}
BY DEF WorkShape, NoWork

(* A batch drained from the buffer keeps the epoch of the cache.           *)
LEMMA DedupKeepsEpoch ==
  ASSUME Shapes, OneEpochPerBatch, buffer # <<>>, StartWork(buffer)
  PROVE  /\ epochMark' = epochMark
         /\ WorkShape' /\ work'.all \subseteq EventsOf(buffer)
<1>1. EpochOf(buffer[1]) = epochMark
  BY FirstEvent DEF Shapes, OneEpochPerBatch
<1>2. epochMark' = epochMark
  BY <1>1 DEF StartWork, deduplicate_events
<1>3. NewEvents(buffer) \subseteq EventsOf(buffer)
  BY DEF NewEvents
<1>4. CASE NewEvents(buffer) = {}
  BY <1>2, <1>4, NoWorkIs DEF StartWork
<1>5. CASE NewEvents(buffer) # {}
  <2>1. work' = [all |-> NewEvents(buffer), todo |-> NewEvents(buffer), due |-> {},
                 max |-> MaxSeqOf(buffer), last |-> LastProcessed(buffer)]
    BY <1>5 DEF StartWork
  <2>2. WorkShape' /\ work'.all = NewEvents(buffer)
    BY <2>1 DEF WorkShape
  <2> QED BY <1>2, <1>3, <2>2
<1> QED BY <1>4, <1>5

(* A step that brings nothing new, leaves the cached epoch and opens no    *)
(* connection.                                                             *)
LEMMA NothingNew ==
  ASSUME EpochInv, Shapes', Cleared', epochMark' = epochMark,
         Received' \subseteq Received, Brought' \subseteq Brought,
         (open /\ Connected)' => open /\ Connected /\ epoch' = epoch,
         reader'.at = "append" => reader.at = "append" /\ reader'.event = reader.event
  PROVE  EpochInv' /\ Brought' \subseteq Brought
<1>1. OneEpochBrought'
  BY DEF EpochInv, OneEpochBrought
<1>2. OneEpochPerBatch'
  BY DEF EpochInv, OneEpochPerBatch, Received
<1>3. Announced'
  BY DEF EpochInv, Announced
<1> QED BY <1>1, <1>2, <1>3 DEF EpochInv

(* Above all a step that changes neither the listener nor a queue.         *)
LEMMA QuietStep ==
  ASSUME EpochInv, UNCHANGED <<epochMark, server, reader, buffer>>,
         WorkShape', work'.all \subseteq work.all
  PROVE  EpochInv' /\ Brought' \subseteq Brought
<1>1. Shapes'
  BY DEF EpochInv, Shapes, server, ReaderShape
<1>2. Received' \subseteq Received
  BY DEF Received, EventsOf
<1>3. Connected' = Connected /\ InHand' = InHand /\ EventsOf(stream)' = EventsOf(stream)
  BY DEF Connected, InHand, server, EventsOf
<1>4. Brought' \subseteq Brought
  BY <1>2, <1>3 DEF Brought
<1>5. Cleared'
  BY <1>2 DEF EpochInv, Cleared
<1> QED BY <1>1, <1>2, <1>3, <1>4, <1>5, NothingNew DEF server

-----------------------------------------------------------------------------
(* The server.                                                             *)
LEMMA EmitKeeps ==
  ASSUME EpochInv, Emit
  PROVE  EpochInv' /\ Brought' \subseteq Brought \cup {<<epoch, head'[epoch]>>}
<1> DEFINE e == <<epoch, head'[epoch]>>
<1>1. head' \in [1 .. MaxEpoch -> Nat] /\ e \in Pair /\ EpochOf(e) = epoch
  <2>1. head \in [1 .. MaxEpoch -> Nat] /\ epoch \in 1 .. MaxEpoch /\ epoch \in Int
    BY DEF EpochInv, Shapes
  <2>2. head' \in [1 .. MaxEpoch -> Nat] /\ head'[epoch] \in Nat
    BY <2>1 DEF Emit
  <2>3. e \in Pair
    BY <2>1, <2>2 DEF Pair
  <2> QED BY <2>2, <2>3 DEF EpochOf
<1>2. CASE ~open
  <2>1. UNCHANGED <<reader, buffer, stream, work, open, epoch, epochMark>>
    BY <1>2 DEF Emit, marks
  <2>2. Shapes' /\ Cleared' /\ OneEpochPerBatch' /\ Announced'
    BY <1>1, <2>1 DEF EpochInv, Shapes, ReaderShape, WorkShape, Cleared, OneEpochPerBatch,
                      Announced, Received, EventsOf
  <2>3. Brought' = Brought
    BY <2>1 DEF Brought, Received, Connected, InHand, EventsOf
  <2>4. OneEpochBrought'
    BY <2>1, <2>3 DEF EpochInv, OneEpochBrought, Connected
  <2> QED BY <2>2, <2>3, <2>4 DEF EpochInv
<1>3. CASE open
  <2>1. UNCHANGED <<reader, buffer, work, open, epoch, epochMark>> /\ stream' = Append(stream, e)
    BY <1>3 DEF Emit, marks
  <2>2. stream' \in Seq(Pair) /\ EventsOf(stream)' = EventsOf(stream) \cup {e}
    <3>1. stream \in Seq(Pair)
      BY DEF EpochInv, Shapes
    <3>2. Append(stream, e) \in Seq(Pair) /\ EventsOf(Append(stream, e)) = EventsOf(stream) \cup {e}
      BY <1>1, <3>1, EventsAppend
    <3>3. EventsOf(stream)' = EventsOf(Append(stream, e))
      BY <2>1 DEF EventsOf
    <3> QED BY <2>1, <3>2, <3>3
  <2>3. Received' = Received /\ Connected' = Connected /\ InHand' = InHand
    BY <2>1 DEF Received, Connected, InHand, EventsOf
  <2>4. Shapes' /\ Cleared' /\ OneEpochPerBatch' /\ Announced'
    BY <1>1, <2>1, <2>2, <2>3 DEF EpochInv, Shapes, ReaderShape, WorkShape, Cleared,
                                  OneEpochPerBatch, Announced, Received, EventsOf
  <2>5. Brought' \subseteq Brought \cup {e} /\ (~Connected => Brought' = Brought)
    BY <2>2, <2>3 DEF Brought
  <2>6. OneEpochBrought'
    BY <1>1, <1>3, <2>1, <2>3, <2>5 DEF EpochInv, OneEpochBrought
  <2> QED BY <2>4, <2>5, <2>6 DEF EpochInv
<1> QED BY <1>2, <1>3

LEMMA DisconnectKeeps ==
  ASSUME EpochInv, RestartServer \/ LoseConnection
  PROVE  EpochInv' /\ Brought' \subseteq Brought
<1>1. PICK n \in 0 .. Len(stream) : stream' = SubSeq(stream, 1, n)
  BY DEF RestartServer, LoseConnection, Disconnect
<1>2. stream' \in Seq(Pair) /\ EventsOf(stream)' \subseteq EventsOf(stream)
  BY <1>1, EventsSubSeq DEF EpochInv, Shapes, EventsOf
<1>3. open' = FALSE /\ UNCHANGED <<epochMark, head, reader, buffer, work>>
  BY DEF RestartServer, LoseConnection, Disconnect, marks
<1>4. epoch' \in 1 .. MaxEpoch
  BY EventAssumption DEF EpochInv, Shapes, RestartServer, LoseConnection
<1>5. Shapes'
  BY <1>2, <1>3, <1>4 DEF EpochInv, Shapes, ReaderShape, WorkShape
<1>6. Received' = Received /\ Connected' = Connected /\ InHand' = InHand
  BY <1>3 DEF Received, Connected, InHand, EventsOf
<1>7. Brought' \subseteq Brought
  BY <1>2, <1>6 DEF Brought
<1>8. Cleared'
  BY <1>3, <1>6 DEF EpochInv, Cleared
<1> QED BY <1>3, <1>5, <1>6, <1>7, <1>8, NothingNew

-----------------------------------------------------------------------------
(* The listener.                                                           *)
LEMMA ReaderFacts ==
  ASSUME ReaderShape
  PROVE  /\ reader = [at |-> reader.at, id |-> reader.id, epoch |-> reader.epoch,
                      event |-> reader.event, stopping |-> reader.stopping]
         /\ reader.at \in Places /\ reader.event \in Pair /\ reader.stopping \in BOOLEAN
BY DEF ReaderShape

LEMMA ConnectKeeps ==
  ASSUME EpochInv, Connect
  PROVE  EpochInv' /\ Received' = {} /\ Brought' \subseteq EventsOf(stream')
<1>1. PICK replay \in Replays(reader.id) :
        stream' = [i \in 1 .. Cardinality(replay) |->
                     <<epoch, head[epoch] - Cardinality(replay) + i>>]
  BY DEF Connect
<1>2. Cardinality(replay) \in Nat /\ epoch \in Int /\ head[epoch] \in Int
  BY <1>1, ReplaySize DEF EpochInv, Shapes
<1>3. stream' \in Seq(Pair) /\ \A x \in EventsOf(stream') : EpochOf(x) = epoch
  <2> DEFINE n == Cardinality(replay)
             s == [i \in 1 .. n |-> <<epoch, head[epoch] - n + i>>]
  <2>1. s \in Seq(Pair) /\ \A x \in EventsOf(s) : EpochOf(x) = epoch
    BY <1>2, ReplayOfEpoch
  <2>2. stream' = s
    BY <1>1
  <2> QED BY <2>1, <2>2
<1>4. buffer' = <<>> /\ epoch' = epoch /\ UNCHANGED <<epochMark, head, work>>
  BY DEF Connect, marks
<1>5. ReaderShape' /\ reader'.at = "read" /\ reader.at = "connect"
  BY ReaderMoves DEF Connect, Places, EpochInv, Shapes
<1>6. EventsOf(buffer)' = {} /\ EventsOf(stream)' = EventsOf(stream')
  BY <1>4 DEF EventsOf
<1>7. Received' = {}
  BY <1>4, <1>5, <1>6 DEF EpochInv, Cleared, Received
<1>8. Brought' \subseteq EventsOf(stream')
  BY <1>5, <1>6, <1>7 DEF Brought, InHand
<1>9. OneEpochBrought'
  BY <1>3, <1>4, <1>8 DEF OneEpochBrought
<1>10. Shapes'
  BY <1>3, <1>4, <1>5, EventsEmpty DEF EpochInv, Shapes, WorkShape
<1>11. Cleared' /\ OneEpochPerBatch' /\ Announced'
  BY <1>5, <1>7 DEF Cleared, OneEpochPerBatch, Announced, Received
<1> QED BY <1>7, <1>8, <1>9, <1>10, <1>11 DEF EpochInv

LEMMA ReadKeeps ==
  ASSUME EpochInv, ReadEvent
  PROVE  EpochInv' /\ Brought' \subseteq Brought
<1>1. /\ Head(stream) \in Pair /\ Head(stream) \in EventsOf(stream)
      /\ stream' \in Seq(Pair) /\ EventsOf(stream') \subseteq EventsOf(stream)
  BY EventsTail DEF EpochInv, Shapes, ReadEvent
<1>2. PICK at \in {"resetSeq", "setEpoch"} :
        reader' = [reader EXCEPT !.id = Head(stream), !.event = Head(stream), !.at = at]
  BY DEF ReadEvent
<1>3. reader' = [at |-> at, id |-> Head(stream), epoch |-> reader.epoch,
                 event |-> Head(stream), stopping |-> reader.stopping]
  BY <1>2, ReaderFacts DEF EpochInv, Shapes
<1>4. at \in Places /\ reader.stopping \in BOOLEAN
  BY ReaderFacts DEF EpochInv, Shapes, Places
<1>5. ReaderShape'
  BY <1>1, <1>3, <1>4 DEF ReaderShape
<1>6. reader'.at = at /\ reader'.event = Head(stream) /\ reader.at = "read"
  <2>1. reader'.at = at /\ reader'.event = Head(stream)
    BY <1>3
  <2>2. reader.at = "read"
    BY DEF ReadEvent
  <2> QED BY <2>1, <2>2
<1>7. UNCHANGED <<epochMark, epoch, head, open, buffer, work>>
  BY DEF ReadEvent, marks
<1>8. Received' = Received /\ EventsOf(stream)' = EventsOf(stream')
  BY <1>7 DEF Received, EventsOf
<1>9. Connected /\ Connected' /\ InHand' = {Head(stream)}
  BY <1>6 DEF Connected, InHand
<1>10. Brought' \subseteq Brought
  BY <1>1, <1>8, <1>9 DEF Brought
<1>11. Shapes'
  BY <1>1, <1>5, <1>7 DEF EpochInv, Shapes, WorkShape
<1>12. Cleared'
  BY <1>6 DEF Cleared
<1> QED BY <1>6, <1>7, <1>8, <1>9, <1>10, <1>11, <1>12, NothingNew

LEMMA WriteKeeps ==
  ASSUME EpochInv, ResetSeq \/ SetEpoch
  PROVE  EpochInv' /\ Brought' \subseteq Brought
<1>1. UNCHANGED <<epoch, head, open, stream, buffer, work>>
  BY DEF ResetSeq, SetEpoch, server
<1>2. Received' = Received /\ EventsOf(stream)' = EventsOf(stream)
  BY <1>1 DEF Received, EventsOf
<1>3. CASE ResetSeq
  <2>1. /\ ReaderShape' /\ reader'.at = "setEpoch" /\ reader.at = "resetSeq"
        /\ reader'.event = reader.event /\ epochMark' = epochMark
    BY <1>3, ReaderMoves DEF ResetSeq, Places, EpochInv, Shapes
  <2>2. Connected /\ Connected' /\ InHand' = InHand
    BY <2>1 DEF Connected, InHand
  <2>3. Brought' \subseteq Brought
    BY <1>2, <2>2 DEF Brought
  <2>4. Shapes' /\ Cleared'
    BY <1>1, <2>1 DEF EpochInv, Shapes, WorkShape, Cleared
  <2> QED BY <1>1, <1>2, <2>1, <2>2, <2>3, <2>4, NothingNew
<1>4. CASE SetEpoch
  <2>1. /\ reader' = [reader EXCEPT !.at = "append", !.epoch = EpochOf(reader.event)]
        /\ epochMark' = EpochOf(reader.event) /\ reader.at = "setEpoch"
    BY <1>4 DEF SetEpoch
  <2>2. reader.event \in Pair /\ reader.stopping \in BOOLEAN
    BY ReaderFacts DEF EpochInv, Shapes
  <2>3. reader' = [at |-> "append", id |-> reader.id, epoch |-> EpochOf(reader.event),
                   event |-> reader.event, stopping |-> reader.stopping]
    BY <2>1, ReaderFacts DEF EpochInv, Shapes
  <2>4. ReaderShape'
    BY <2>2, <2>3 DEF ReaderShape, Places
  <2>5. reader'.at = "append" /\ reader'.event = reader.event
    BY <2>3
  <2>6. Connected /\ Connected' /\ InHand' = {reader.event} /\ InHand = {reader.event}
    BY <2>1, <2>5 DEF Connected, InHand
  <2>7. Brought' = Brought /\ reader.event \in Brought /\ Received \subseteq Brought
    BY <1>2, <2>6 DEF Brought
  <2>8. OneEpochBrought'
    BY <1>1, <2>6, <2>7 DEF EpochInv, OneEpochBrought
  <2>9. \A e \in Received : EpochOf(e) = EpochOf(reader.event)
    BY <2>7 DEF EpochInv, OneEpochBrought
  <2>10. OneEpochPerBatch' /\ Announced'
    BY <1>2, <2>1, <2>5, <2>9 DEF OneEpochPerBatch, Announced, Received
  <2>11. EpochOf(reader.event) \in Int
    BY <2>2 DEF Pair, EpochOf
  <2>12. Shapes' /\ Cleared'
    BY <1>1, <2>1, <2>4, <2>5, <2>11 DEF EpochInv, Shapes, WorkShape, Cleared
  <2> QED BY <2>7, <2>8, <2>10, <2>12 DEF EpochInv
<1> QED BY <1>3, <1>4

LEMMA AppendKeeps ==
  ASSUME EpochInv, AppendEvent
  PROVE  EpochInv' /\ Brought' \subseteq Brought
<1>1. reader.at = "append" /\ UNCHANGED <<epochMark, epoch, head, open, stream, work>>
  BY DEF AppendEvent, server, marks
<1>2. reader.event \in Pair /\ reader.stopping \in BOOLEAN /\ NoId \in Pair
  BY ReaderFacts DEF EpochInv, Shapes, NoId, Pair
<1>3. reader' = [at |-> "read", id |-> reader.id, epoch |-> reader.epoch,
                 event |-> NoId, stopping |-> reader.stopping]
  BY ReaderFacts DEF EpochInv, Shapes, AppendEvent
<1>4. ReaderShape' /\ reader'.at = "read"
  BY <1>2, <1>3 DEF ReaderShape, Places
<1>5. /\ buffer' \in Seq(Pair)
      /\ EventsOf(buffer') = EventsOf(buffer) \cup {reader.event}
  BY <1>2, EventsAppend DEF EpochInv, Shapes, AppendEvent
<1>6. /\ EventsOf(buffer)' = EventsOf(buffer) \cup {reader.event}
      /\ EventsOf(stream)' = EventsOf(stream)
  BY <1>1, <1>5 DEF EventsOf
<1>7. Received' = Received \cup {reader.event}
  BY <1>1, <1>6 DEF Received
<1>8. Connected /\ Connected' /\ InHand' = {} /\ InHand = {reader.event}
  BY <1>1, <1>4 DEF Connected, InHand
<1>9. Brought' \subseteq Brought
  BY <1>6, <1>7, <1>8 DEF Brought
<1>10. OneEpochBrought'
  BY <1>1, <1>8, <1>9 DEF EpochInv, OneEpochBrought
<1>11. OneEpochPerBatch' /\ Announced' /\ Cleared'
  BY <1>1, <1>4, <1>7 DEF EpochInv, OneEpochPerBatch, Announced, Cleared, Received
<1>12. Shapes'
  BY <1>1, <1>4, <1>5 DEF EpochInv, Shapes, WorkShape
<1> QED BY <1>9, <1>10, <1>11, <1>12 DEF EpochInv

(* The connection ends.                                                    *)
LEMMA ClosingKeeps ==
  ASSUME EpochInv, ReadTimeout \/ EndOfStream \/ Shutdown
  PROVE  EpochInv' /\ Brought' \subseteq Brought
<1>1. /\ UNCHANGED <<epochMark, epoch, head, open, stream, buffer, work>>
      /\ Connected
  BY DEF ReadTimeout, EndOfStream, Shutdown, server, marks, Connected
<1>2. NoId \in Pair
  BY DEF NoId, Pair
<1>3. ReaderShape' /\ reader'.at = "closing"
  <2>1. CASE ReadTimeout \/ EndOfStream
    BY <2>1, ReaderMoves DEF ReadTimeout, EndOfStream, Places, EpochInv, Shapes
  <2>2. CASE Shutdown
    <3>1. reader' = [at |-> "closing", id |-> reader.id, epoch |-> reader.epoch,
                     event |-> NoId, stopping |-> TRUE]
      BY <2>2, ReaderFacts DEF EpochInv, Shapes, Shutdown
    <3> QED BY <1>2, <3>1 DEF ReaderShape, Places
  <2> QED BY <2>1, <2>2
<1>4. Received' = Received /\ ~Connected'
  BY <1>1, <1>3 DEF Received, EventsOf, Connected
<1>5. Brought' \subseteq Brought
  BY <1>4 DEF Brought
<1>6. Shapes' /\ Cleared'
  BY <1>1, <1>3 DEF EpochInv, Shapes, WorkShape, Cleared
<1> QED BY <1>1, <1>3, <1>4, <1>5, <1>6, NothingNew

LEMMA CancelKeeps ==
  ASSUME EpochInv, CancelFlush
  PROVE  EpochInv' /\ Brought' \subseteq Brought
<1>1. /\ reader.at = "closing" /\ buffer' = <<>> /\ stream' = <<>> /\ ~open'
      /\ UNCHANGED <<epoch, head>>
  BY DEF CancelFlush
<1>2. epochMark' = epochMark /\ WorkShape' /\ work'.all \subseteq EventsOf(buffer)
  <2>1. CASE buffer = <<>>
    BY <2>1, NoWorkIs DEF CancelFlush, marks
  <2>2. CASE buffer # <<>>
    BY <2>2, DedupKeepsEpoch DEF CancelFlush, EpochInv
  <2> QED BY <2>1, <2>2
<1>3. PICK at \in {"stopped", "connect", "flushRest"} :
        /\ reader' = [reader EXCEPT !.at = at]
        /\ at # "flushRest" => work' = NoWork
  <2>1. CASE buffer = <<>>
    BY <2>1 DEF CancelFlush
  <2>2. CASE buffer # <<>>
    BY <2>2 DEF CancelFlush
  <2> QED BY <2>1, <2>2
<1>4. ReaderShape' /\ reader'.at = at
  BY <1>3, ReaderMoves DEF Places, EpochInv, Shapes
<1>5. Received' = work'.all /\ Received' \subseteq Received
  BY <1>1, <1>2, EventsEmpty DEF Received, EventsOf
<1>6. ~Connected' /\ Brought' = Received'
  BY <1>4 DEF Connected, Brought
<1>7. Shapes'
  BY <1>1, <1>2, <1>4, EventsEmpty DEF EpochInv, Shapes
<1>8. Cleared'
  BY <1>1, <1>3, <1>4, <1>5, NoWorkIs DEF Cleared
<1>9. Brought' \subseteq Brought
  BY <1>5, <1>6 DEF Brought
<1> QED BY <1>2, <1>4, <1>5, <1>6, <1>7, <1>8, <1>9, NothingNew

LEMMA StopKeeps ==
  ASSUME EpochInv, Kill \/ StartWorker
  PROVE  EpochInv' /\ Brought' \subseteq Brought
<1>1. NoId \in Pair
  BY DEF NoId, Pair
<1>2. CASE Kill
  <2>1. /\ buffer' = <<>> /\ stream' = <<>> /\ work' = NoWork
        /\ UNCHANGED <<epochMark, epoch, head>>
    BY <1>2 DEF Kill, marks
  <2>2. reader' = [at |-> "stopped", id |-> reader.id, epoch |-> reader.epoch,
                   event |-> NoId, stopping |-> reader.stopping]
    BY <1>2, ReaderFacts DEF EpochInv, Shapes, Kill
  <2>3. ReaderShape' /\ reader'.at = "stopped"
    BY <1>1, <2>2, ReaderFacts DEF ReaderShape, Places, EpochInv, Shapes
  <2>4. WorkShape' /\ Received' = {}
    BY <2>1, NoWorkIs, EventsEmpty DEF Received, EventsOf
  <2>5. ~Connected' /\ Brought' = {}
    BY <2>3, <2>4 DEF Connected, Brought
  <2>6. Shapes' /\ Cleared'
    BY <2>1, <2>3, <2>4, EventsEmpty DEF EpochInv, Shapes, Cleared
  <2> QED BY <2>1, <2>3, <2>4, <2>5, <2>6, NothingNew
<1>3. CASE StartWorker
  <2>1. /\ UNCHANGED <<epochMark, epoch, head, open, stream, buffer, work>>
        /\ reader.at = "stopped"
    BY <1>3 DEF StartWorker, server, marks
  <2>2. reader' = [at |-> "connect", id |-> CachedId, epoch |-> epochMark,
                   event |-> NoId, stopping |-> FALSE]
    BY <1>3 DEF StartWorker, Starting
  <2>3. ReaderShape' /\ reader'.at = "connect"
    BY <1>1, <2>2 DEF ReaderShape, Places
  <2>4. Received' = Received /\ Received = {}
    BY <2>1 DEF EpochInv, Cleared, Received, EventsOf
  <2>5. ~Connected' /\ Brought' = {}
    BY <2>3, <2>4 DEF Connected, Brought
  <2>6. Shapes' /\ Cleared'
    BY <2>1, <2>3, <2>4 DEF EpochInv, Shapes, Cleared, WorkShape
  <2> QED BY <2>1, <2>3, <2>4, <2>5, <2>6, NothingNew
<1> QED BY <1>2, <1>3

-----------------------------------------------------------------------------
(* The batch and the flush task.                                           *)
LEMMA HandleKeeps ==
  ASSUME EpochInv, NEW e, HandleEvent(e) \/ PayProfit(e)
  PROVE  EpochInv' /\ Brought' \subseteq Brought
<1>1. UNCHANGED <<epochMark, server, reader, buffer>>
  BY DEF HandleEvent, PayProfit, marks
<1>2. WorkShape' /\ work'.all = work.all
  BY WorkKeepsAll DEF EpochInv, Shapes, HandleEvent, PayProfit
<1> QED BY <1>1, <1>2, QuietStep

LEMMA ReturnKeeps ==
  ASSUME EpochInv, EndWork \/ FailWork
  PROVE  EpochInv' /\ Brought' \subseteq Brought
<1>1. UNCHANGED <<epochMark, server, buffer>> /\ work' = NoWork /\ Return
  BY DEF EndWork, FailWork, persist_watermarks, marks
<1>2. WorkShape' /\ work'.all = {}
  BY <1>1, NoWorkIs
<1>3. CASE reader.at # "flushRest"
  <2>1. UNCHANGED reader
    BY <1>1, <1>3 DEF Return
  <2> QED BY <1>1, <1>2, <2>1, QuietStep
<1>4. CASE reader.at = "flushRest"
  <2>1. PICK at \in {"stopped", "connect"} : reader' = [reader EXCEPT !.at = at]
    BY <1>1, <1>4 DEF Return
  <2>2. ReaderShape' /\ reader'.at = at
    BY <2>1, ReaderMoves DEF Places, EpochInv, Shapes
  <2>3. buffer' = <<>> /\ Received' = {}
    BY <1>1, <1>2, <1>4, EventsEmpty DEF EpochInv, Cleared, Received, EventsOf
  <2>4. ~Connected' /\ Brought' = {}
    BY <2>2, <2>3 DEF Connected, Brought
  <2>5. Shapes' /\ Cleared'
    BY <1>1, <1>2, <2>2, <2>3 DEF EpochInv, Shapes, Cleared, server
  <2> QED BY <1>1, <2>2, <2>3, <2>4, <2>5, NothingNew DEF server
<1> QED BY <1>3, <1>4

LEMMA FlushKeeps ==
  ASSUME EpochInv, Wake \/ Debounce \/ Drain
  PROVE  EpochInv' /\ Brought' \subseteq Brought
<1>1. CASE Wake \/ Debounce
  <2>1. UNCHANGED <<epochMark, server, reader, buffer>> /\ UNCHANGED work
    BY <1>1 DEF Wake, Debounce, marks
  <2>2. WorkShape'
    BY <2>1 DEF EpochInv, Shapes, WorkShape
  <2> QED BY <2>1, <2>2, QuietStep
<1>2. CASE Drain
  <2>1. UNCHANGED <<server, reader>> /\ buffer' = <<>>
    BY <1>2 DEF Drain
  <2>2. epochMark' = epochMark /\ WorkShape' /\ Received' \subseteq Received
    <3>1. EventsOf(buffer)' = {}
      BY <2>1, EventsEmpty DEF EventsOf
    <3>2. CASE buffer = <<>>
      <4>1. UNCHANGED <<epochMark, work>>
        BY <1>2, <3>2 DEF Drain, marks
      <4> QED BY <3>1, <4>1 DEF EpochInv, Shapes, WorkShape, Received
    <3>3. CASE buffer # <<>>
      <4>1. epochMark' = epochMark /\ WorkShape' /\ work'.all \subseteq EventsOf(buffer)
        BY <1>2, <3>3, DedupKeepsEpoch DEF Drain, EpochInv
      <4> QED BY <3>1, <4>1 DEF Received
    <3> QED BY <3>2, <3>3
  <2>3. Connected' = Connected /\ InHand' = InHand /\ EventsOf(stream)' = EventsOf(stream)
    BY <2>1 DEF Connected, InHand, server, EventsOf
  <2>4. Brought' \subseteq Brought
    BY <2>2, <2>3 DEF Brought
  <2>5. Shapes' /\ Cleared'
    BY <2>1, <2>2, EventsEmpty DEF EpochInv, Shapes, Cleared, server, ReaderShape
  <2> QED BY <2>1, <2>2, <2>3, <2>4, <2>5, NothingNew DEF server
<1> QED BY <1>1, <1>2

-----------------------------------------------------------------------------
LEMMA EpochNext ==
  ASSUME EpochInv, [Next]_vars
  PROVE  EpochInv' /\ (Emit \/ Connect \/ Brought' \subseteq Brought)
<1>1. CASE Emit
  BY <1>1, EmitKeeps
<1>2. CASE Listen
  <2>1. CASE Connect
    BY <2>1, ConnectKeeps
  <2>2. CASE ReadEvent
    BY <2>2, ReadKeeps
  <2>3. CASE ResetSeq \/ SetEpoch
    BY <2>3, WriteKeeps
  <2>4. CASE AppendEvent
    BY <2>4, AppendKeeps
  <2>5. CASE EndOfStream
    BY <2>5, ClosingKeeps
  <2>6. CASE CancelFlush
    BY <2>6, CancelKeeps
  <2>7. CASE StartWorker
    BY <2>7, StopKeeps
  <2> QED BY <1>2, <2>1, <2>2, <2>3, <2>4, <2>5, <2>6, <2>7 DEF Listen
<1>3. CASE Process
  <2>1. ASSUME NEW e \in Event, HandleEvent(e) \/ PayProfit(e)
         PROVE  EpochInv' /\ Brought' \subseteq Brought
    BY <2>1, HandleKeeps
  <2>2. CASE EndWork
    BY <2>2, ReturnKeeps
  <2> QED BY <1>3, <2>1, <2>2 DEF Process
<1>4. CASE FlushStep
  BY <1>4, FlushKeeps DEF FlushStep
<1>5. CASE Mishap
  BY <1>5, DisconnectKeeps, ClosingKeeps, ReturnKeeps, StopKeeps DEF Mishap
<1>6. CASE UNCHANGED vars
  <2>1. UNCHANGED <<epochMark, server, reader, buffer>> /\ UNCHANGED work
    BY <1>6 DEF vars, marks
  <2>2. WorkShape'
    BY <2>1 DEF EpochInv, Shapes, WorkShape
  <2> QED BY <2>1, <2>2, QuietStep
<1> QED BY <1>1, <1>2, <1>3, <1>4, <1>5, <1>6 DEF Next

(* Every batch that deduplicate_events gets, and the batch in process, is  *)
(* of one start of the mod server, the one in the cache, for any number of *)
(* restarts, lost connections and failures: looking at the first event     *)
(* (dedup.py:29-46) is enough.                                             *)
THEOREM OneEpoch == Spec => []OneEpochPerBatch
<1>1. Init => EpochInv
  BY EpochInit
<1>2. EpochInv /\ [Next]_vars => EpochInv'
  BY EpochNext
<1>3. EpochInv => OneEpochPerBatch
  BY DEF EpochInv
<1> QED BY <1>1, <1>2, <1>3, PTL DEF Spec

-----------------------------------------------------------------------------
(* Where the marks stand.  The server sends out what it numbered, and the  *)
(* listener's own epoch is the one in the cache.                           *)
Counts ==
  /\ seqMark \in Nat /\ silences \in Nat /\ reader.id \in Pair
  /\ handled \in [Event -> Nat] /\ rewarded \in [Event -> Nat]

Heads == \A n \in 1 .. MaxEpoch : head[n] \in 0 .. MaxSeq /\ (n > epoch => head[n] = 0)

Known ==
  /\ epochMark \in 0 .. epoch /\ reader.epoch = epochMark
  /\ Brought \subseteq Emitted
  /\ \A e \in Brought : epochMark <= EpochOf(e)
  /\ reader.at = "resetSeq" => EpochOf(reader.event) # epochMark

(* The batch in process is above the mark that it was taken with, and will *)
(* move the mark to its last event.  Only one caller has one.              *)
Batched ==
  /\ work.todo \subseteq work.all /\ work.due \subseteq work.all \ work.todo
  /\ work.max \in Nat /\ work.last \in Nat
  /\ Working => /\ \A e \in work.all : work.last < SeqOf(e) /\ SeqOf(e) <= work.max
                /\ \E e \in work.all : SeqOf(e) = work.max

Placed ==
  /\ Working => flush = "processing" \/ reader.at = "flushRest"
  /\ reader.at = "flushRest" => flush = "none"
  /\ reader.at \in {"connect", "stopped"} => ~Working

MarkInv == EpochInv /\ Counts /\ Heads /\ Known /\ Batched /\ Placed

LEMMA SentEvent ==
  ASSUME Shapes, Heads, NEW e \in Emitted
  PROVE  /\ e \in Event /\ e \in Pair /\ EpochOf(e) \in 1 .. epoch
         /\ SeqOf(e) \in 1 .. head[EpochOf(e)] /\ e = <<EpochOf(e), SeqOf(e)>>
<1>1. e \in Event /\ SeqOf(e) <= head[EpochOf(e)]
  BY DEF Emitted
<1>2. EpochOf(e) \in 1 .. MaxEpoch /\ SeqOf(e) \in 1 .. MaxSeq /\ e = <<EpochOf(e), SeqOf(e)>>
  BY <1>1 DEF Event, EpochOf, SeqOf
<1>3. e \in Pair
  BY <1>2 DEF Pair
<1>4. head[EpochOf(e)] \in 0 .. MaxSeq
      /\ (EpochOf(e) > epoch => head[EpochOf(e)] = 0) /\ epoch \in 1 .. MaxEpoch
  BY <1>2 DEF Heads, Shapes
<1> QED BY <1>1, <1>2, <1>3, <1>4, EventAssumption

LEMMA SentPair ==
  ASSUME Shapes, Heads, NEW n \in 1 .. MaxEpoch, NEW k \in 1 .. head[n]
  PROVE  /\ <<n, k>> \in Emitted /\ EpochOf(<<n, k>>) = n /\ SeqOf(<<n, k>>) = k
<1>1. head[n] \in 0 .. MaxSeq
  BY DEF Heads
<1>2. <<n, k>> \in Event
  BY <1>1, EventAssumption DEF Event
<1> QED BY <1>2 DEF Emitted, EpochOf, SeqOf

(* What a step leaves of the server's counts.                              *)
LEMMA HeadsKept ==
  ASSUME Shapes, Heads, [Next]_vars
  PROVE  /\ Heads' /\ epoch' \in {epoch, epoch + 1} /\ Emitted \subseteq Emitted'
         /\ ~Emit => UNCHANGED head /\ Emitted' = Emitted
         /\ Emit => /\ epoch' = epoch /\ head[epoch] + 1 \in 1 .. MaxSeq
                    /\ head' = [head EXCEPT ![epoch] = head[epoch] + 1]
                    /\ Emitted' = Emitted \cup {<<epoch, head[epoch] + 1>>}
<1>0. epoch \in 1 .. MaxEpoch /\ head \in [1 .. MaxEpoch -> Nat] /\ head[epoch] \in 0 .. MaxSeq
  BY DEF Shapes, Heads
<1>1. CASE Emit
  <2>1. /\ epoch' = epoch /\ head[epoch] + 1 \in 1 .. MaxSeq
        /\ head' = [head EXCEPT ![epoch] = head[epoch] + 1]
    BY <1>0, <1>1, EventAssumption DEF Emit
  <2>2. Heads'
    BY <1>0, <2>1 DEF Heads
  <2>3. Emitted' = Emitted \cup {<<epoch, head[epoch] + 1>>}
    <3>1. \A e \in Event : EpochOf(e) \in 1 .. MaxEpoch /\ SeqOf(e) \in 1 .. MaxSeq
                           /\ e = <<EpochOf(e), SeqOf(e)>>
      BY DEF Event, EpochOf, SeqOf
    <3>2. ASSUME NEW e \in Event
          PROVE  SeqOf(e) <= head'[EpochOf(e)] <=>
                   SeqOf(e) <= head[EpochOf(e)] \/ e = <<epoch, head[epoch] + 1>>
      <4>1. CASE EpochOf(e) = epoch
        <5>1. SeqOf(e) <= head[epoch] + 1 <=>
                SeqOf(e) <= head[epoch] \/ SeqOf(e) = head[epoch] + 1
          BY <1>0, <3>1
        <5>2. (SeqOf(e) = head[epoch] + 1) <=> (e = <<epoch, head[epoch] + 1>>)
          BY <3>1, <4>1 DEF SeqOf
        <5> QED BY <1>0, <2>1, <4>1, <5>1, <5>2
      <4>2. CASE EpochOf(e) # epoch
        <5>1. e # <<epoch, head[epoch] + 1>> /\ head'[EpochOf(e)] = head[EpochOf(e)]
          BY <1>0, <2>1, <3>1, <4>2 DEF EpochOf
        <5> QED BY <5>1
      <4> QED BY <4>1, <4>2
    <3>3. <<epoch, head[epoch] + 1>> \in Event
      BY <1>0, <2>1 DEF Event
    <3> QED BY <3>2, <3>3 DEF Emitted
  <2> QED BY <1>1, <2>1, <2>2, <2>3
<1>2. CASE ~Emit
  <2>1. UNCHANGED head /\ (epoch' = epoch \/ RestartServer)
    BY <1>2 DEF Next, Listen, Process, FlushStep, Mishap, vars, server, Connect, ReadEvent,
       ResetSeq, SetEpoch, AppendEvent, EndOfStream, CancelFlush, StartWorker, HandleEvent,
       PayProfit, EndWork, Wake, Debounce, Drain, LoseConnection, ReadTimeout, FailWork,
       Shutdown, Kill, RestartServer
  <2>2. epoch' \in {epoch, epoch + 1}
    BY <2>1 DEF RestartServer
  <2>3. Heads'
    BY <1>0, <2>1, <2>2 DEF Heads
  <2>4. Emitted' = Emitted
    BY <2>1 DEF Emitted
  <2> QED BY <1>2, <2>1, <2>2, <2>3, <2>4
<1> QED BY <1>1, <1>2

(* What a connection replays is the end of what was sent out.              *)
LEMMA ReplayIsTail ==
  ASSUME Shapes, Heads, NEW id \in Pair, NEW replay \in Replays(id)
  PROVE  \E k \in 0 .. head[epoch] :
           replay = k + 1 .. head[epoch] /\ Cardinality(replay) = head[epoch] - k
<1> DEFINE h == head[epoch]
<1>1. h \in Nat /\ epoch \in Int
  BY DEF Shapes
<1> HIDE DEF h
<1>2. PICK lo \in 0 .. h : Ring = lo + 1 .. h
  <2> DEFINE c == IF h > RingSize THEN h - RingSize ELSE 0
  <2>1. c \in 0 .. h
    BY <1>1, IngestAssumption
  <2>2. Ring = c + 1 .. h
    BY DEF Ring, h
  <2> QED BY <2>1, <2>2
<1>3. ASSUME NEW k \in 0 .. h, replay = k + 1 .. h
      PROVE  Cardinality(replay) = h - k
  <2>1. k + 1 \in Int /\ h \in Int
    BY <1>1
  <2>2. Cardinality(k + 1 .. h) = IF k + 1 > h THEN 0 ELSE h - (k + 1) + 1
    BY <2>1, FS_Interval
  <2> QED BY <1>1, <1>3, <2>2
<1>4. SUFFICES \E k \in 0 .. h : replay = k + 1 .. h
  BY <1>3 DEF h
<1>5. CASE replay = Ring
  BY <1>2, <1>5
<1>6. CASE replay = {}
  <2>1. h + 1 .. h = {}
    BY <1>1
  <2> QED BY <1>1, <1>6, <2>1
<1>7. CASE replay = {n \in Ring : After(id, <<epoch, n>>)}
  <2>1. id[1] \in Int /\ id[2] \in Int
    BY DEF Pair
  <2>2. replay = {n \in Ring : epoch > id[1] \/ (epoch = id[1] /\ n > id[2])}
    BY <1>7 DEF After, EpochOf, SeqOf
  <2>3. CASE epoch > id[1]
    BY <1>5, <2>2, <2>3
  <2>4. CASE epoch < id[1]
    <3>1. replay = {}
      BY <1>1, <2>1, <2>2, <2>4
    <3> QED BY <1>6, <3>1
  <2>5. CASE epoch = id[1]
    <3>1. replay = {n \in lo + 1 .. h : n > id[2]}
      BY <1>1, <1>2, <2>2, <2>5
    <3>2. CASE id[2] >= h
      <4>1. replay = {}
        BY <1>1, <2>1, <3>1, <3>2
      <4> QED BY <1>6, <4>1
    <3>3. CASE id[2] < lo
      <4>1. replay = lo + 1 .. h
        BY <1>1, <2>1, <3>1, <3>3
      <4> QED BY <4>1
    <3>4. CASE lo <= id[2] /\ id[2] < h
      <4>1. replay = id[2] + 1 .. h
        BY <1>1, <2>1, <3>1, <3>4
      <4> QED BY <1>1, <2>1, <3>4, <4>1
    <3> QED BY <1>1, <2>1, <3>2, <3>3, <3>4
  <2> QED BY <1>1, <2>1, <2>3, <2>4, <2>5
<1> QED BY <1>5, <1>6, <1>7 DEF Replays

(* Where the listener's fields go.                                         *)
LEMMA ReaderTurns ==
  ASSUME ReaderShape, NEW at, reader' = [reader EXCEPT !.at = at]
  PROVE  /\ reader'.at = at /\ reader'.id = reader.id /\ reader'.epoch = reader.epoch
         /\ reader'.event = reader.event /\ reader'.stopping = reader.stopping
BY DEF ReaderShape

(* The listener goes elsewhere, and to one of these places.                *)
Goes(S) == \E at \in S : reader' = [reader EXCEPT !.at = at]

LEMMA ReaderSteps ==
  ASSUME EpochInv, [Next]_vars
  PROVE  \/ UNCHANGED reader
         \/ Connect /\ reader.at = "connect" /\ Goes({"read"})
         \/ ReadEvent /\ reader.at = "read" /\ stream # <<>>
              /\ reader' = [at |-> reader'.at, id |-> Head(stream), epoch |-> reader.epoch,
                            event |-> Head(stream), stopping |-> reader.stopping]
              /\ reader'.at = IF reader.epoch \notin {NoEpoch, EpochOf(Head(stream))}
                              THEN "resetSeq" ELSE "setEpoch"
         \/ ResetSeq /\ reader.at = "resetSeq" /\ Goes({"setEpoch"})
         \/ SetEpoch /\ reader.at = "setEpoch"
              /\ reader' = [at |-> "append", id |-> reader.id,
                            epoch |-> EpochOf(reader.event),
                            event |-> reader.event, stopping |-> reader.stopping]
         \/ AppendEvent /\ reader.at = "append"
              /\ reader' = [at |-> "read", id |-> reader.id, epoch |-> reader.epoch,
                            event |-> NoId, stopping |-> reader.stopping]
         \/ (ReadTimeout \/ EndOfStream) /\ reader.at = "read" /\ Goes({"closing"})
         \/ CancelFlush /\ reader.at = "closing" /\ Goes({"stopped", "connect", "flushRest"})
         \/ (EndWork \/ FailWork) /\ reader.at = "flushRest" /\ Goes({"stopped", "connect"})
         \/ Shutdown /\ reader.at \in {"read", "resetSeq", "setEpoch", "append"}
              /\ reader' = [at |-> "closing", id |-> reader.id, epoch |-> reader.epoch,
                            event |-> NoId, stopping |-> TRUE]
         \/ Kill /\ ~reader.stopping
              /\ reader' = [at |-> "stopped", id |-> reader.id, epoch |-> reader.epoch,
                            event |-> NoId, stopping |-> reader.stopping]
         \/ StartWorker /\ reader.at = "stopped" /\ reader' = Starting(CachedId)
<1>0. reader = [at |-> reader.at, id |-> reader.id, epoch |-> reader.epoch,
                event |-> reader.event, stopping |-> reader.stopping]
  BY ReaderFacts DEF EpochInv, Shapes
<1>1. CASE Emit \/ ResetSeq \/ Connect
  BY <1>1 DEF Emit, ResetSeq, Connect, Goes
<1>2. CASE ReadEvent
  <2>1. reader' = [reader EXCEPT !.id = Head(stream), !.event = Head(stream),
                    !.at = IF reader.epoch \notin {NoEpoch, EpochOf(Head(stream))}
                           THEN "resetSeq" ELSE "setEpoch"]
    BY <1>2 DEF ReadEvent
  <2>2. reader' = [at |-> IF reader.epoch \notin {NoEpoch, EpochOf(Head(stream))}
                          THEN "resetSeq" ELSE "setEpoch",
                   id |-> Head(stream), epoch |-> reader.epoch,
                   event |-> Head(stream), stopping |-> reader.stopping]
    BY <1>0, <2>1
  <2> QED BY <1>2, <2>2 DEF ReadEvent
<1>3. CASE SetEpoch
  BY <1>0, <1>3 DEF SetEpoch
<1>4. CASE AppendEvent
  BY <1>0, <1>4 DEF AppendEvent
<1>5. CASE EndOfStream \/ ReadTimeout
  BY <1>5 DEF EndOfStream, ReadTimeout, Goes
<1>6. CASE CancelFlush
  BY <1>6 DEF CancelFlush, Goes
<1>7. CASE StartWorker
  BY <1>7 DEF StartWorker
<1>8. CASE EndWork \/ FailWork
  BY <1>8 DEF EndWork, FailWork, Return, Goes
<1>9. CASE Shutdown
  BY <1>0, <1>9 DEF Shutdown
<1>10. CASE Kill
  BY <1>0, <1>10 DEF Kill
<1>11. CASE RestartServer \/ LoseConnection \/ FlushStep
  BY <1>11 DEF RestartServer, LoseConnection, FlushStep, Wake, Debounce, Drain
<1>12. ASSUME NEW e \in Event, HandleEvent(e) \/ PayProfit(e) PROVE UNCHANGED reader
  BY <1>12 DEF HandleEvent, PayProfit
<1>13. CASE UNCHANGED vars
  BY <1>13 DEF vars
<1> QED BY <1>1, <1>2, <1>3, <1>4, <1>5, <1>6, <1>7, <1>8, <1>9, <1>10, <1>11, <1>12, <1>13
        DEF Next, Listen, Process, Mishap

(* Who writes the marks.                                                   *)
LEMMA MarkSteps ==
  ASSUME EpochInv, [Next]_vars
  PROVE  /\ epochMark' = epochMark \/ SetEpoch
         /\ \/ seqMark' = seqMark
            \/ (ResetSeq \/ ReadTimeout) /\ seqMark' = 0
            \/ EndWork /\ seqMark' = work.max /\ work.max > work.last
<1>1. ASSUME buffer # <<>>, StartWork(buffer)
      PROVE  epochMark' = epochMark /\ seqMark' = seqMark
  <2>1. EpochOf(buffer[1]) = epochMark
    BY <1>1, FirstEvent DEF EpochInv, Shapes, OneEpochPerBatch
  <2> QED BY <1>1, <2>1 DEF StartWork, deduplicate_events, LastProcessed
<1>2. CASE CancelFlush
  BY <1>1, <1>2 DEF CancelFlush, marks
<1>3. CASE Drain
  BY <1>1, <1>3 DEF Drain, marks
<1>4. CASE EndWork
  BY <1>4 DEF EndWork, persist_watermarks
<1>5. CASE ~(CancelFlush \/ Drain \/ EndWork)
  BY <1>5 DEF Next, Listen, Process, FlushStep, Mishap, vars, marks, Emit, Connect, ReadEvent,
     ResetSeq, SetEpoch, AppendEvent, EndOfStream, StartWorker, HandleEvent, PayProfit, Wake,
     Debounce, RestartServer, LoseConnection, ReadTimeout, FailWork, Shutdown, Kill
<1> QED BY <1>2, <1>3, <1>4, <1>5

(* What deduplicate_events makes of the buffer.                            *)
Above(mark) == {e \in EventsOf(buffer) : SeqOf(e) > mark}

Begins(new, m) ==
  /\ new = Above(seqMark) /\ new # {} /\ m \in Nat
  /\ (\A e \in new : SeqOf(e) <= m) /\ (\E e \in new : SeqOf(e) = m)
  /\ work' = [all |-> new, todo |-> new, due |-> {}, max |-> m, last |-> seqMark]

LEMMA StartSteps ==
  ASSUME MarkInv, buffer # <<>>, StartWork(buffer)
  PROVE  \/ work' = NoWork /\ Above(seqMark) = {}
         \/ \E new, m : Begins(new, m)
<1>1. LastProcessed(buffer) = seqMark /\ seqMark \in Nat
  <2>1. EpochOf(buffer[1]) = epochMark
    BY FirstEvent DEF MarkInv, EpochInv, Shapes, OneEpochPerBatch
  <2> QED BY <2>1 DEF LastProcessed, MarkInv, Counts
<1>2. NewEvents(buffer) = Above(seqMark)
  BY <1>1 DEF NewEvents, Above
<1>3. ASSUME Above(seqMark) # {} PROVE Begins(Above(seqMark), MaxSeqOf(buffer))
  <2> DEFINE N == Above(seqMark)
             S == {seqMark} \cup {SeqOf(e) : e \in N}
             b == seqMark + MaxSeq
  <2>1. \A e \in N : SeqOf(e) \in 1 .. MaxSeq /\ SeqOf(e) > seqMark
    <3>1. \A e \in N : e \in Brought /\ SeqOf(e) > seqMark
      BY DEF Above, Brought, Received
    <3>2. \A e \in Brought : e \in Event
      BY DEF MarkInv, Known, Emitted
    <3> QED BY <3>1, <3>2 DEF Event, SeqOf
  <2>2. S \subseteq Nat /\ S # {} /\ b \in Nat /\ \A x \in S : x <= b
    BY <1>1, <2>1, EventAssumption
  <2>3. MaxSeqOf(buffer) = Max(S)
    BY <1>1, <1>2 DEF MaxSeqOf
  <2> HIDE DEF S, b
  <2>4. Max(S) \in S /\ Max(S) \in Nat /\ \A y \in S : y <= Max(S)
    BY <2>2, Largest
  <2> USE DEF S
  <2>5. \A e \in N : SeqOf(e) <= Max(S) /\ Max(S) > seqMark
    BY <1>1, <2>1, <2>4
  <2>6. \E e \in N : SeqOf(e) = Max(S)
    <3>1. Max(S) # seqMark
      BY <1>1, <1>3, <2>4, <2>5
    <3> QED BY <2>4, <3>1
  <2>7. work' = [all |-> N, todo |-> N, due |-> {}, max |-> Max(S), last |-> seqMark]
    BY <1>1, <1>2, <1>3, <2>3 DEF StartWork
  <2> QED BY <1>3, <2>3, <2>4, <2>5, <2>6, <2>7 DEF Begins
<1>4. CASE Above(seqMark) = {}
  BY <1>2, <1>4 DEF StartWork
<1> QED BY <1>3, <1>4

(* How the batch in process goes on.                                       *)
Dispatches(e) ==
  /\ HandleEvent(e) /\ e \in work.todo
  /\ work' = [all |-> work.all, todo |-> work.todo \ {e}, due |-> work.due \cup {e},
              max |-> work.max, last |-> work.last]

Pays(e) ==
  /\ PayProfit(e) /\ work.todo = {} /\ e \in work.due
  /\ work' = [all |-> work.all, todo |-> work.todo, due |-> work.due \ {e},
              max |-> work.max, last |-> work.last]

Takes == (CancelFlush \/ Drain) /\ buffer # <<>> /\ StartWork(buffer)

LEMMA WorkSteps ==
  ASSUME MarkInv, [Next]_vars
  PROVE  \/ UNCHANGED work /\ ~(EndWork \/ FailWork \/ Kill \/ CancelFlush)
         \/ (EndWork \/ FailWork \/ Kill \/ (CancelFlush /\ buffer = <<>>)) /\ work' = NoWork
         \/ Takes /\ work' = NoWork /\ Above(seqMark) = {}
         \/ Takes /\ \E new, m : Begins(new, m)
         \/ \E e \in Event : Dispatches(e) \/ Pays(e)
<1>0. PICK all, todo, due, max, last :
        work = [all |-> all, todo |-> todo, due |-> due, max |-> max, last |-> last]
  BY DEF MarkInv, EpochInv, Shapes, WorkShape
<1>1. CASE EndWork \/ FailWork \/ Kill
  BY <1>1 DEF EndWork, FailWork, Kill
<1>2. CASE CancelFlush
  <2>1. CASE buffer = <<>>
    BY <1>2, <2>1 DEF CancelFlush
  <2>2. CASE buffer # <<>>
    BY <1>2, <2>2, StartSteps DEF CancelFlush, Takes
  <2> QED BY <2>1, <2>2
<1>3. CASE Drain /\ buffer # <<>>
  BY <1>3, StartSteps DEF Drain, Takes
<1>4. ASSUME NEW e \in Event, HandleEvent(e) PROVE Dispatches(e)
  BY <1>0, <1>4 DEF HandleEvent, Dispatches
<1>5. ASSUME NEW e \in Event, PayProfit(e) PROVE Pays(e)
  BY <1>0, <1>5 DEF PayProfit, Pays
<1>6. CASE UNCHANGED work
  BY <1>1, <1>2, <1>6
<1>7. CASE Emit \/ Connect \/ ReadEvent \/ ResetSeq \/ SetEpoch \/ AppendEvent \/ EndOfStream
           \/ StartWorker \/ Wake \/ Debounce \/ (Drain /\ buffer = <<>>) \/ RestartServer
           \/ LoseConnection \/ ReadTimeout \/ Shutdown \/ UNCHANGED vars
  <2>1. UNCHANGED work
    BY <1>7 DEF vars, Emit, Connect, ReadEvent, ResetSeq, SetEpoch, AppendEvent, EndOfStream,
       StartWorker, Wake, Debounce, Drain, RestartServer, LoseConnection, ReadTimeout, Shutdown
  <2> QED BY <1>6, <2>1
<1> QED BY <1>1, <1>2, <1>3, <1>4, <1>5, <1>7 DEF Next, Listen, Process, FlushStep, Mishap

-----------------------------------------------------------------------------
LEMMA CountsKept == ASSUME MarkInv, [Next]_vars PROVE Counts'
<1>1. seqMark' \in Nat
  BY MarkSteps DEF MarkInv, Counts, Batched
<1>2. silences' \in Nat /\ handled' \in [Event -> Nat] /\ rewarded' \in [Event -> Nat]
  <2>1. CASE UNCHANGED <<silences, handled, rewarded>>
    BY <2>1 DEF MarkInv, Counts
  <2>2. CASE ReadTimeout
    BY <2>2 DEF ReadTimeout, MarkInv, Counts
  <2>3. ASSUME NEW e \in Event, HandleEvent(e) \/ PayProfit(e)
        PROVE  silences' \in Nat /\ handled' \in [Event -> Nat] /\ rewarded' \in [Event -> Nat]
    BY <2>3 DEF HandleEvent, PayProfit, MarkInv, Counts
  <2> QED BY <2>1, <2>2, <2>3 DEF Next, Listen, Process, FlushStep, Mishap, vars, ghosts, Emit,
     Connect, ReadEvent, ResetSeq, SetEpoch, AppendEvent, EndOfStream, CancelFlush, StartWorker,
     EndWork, Wake, Debounce, Drain, RestartServer, LoseConnection, FailWork, Shutdown, Kill
<1>3. reader'.id \in Pair
  <2>1. reader.id \in Pair
    BY DEF MarkInv, Counts
  <2>2. CASE ReadEvent
    <3>1. Head(stream) \in Pair
      BY <2>2, EventsTail DEF MarkInv, EpochInv, Shapes, ReadEvent
    <3>2. reader'.id = Head(stream)
      BY <2>2, ReaderFacts DEF MarkInv, EpochInv, Shapes, ReadEvent
    <3> QED BY <3>1, <3>2
  <2>3. CASE StartWorker
    <3>1. reader'.id = CachedId
      BY <2>3 DEF StartWorker, Starting
    <3>2. epochMark \in Int /\ seqMark \in Int
      BY DEF MarkInv, EpochInv, Shapes, Counts
    <3>3. CachedId \in Pair
      BY <3>2 DEF CachedId, NoId, Pair
    <3> QED BY <3>1, <3>3
  <2>4. ASSUME NEW S, Goes(S) PROVE reader'.id = reader.id
    BY <2>4, ReaderTurns DEF Goes, MarkInv, EpochInv, Shapes
  <2>5. CASE ~(ReadEvent \/ StartWorker)
    <3>1. reader'.id = reader.id
      BY <2>4, <2>5, ReaderSteps DEF MarkInv
    <3> QED BY <2>1, <3>1
  <2> QED BY <2>2, <2>3, <2>5
<1> QED BY <1>1, <1>2, <1>3 DEF Counts

LEMMA BatchedKept == ASSUME MarkInv, [Next]_vars PROVE Batched'
<1>1. CASE UNCHANGED work
  BY <1>1 DEF MarkInv, Batched, Working
<1>2. CASE work' = NoWork
  BY <1>2 DEF Batched, Working, NoWork
<1>3. ASSUME NEW new, NEW m, Begins(new, m) PROVE Batched'
  <2>1. \A e \in new : SeqOf(e) > seqMark
    BY <1>3 DEF Begins, Above
  <2>2. seqMark \in Nat
    BY DEF MarkInv, Counts
  <2> QED BY <1>3, <2>1, <2>2 DEF Begins, Batched
<1>4. ASSUME NEW e \in Event, Dispatches(e) \/ Pays(e) PROVE Batched'
  <2>1. Working
    BY <1>4 DEF Dispatches, Pays, Working, NoWork
  <2>2. /\ work'.all = work.all /\ work'.max = work.max /\ work'.last = work.last
        /\ work'.todo \subseteq work.todo
        /\ work'.due \subseteq (work.due \cup (work.todo \ work'.todo))
    BY <1>4 DEF Dispatches, Pays
  <2> QED BY <2>1, <2>2 DEF MarkInv, Batched
<1> QED BY <1>1, <1>2, <1>3, <1>4, WorkSteps

LEMMA PlacedKept == ASSUME MarkInv, [Next]_vars PROVE Placed'
<1>0. Placed /\ ReaderShape
  BY DEF MarkInv, EpochInv, Shapes
<1>g. ASSUME NEW S, Goes(S) PROVE reader'.at \in S
  BY <1>0, <1>g, ReaderTurns DEF Goes
<1>1. ASSUME UNCHANGED <<work, flush>> \/ (work' = NoWork /\ flush' = flush), UNCHANGED reader
      PROVE  Placed'
  BY <1>0, <1>1 DEF Placed, Working
<1>2. CASE Connect
  <2>1. reader.at = "connect" /\ UNCHANGED work
    BY <1>2 DEF Connect
  <2>2. reader'.at = "read"
    BY <1>0, <1>2, ReaderTurns DEF Connect
  <2> QED BY <1>0, <2>1, <2>2 DEF Placed, Working
<1>3. CASE ReadEvent \/ ResetSeq \/ SetEpoch \/ AppendEvent \/ ReadTimeout \/ EndOfStream
           \/ Shutdown
  <2>1. /\ UNCHANGED <<work, flush>>
        /\ reader.at \in {"read", "resetSeq", "setEpoch", "append"}
    BY <1>3 DEF ReadEvent, ResetSeq, SetEpoch, AppendEvent, ReadTimeout, EndOfStream, Shutdown
  <2>2. reader'.at \in {"read", "resetSeq", "setEpoch", "append", "closing"}
    BY <1>3, <1>0, ReaderFacts
       DEF ReadEvent, ResetSeq, SetEpoch, AppendEvent, ReadTimeout, EndOfStream, Shutdown
  <2> QED BY <1>0, <2>1, <2>2 DEF Placed, Working
<1>4. CASE CancelFlush
  <2>1. flush' = "none" /\ reader.at = "closing"
    BY <1>4 DEF CancelFlush
  <2>2. PICK at \in {"stopped", "connect", "flushRest"} :
          reader' = [reader EXCEPT !.at = at] /\ (at = "flushRest" \/ work' = NoWork)
    <3>1. CASE buffer = <<>>
      BY <1>4, <3>1 DEF CancelFlush
    <3>2. CASE buffer # <<>>
      BY <1>4, <3>2 DEF CancelFlush
    <3> QED BY <3>1, <3>2
  <2>3. reader'.at = at
    BY <1>0, <2>2, ReaderTurns
  <2> QED BY <2>1, <2>2, <2>3 DEF Placed, Working
<1>5. CASE EndWork \/ FailWork
  <2>1. work' = NoWork /\ Return
    BY <1>5 DEF EndWork, FailWork
  <2>2. CASE reader.at = "flushRest"
    <3>1. reader'.at \in {"stopped", "connect"}
      BY <1>0, <2>1, <2>2, ReaderTurns DEF Return
    <3> QED BY <2>1, <3>1 DEF Placed, Working
  <2>3. CASE reader.at # "flushRest"
    BY <2>1, <2>3 DEF Return, Placed, Working
  <2> QED BY <2>2, <2>3
<1>6. CASE Kill
  <2>1. work' = NoWork /\ reader'.at = "stopped"
    BY <1>0, <1>6, ReaderFacts DEF Kill
  <2> QED BY <2>1 DEF Placed, Working
<1>7. CASE StartWorker
  <2>1. reader'.at = "connect" /\ UNCHANGED work /\ ~Working
    BY <1>0, <1>7 DEF StartWorker, Starting, Placed
  <2> QED BY <2>1 DEF Placed, Working
<1>8. CASE Drain
  <2>1. UNCHANGED reader /\ reader.at # "flushRest" /\ ~Working
    BY <1>0, <1>8 DEF Drain, Placed
  <2>2. Working' => flush' = "processing" /\ buffer # <<>>
    BY <1>8, <2>1 DEF Drain, Working
  <2>3. reader.at \notin {"connect", "stopped"} \/ buffer = <<>>
    <3>1. EventsOf(buffer) = {} => buffer = <<>>
      BY FirstEvent DEF MarkInv, EpochInv, Shapes
    <3> QED BY <3>1 DEF MarkInv, EpochInv, Cleared, Received
  <2> QED BY <2>1, <2>2, <2>3 DEF Placed
<1>9. CASE Wake \/ Debounce
  <2>1. UNCHANGED <<reader, work>> /\ reader.at # "flushRest" /\ ~Working
    BY <1>0, <1>9 DEF Wake, Debounce, Placed
  <2> QED BY <2>1 DEF Placed, Working
<1>10. ASSUME NEW e \in Event, Dispatches(e) \/ Pays(e) PROVE Placed'
  <2>1. UNCHANGED <<reader, flush>> /\ Working
    BY <1>10 DEF Dispatches, Pays, HandleEvent, PayProfit, Working, NoWork
  <2> QED BY <1>0, <2>1 DEF Placed
<1>11. ASSUME NEW e \in Event, HandleEvent(e) \/ PayProfit(e) PROVE Dispatches(e) \/ Pays(e)
  <2>1. PICK all, todo, due, max, last :
          work = [all |-> all, todo |-> todo, due |-> due, max |-> max, last |-> last]
    BY DEF MarkInv, EpochInv, Shapes, WorkShape
  <2> QED BY <1>11, <2>1 DEF HandleEvent, PayProfit, Dispatches, Pays
<1>12. CASE Emit \/ RestartServer \/ LoseConnection \/ UNCHANGED vars
  <2>1. UNCHANGED <<work, flush, reader>>
    BY <1>12 DEF Emit, RestartServer, LoseConnection, vars
  <2> QED BY <1>1, <2>1
<1> QED BY <1>2, <1>3, <1>4, <1>5, <1>6, <1>7, <1>8, <1>9, <1>10, <1>11, <1>12
        DEF Next, Listen, Process, FlushStep, Mishap

(* What the connection brings was sent out by a start of the server that   *)
(* is not older than the mark.                                             *)
LEMMA BroughtKept ==
  ASSUME MarkInv, [Next]_vars
  PROVE  \A e \in Brought' \ Brought : e \in Emitted' /\ EpochOf(e) = epoch /\ (Emit \/ Connect)
<1>0. Shapes /\ Heads /\ epoch \in 1 .. MaxEpoch /\ head[epoch] \in Nat
  BY DEF MarkInv, EpochInv, Shapes
<1>1. CASE Emit
  <2> DEFINE e == <<epoch, head'[epoch]>>
  <2>1. Brought' \subseteq Brought \cup {e}
    BY <1>1, EmitKeeps DEF MarkInv
  <2>2. e \in Emitted' /\ EpochOf(e) = epoch
    <3>1. head'[epoch] = head[epoch] + 1 /\ Emitted' = Emitted \cup {<<epoch, head[epoch] + 1>>}
      BY <1>0, <1>1, HeadsKept DEF Shapes
    <3> QED BY <3>1 DEF EpochOf
  <2> HIDE DEF e
  <2> QED BY <1>1, <2>1, <2>2
<1>2. CASE Connect
  <2>1. Brought' \subseteq EventsOf(stream')
    BY <1>2, ConnectKeeps DEF MarkInv
  <2>2. PICK replay \in Replays(reader.id) :
          stream' = [i \in 1 .. Cardinality(replay) |->
                       <<epoch, head[epoch] - Cardinality(replay) + i>>]
    BY <1>2 DEF Connect
  <2>3. PICK k \in 0 .. head[epoch] : Cardinality(replay) = head[epoch] - k
    BY <1>0, ReplayIsTail DEF MarkInv, Counts
  <2>4. \A i \in 1 .. head[epoch] - k :
          <<epoch, head[epoch] - (head[epoch] - k) + i>> \in Emitted
    <3> TAKE i \in 1 .. head[epoch] - k
    <3>1. head[epoch] - (head[epoch] - k) + i \in 1 .. head[epoch]
      BY <1>0
    <3> QED BY <1>0, <3>1, SentPair
  <2>5. \A e \in EventsOf(stream') : e \in Emitted /\ EpochOf(e) = epoch
    BY <2>2, <2>3, <2>4 DEF EventsOf, EpochOf
  <2>6. Emitted \subseteq Emitted'
    BY <1>0, HeadsKept
  <2> QED BY <1>2, <2>1, <2>5, <2>6
<1>3. CASE Brought' \subseteq Brought
  BY <1>3
<1> QED BY <1>1, <1>2, <1>3, EpochNext DEF MarkInv

LEMMA KnownKept == ASSUME MarkInv, [Next]_vars PROVE Known'
<1>0. /\ Known /\ Shapes /\ Heads /\ ReaderShape
      /\ epoch \in 1 .. MaxEpoch /\ epochMark \in 0 .. epoch
  BY DEF MarkInv, EpochInv, Shapes, Known
<1>1. /\ epoch' \in {epoch, epoch + 1} /\ Emitted \subseteq Emitted'
  BY <1>0, HeadsKept
<1>2. Brought' \subseteq Emitted'
  BY <1>0, <1>1, BroughtKept DEF Known
<1>3. CASE SetEpoch
  <2>1. /\ reader.at = "setEpoch" /\ epochMark' = EpochOf(reader.event)
        /\ reader'.epoch = epochMark' /\ reader'.at = "append"
    BY <1>0, <1>3, ReaderFacts DEF SetEpoch
  <2>2. reader.event \in Brought
    BY <2>1 DEF Brought, InHand, Connected
  <2>3. reader.event \in Emitted
    BY <1>0, <2>2 DEF Known
  <2>4. EpochOf(reader.event) \in 1 .. epoch
    BY <1>0, <2>3, SentEvent
  <2>5. Brought' \subseteq Brought
    BY <1>3, WriteKeeps DEF MarkInv
  <2>6. \A e \in Brought : EpochOf(e) = EpochOf(reader.event)
    BY <2>2 DEF MarkInv, EpochInv, OneEpochBrought
  <2>7. \A e \in Brought' : epochMark' <= EpochOf(e)
    BY <2>1, <2>4, <2>5, <2>6
  <2> QED BY <1>0, <1>1, <1>2, <2>1, <2>4, <2>7 DEF Known
<1>4. CASE ~SetEpoch
  <2>1. epochMark' = epochMark
    BY <1>4, MarkSteps DEF MarkInv
  <2>2. \A e \in Brought' : epochMark' <= EpochOf(e)
    BY <1>0, <2>1, BroughtKept DEF Known
  <2>3. reader'.epoch = epochMark
    <3>1. ASSUME NEW S, Goes(S) PROVE reader'.epoch = reader.epoch
      BY <1>0, <3>1, ReaderTurns DEF Goes
    <3>2. StartWorker => reader'.epoch = epochMark
      BY DEF StartWorker, Starting
    <3>3. reader.epoch = epochMark
      BY <1>0 DEF Known
    <3> QED BY <1>4, <3>1, <3>2, <3>3, ReaderSteps DEF MarkInv
  <2>4. ASSUME reader'.at = "resetSeq" PROVE EpochOf(reader'.event) # epochMark
    <3>1. ASSUME NEW S, Goes(S) PROVE reader'.at \in S
      BY <1>0, <3>1, ReaderTurns DEF Goes
    <3>2. StartWorker => reader'.at = "connect"
      BY DEF StartWorker, Starting
    <3>3. UNCHANGED reader \/ (/\ reader'.event = Head(stream)
                               /\ reader.epoch # EpochOf(Head(stream)))
      BY <1>4, <2>4, <3>1, <3>2, ReaderSteps DEF MarkInv
    <3> QED BY <1>0, <2>4, <3>3 DEF Known
  <2> QED BY <1>0, <1>1, <1>2, <2>1, <2>2, <2>3, <2>4 DEF Known
<1> QED BY <1>3, <1>4

LEMMA MarkNext == ASSUME MarkInv, [Next]_vars PROVE MarkInv'
<1>1. Shapes /\ Heads
  BY DEF MarkInv, EpochInv
<1> QED BY <1>1, EpochNext, CountsKept, HeadsKept, KnownKept, BatchedKept, PlacedKept DEF MarkInv

LEMMA MarkInit == Init => MarkInv
<1> SUFFICES ASSUME Init PROVE MarkInv
  OBVIOUS
<1>1. reader = [at |-> "connect", id |-> NoId, epoch |-> NoEpoch, event |-> NoId,
                stopping |-> FALSE]
  BY DEF Init, Starting
<1>2. Counts
  BY <1>1, IngestAssumption DEF Init, Counts, NoId, Pair
<1>3. Heads
  BY EventAssumption DEF Init, Heads
<1>4. work = NoWork /\ EventsOf(buffer) = {} /\ reader.at = "connect"
  BY <1>1, EventsEmpty DEF Init
<1>5. Brought = {}
  BY <1>4 DEF Brought, Received, Connected, NoWork
<1>6. Known
  BY <1>1, <1>5 DEF Init, Known, NoEpoch
<1>7. Batched /\ Placed
  BY <1>1, <1>4 DEF Batched, Placed, Working, NoWork
<1> QED BY <1>2, <1>3, <1>6, <1>7, EpochInit DEF MarkInv

-----------------------------------------------------------------------------
(* Nothing is processed again.  An event that was dispatched, and whose    *)
(* batch did not die, is below the mark, or of a start of the server that  *)
(* is gone and that nothing more comes from, or in the batch in process.   *)
Seen(e) == EpochOf(e) = epochMark /\ SeqOf(e) <= seqMark
Past(e) == EpochOf(e) < epoch /\ e \notin Brought

Repeats == silences = 0 =>
  /\ Working => seqMark = work.last
  /\ \A e \in Event \ died :
       /\ handled[e] <= 1 /\ rewarded[e] <= 1
       /\ handled[e] > 0 => Seen(e) \/ Past(e) \/ e \in work.all \ work.todo
       /\ rewarded[e] > 0 =>
            Seen(e) \/ Past(e) \/ e \in work.all \ (work.todo \cup work.due)

LEMMA GhostSteps ==
  ASSUME MarkInv, [Next]_vars
  PROVE  /\ silences' = silences \/ (ReadTimeout /\ silences' = silences + 1)
         /\ died' = IF FailWork \/ CancelFlush \/ Kill THEN died \cup work.all ELSE died
         /\ \/ UNCHANGED handled
            \/ \E e \in Event : Dispatches(e) /\ handled' = [handled EXCEPT ![e] = @ + 1]
         /\ \/ UNCHANGED rewarded
            \/ \E e \in Event : Pays(e) /\ rewarded' = [rewarded EXCEPT ![e] = @ + 1]
<1>0. PICK all, todo, due, max, last :
        work = [all |-> all, todo |-> todo, due |-> due, max |-> max, last |-> last]
  BY DEF MarkInv, EpochInv, Shapes, WorkShape
<1>1. ASSUME NEW e \in Event, HandleEvent(e)
      PROVE  /\ Dispatches(e) /\ handled' = [handled EXCEPT ![e] = @ + 1]
             /\ UNCHANGED <<rewarded, died, silences>>
  BY <1>0, <1>1 DEF HandleEvent, Dispatches
<1>2. ASSUME NEW e \in Event, PayProfit(e)
      PROVE  /\ Pays(e) /\ rewarded' = [rewarded EXCEPT ![e] = @ + 1]
             /\ UNCHANGED <<handled, died, silences>>
  BY <1>0, <1>2 DEF PayProfit, Pays
<1>3. CASE FailWork \/ CancelFlush \/ Kill
  BY <1>3 DEF FailWork, CancelFlush, Kill, GiveUp
<1>4. ASSUME FailWork \/ CancelFlush \/ Kill
      PROVE  UNCHANGED <<handled, rewarded, silences>> /\ died' = died \cup work.all
  BY <1>4 DEF FailWork, CancelFlush, Kill, GiveUp
<1>5. CASE ReadTimeout
  <2>1. UNCHANGED <<handled, rewarded, died>> /\ silences' = silences + 1
    BY <1>5 DEF ReadTimeout
  <2>2. ~(FailWork \/ CancelFlush \/ Kill)
    <3>1. silences' # silences
      BY <2>1 DEF MarkInv, Counts
    <3> QED BY <1>4, <3>1
  <2> QED BY <1>5, <2>1, <2>2
<1>6. CASE ~(FailWork \/ CancelFlush \/ Kill \/ ReadTimeout)
  <2>1. \/ UNCHANGED <<handled, rewarded, died, silences>>
        \/ \E e \in Event : HandleEvent(e) \/ PayProfit(e)
    BY <1>6 DEF Next, Listen, Process, FlushStep, Mishap, vars, ghosts, Emit, Connect,
       ReadEvent, ResetSeq, SetEpoch, AppendEvent, EndOfStream, StartWorker, EndWork, Wake,
       Debounce, Drain, RestartServer, LoseConnection, Shutdown
  <2> QED BY <1>1, <1>2, <1>6, <2>1
<1> QED BY <1>3, <1>4, <1>5, <1>6

(* The batch in process is of the epoch in the cache, and so is the buffer,*)
(* so that an event of another start means that there is neither.          *)
LEMMA OtherStart ==
  ASSUME MarkInv, NEW f \in Brought, EpochOf(f) # epochMark
  PROVE  /\ Received = {} /\ ~Working /\ epochMark < EpochOf(f) /\ EpochOf(f) \in 1 .. epoch
         /\ \A e \in Brought : EpochOf(e) = EpochOf(f)
<1>1. \A e \in Brought : EpochOf(e) = EpochOf(f)
  BY DEF MarkInv, EpochInv, OneEpochBrought
<1>2. Received \subseteq Brought /\ \A e \in Received : EpochOf(e) = epochMark
  BY DEF Brought, Received, MarkInv, EpochInv, OneEpochPerBatch
<1>3. Received = {}
  BY <1>1, <1>2
<1>4. f \in Emitted /\ epochMark <= EpochOf(f)
  BY DEF MarkInv, Known
<1>5. EpochOf(f) \in 1 .. epoch
  BY <1>4, SentEvent DEF MarkInv, EpochInv
<1>6. epochMark \in Int
  BY DEF MarkInv, EpochInv, Shapes
<1> QED BY <1>1, <1>3, <1>4, <1>5, <1>6 DEF Received, MarkInv, Batched

LEMMA PastKept ==
  ASSUME MarkInv, [Next]_vars, NEW e, EpochOf(e) \in Int, Past(e)
  PROVE  Past(e)'
<1>1. epoch \in Int /\ epoch' \in {epoch, epoch + 1}
  BY HeadsKept DEF MarkInv, EpochInv, Shapes
<1>2. e \notin Brought'
  BY <1>1, BroughtKept DEF Past
<1> QED BY <1>1, <1>2 DEF Past, EpochOf

LEMMA SeenKept ==
  ASSUME MarkInv, Repeats, silences = 0, ~ReadTimeout, [Next]_vars, NEW e \in Event, Seen(e)
  PROVE  Seen(e)' \/ Past(e)'
<1>0. EpochOf(e) \in 1 .. MaxEpoch /\ SeqOf(e) \in Int /\ epochMark \in Int /\ seqMark \in Nat
  BY DEF MarkInv, EpochInv, Shapes, Counts, Event, EpochOf, SeqOf
<1>1. ASSUME NEW f \in Brought, EpochOf(f) # epochMark PROVE Past(e)'
  <2>1. epochMark < EpochOf(f) /\ EpochOf(f) \in 1 .. epoch
        /\ \A g \in Brought : EpochOf(g) = EpochOf(f)
    BY <1>1, OtherStart
  <2>2. epoch \in Int
    BY DEF MarkInv, EpochInv, Shapes
  <2>3. Past(e)
    BY <1>0, <2>1, <2>2 DEF Past, Seen
  <2> QED BY <1>0, <2>3, PastKept
<1>2. CASE SetEpoch
  <2>1. reader.event \in Brought /\ epochMark' = EpochOf(reader.event) /\ seqMark' = seqMark
    BY <1>2 DEF SetEpoch, Brought, InHand, Connected
  <2>2. CASE EpochOf(reader.event) # epochMark
    BY <1>1, <2>1, <2>2
  <2>3. CASE EpochOf(reader.event) = epochMark
    BY <2>1, <2>3 DEF Seen, EpochOf, SeqOf
  <2> QED BY <2>2, <2>3
<1>3. CASE ResetSeq
  <2>1. reader.event \in Brought /\ EpochOf(reader.event) # epochMark
    BY <1>3 DEF ResetSeq, Brought, InHand, Connected, MarkInv, Known
  <2> QED BY <1>1, <2>1
<1>4. CASE epochMark' = epochMark /\ seqMark' = seqMark
  BY <1>4 DEF Seen, EpochOf, SeqOf
<1>5. CASE EndWork /\ seqMark' = work.max /\ work.max > work.last /\ epochMark' = epochMark
  <2>1. seqMark = work.last /\ work.max \in Nat
    BY <1>5 DEF EndWork, Repeats, MarkInv, Batched
  <2> QED BY <1>0, <1>5, <2>1 DEF Seen, EpochOf, SeqOf
<1> QED BY <1>2, <1>3, <1>4, <1>5, MarkSteps DEF MarkInv

(* What was dispatched of the batch is below the mark in the end, or the   *)
(* batch dies.                                                             *)
LEMMA BatchKept ==
  ASSUME MarkInv, [Next]_vars, NEW e \in Event \ died', e \in work.all
  PROVE  \/ e \in work'.all /\ work'.todo \subseteq work.todo
              /\ work'.due \subseteq work.due \cup (work.todo \ work'.todo)
         \/ Seen(e)'
<1>1. CASE UNCHANGED work
  BY <1>1
<1>2. ASSUME NEW f \in Event, Dispatches(f) \/ Pays(f)
      PROVE  e \in work'.all /\ work'.todo \subseteq work.todo
             /\ work'.due \subseteq work.due \cup (work.todo \ work'.todo)
  <2>1. CASE Dispatches(f)
    BY <2>1 DEF Dispatches
  <2>2. CASE Pays(f)
    BY <2>2 DEF Pays
  <2> QED BY <1>2, <2>1, <2>2
<1>3. ~(FailWork \/ CancelFlush \/ Kill)
  BY GhostSteps
<1>4. CASE EndWork
  <2>1. Working /\ SeqOf(e) <= work.max /\ work.last < SeqOf(e) /\ work.max > work.last
    <3>1. e \in Emitted /\ Working
      BY <1>4 DEF EndWork, MarkInv, Known, Brought, Received
    <3>2. SeqOf(e) \in Int /\ work.max \in Nat /\ work.last \in Nat
      BY DEF Event, SeqOf, MarkInv, Batched
    <3> QED BY <3>1, <3>2 DEF MarkInv, Batched
  <2>2. seqMark' = work.max /\ epochMark' = epochMark
    BY <1>4, <2>1 DEF EndWork, persist_watermarks
  <2>3. EpochOf(e) = epochMark
    BY DEF MarkInv, EpochInv, OneEpochPerBatch
  <2> QED BY <2>1, <2>2, <2>3 DEF Seen, EpochOf, SeqOf
<1>5. ~Takes
  <2>1. Working
    BY DEF Working, NoWork
  <2>2. ~Drain
    BY <2>1 DEF Drain, MarkInv, Placed
  <2> QED BY <1>3, <2>2 DEF Takes
<1> QED BY <1>1, <1>2, <1>3, <1>4, <1>5, WorkSteps

LEMMA WorkingMark ==
  ASSUME MarkInv, Repeats, silences = 0, ~ReadTimeout, [Next]_vars, Working'
  PROVE  seqMark' = work'.last
<1>1. ASSUME UNCHANGED <<work, seqMark>> PROVE seqMark' = work'.last
  BY <1>1 DEF Repeats, Working
<1>2. CASE UNCHANGED work
  <2>1. Working
    BY <1>2 DEF Working
  <2>2. ~ResetSeq
    <3>1. ResetSeq => reader.event \in Brought /\ EpochOf(reader.event) # epochMark
      BY DEF ResetSeq, Brought, InHand, Connected, MarkInv, Known
    <3> QED BY <2>1, <3>1, OtherStart
  <2>3. ~EndWork
    BY <1>2, <2>1 DEF EndWork, Working
  <2> QED BY <1>1, <1>2, <2>2, <2>3, MarkSteps DEF MarkInv
<1>3. CASE work' = NoWork
  BY <1>3 DEF Working
<1>4. ASSUME Takes, NEW new, NEW m, Begins(new, m) PROVE seqMark' = work'.last
  <2>1. EpochOf(buffer[1]) = epochMark
    BY <1>4, FirstEvent DEF Takes, MarkInv, EpochInv, Shapes, OneEpochPerBatch
  <2>2. seqMark' = seqMark
    BY <1>4, <2>1 DEF Takes, StartWork, deduplicate_events, LastProcessed
  <2> QED BY <1>4, <2>2 DEF Begins
<1>5. ASSUME NEW e \in Event, Dispatches(e) \/ Pays(e) PROVE seqMark' = work'.last
  <2>1. Working /\ UNCHANGED marks /\ work'.last = work.last
    BY <1>5 DEF Dispatches, Pays, HandleEvent, PayProfit, Working, NoWork
  <2> QED BY <2>1 DEF Repeats, marks
<1> QED BY <1>2, <1>3, <1>4, <1>5, WorkSteps

(* What is still to be dispatched, or to be paid, was not yet.             *)
LEMMA FirstTime ==
  ASSUME MarkInv, Repeats, silences = 0, NEW e \in Event \ died
  PROVE  /\ e \in work.todo => handled[e] = 0
         /\ e \in work.due => rewarded[e] = 0
<1> SUFFICES ASSUME e \in work.todo \cup work.due
             PROVE  ~Seen(e) /\ ~Past(e)
  BY DEF MarkInv, Counts, Repeats, Batched
<1>1. e \in work.all /\ e \in Brought
  BY DEF MarkInv, Batched, Brought, Received
<1>2. Working
  BY DEF Working, NoWork
<1>3. work.last < SeqOf(e) /\ seqMark = work.last
  BY <1>1, <1>2 DEF MarkInv, Batched, Repeats
<1>4. SeqOf(e) \in Int /\ work.last \in Nat
  BY DEF Event, SeqOf, MarkInv, Batched
<1> QED BY <1>1, <1>3, <1>4 DEF Seen, Past

LEMMA RepeatsKept == ASSUME MarkInv, Repeats, [Next]_vars PROVE Repeats'
<1> SUFFICES ASSUME silences' = 0 PROVE Repeats'
  BY DEF Repeats
<1>0. silences = 0 /\ ~ReadTimeout
  <2>1. silences \in Nat
    BY DEF MarkInv, Counts
  <2>2. ReadTimeout => silences' = silences + 1
    BY DEF ReadTimeout
  <2> QED BY <2>1, <2>2, GhostSteps
<1>1. Working' => seqMark' = work'.last
  BY <1>0, WorkingMark
<1>2. ASSUME NEW e \in Event \ died'
      PROVE  /\ handled'[e] <= 1 /\ rewarded'[e] <= 1
             /\ handled'[e] > 0 =>
                  Seen(e)' \/ Past(e)' \/ e \in work'.all \ work'.todo
             /\ rewarded'[e] > 0 =>
                  Seen(e)' \/ Past(e)' \/ e \in work'.all \ (work'.todo \cup work'.due)
  <2>0. e \notin died /\ EpochOf(e) \in Int
    BY GhostSteps DEF Event, EpochOf
  <2>1. Seen(e) \/ Past(e) => Seen(e)' \/ Past(e)'
    BY <1>0, <2>0, SeenKept, PastKept
  <2>2. e \in work.all \ work.todo =>
          Seen(e)' \/ Past(e)' \/ e \in work'.all \ work'.todo
    BY BatchKept
  <2>3. e \in work.all \ (work.todo \cup work.due) =>
          Seen(e)' \/ Past(e)' \/ e \in work'.all \ (work'.todo \cup work'.due)
    BY BatchKept
  <2>4. handled[e] \in Nat /\ rewarded[e] \in Nat
    BY DEF MarkInv, Counts
  <2>5. /\ handled[e] <= 1 /\ rewarded[e] <= 1
        /\ handled[e] > 0 => Seen(e) \/ Past(e) \/ e \in work.all \ work.todo
        /\ rewarded[e] > 0 => Seen(e) \/ Past(e) \/ e \in work.all \ (work.todo \cup work.due)
    BY <1>0, <2>0 DEF Repeats
  <2>6. \/ handled'[e] = handled[e]
        \/ Dispatches(e) /\ handled'[e] = handled[e] + 1
    BY GhostSteps DEF MarkInv, Counts
  <2>7. \/ rewarded'[e] = rewarded[e]
        \/ Pays(e) /\ rewarded'[e] = rewarded[e] + 1
    BY GhostSteps DEF MarkInv, Counts
  <2>8. handled'[e] <= 1 /\ (handled'[e] > 0 =>
          Seen(e)' \/ Past(e)' \/ e \in work'.all \ work'.todo)
    <3>1. CASE handled'[e] = handled[e]
      BY <2>1, <2>2, <2>5, <3>1
    <3>2. CASE Dispatches(e) /\ handled'[e] = handled[e] + 1
      <4>1. handled[e] = 0
        BY <1>0, <2>0, <3>2, FirstTime DEF Dispatches
      <4>2. e \in work'.all \ work'.todo
        BY <3>2 DEF Dispatches, MarkInv, Batched
      <4> QED BY <3>2, <4>1, <4>2
    <3> QED BY <2>6, <3>1, <3>2
  <2>9. rewarded'[e] <= 1 /\ (rewarded'[e] > 0 =>
          Seen(e)' \/ Past(e)' \/ e \in work'.all \ (work'.todo \cup work'.due))
    <3>1. CASE rewarded'[e] = rewarded[e]
      BY <2>3, <2>1, <2>5, <3>1
    <3>2. CASE Pays(e) /\ rewarded'[e] = rewarded[e] + 1
      <4>1. rewarded[e] = 0
        BY <1>0, <2>0, <3>2, FirstTime DEF Pays
      <4>2. e \in work'.all \ (work'.todo \cup work'.due)
        BY <3>2 DEF Pays, MarkInv, Batched
      <4> QED BY <3>2, <4>1, <4>2
    <3> QED BY <2>7, <3>1, <3>2
  <2> QED BY <2>8, <2>9
<1> QED BY <1>1, <1>2 DEF Repeats

LEMMA RepeatsInit == Init => Repeats
BY DEF Init, Repeats, Working

(* No event is processed twice unless its batch died or a silence of 120 s *)
(* zeroed the mark, for any number of events, server starts, lost          *)
(* connections and stops of the worker (sse_client.py:218-223,             *)
(* webhook.py:330).                                                        *)
THEOREM RepeatsNeedDeath == Spec => []RepeatNeedsDeath
<1>1. Init => MarkInv /\ Repeats
  BY MarkInit, RepeatsInit
<1>2. MarkInv /\ Repeats /\ [Next]_vars => MarkInv' /\ Repeats'
  BY MarkNext, RepeatsKept
<1>3. MarkInv /\ Repeats => RepeatNeedsDeath
  BY DEF Repeats, RepeatNeedsDeath
<1> QED BY <1>1, <1>2, <1>3, PTL DEF Spec

-----------------------------------------------------------------------------
(* Nothing is skipped.  What was sent out is settled or in hand as far as  *)
(* the listener has come (UpTo, Tape), and settled as far as the mark says *)
(* (Honest).  The two meet when a batch ends: nothing that is in hand lies *)
(* before it, because the buffer follows the batch, and what the listener  *)
(* is about to append follows the buffer (InOrder).                        *)
Accounted(e) == e \in Settled \cup Pending

UpTo(n, k) == {e \in Emitted : EpochOf(e) < n \/ (EpochOf(e) = n /\ SeqOf(e) <= k)}

MarkMeans ==
  /\ epochMark = NoEpoch => seqMark = 0
  /\ epochMark # NoEpoch => seqMark <= head[epochMark]
  /\ reader.at = "setEpoch" /\ EpochOf(reader.event) # epochMark => seqMark = 0

Honest == \A e \in Emitted : EpochOf(e) < epochMark \/ Seen(e) => e \in Settled

Position ==
  /\ reader.id = NoId \/ reader.id \in Emitted
  /\ reader.at \notin {"resetSeq", "setEpoch", "append"} => reader.event = NoId
  /\ Connected \/ reader.at = "connect" => ~reader.stopping

InOrder ==
  /\ \A f \in InHand, g \in Received : SeqOf(g) < SeqOf(f)
  /\ \A f \in EventsOf(buffer), g \in work.all : SeqOf(g) < SeqOf(f)

(* A stretch of the server's events.                                       *)
Stretch(n, k, l) == [i \in 1 .. l |-> <<n, k + i>>]

(* The stream goes on after event k of start n.                            *)
Tape(n, k) ==
  /\ stream = Stretch(n, k, Len(stream))
  /\ k + Len(stream) <= head[n]
  /\ open => n = epoch /\ k + Len(stream) = head[n]
  /\ \A e \in UpTo(n, k) : Accounted(e)
  /\ \A f \in Received : EpochOf(f) = n /\ SeqOf(f) <= k
  /\ \A f \in InHand : f = <<n, k>>

Reading == Connected => \E n \in 1 .. epoch, k \in Nat : Tape(n, k)

Closed == \A f \in Received : \A e \in UpTo(EpochOf(f), SeqOf(f)) : Accounted(e)

SkipInv ==
  /\ MarkMeans /\ Honest /\ Position /\ InOrder /\ Reading /\ Closed /\ NothingSkipped

LEMMA EventTypes ==
  ASSUME MarkInv, NEW e \in Emitted
  PROVE  /\ e \in Event /\ EpochOf(e) \in 1 .. epoch /\ EpochOf(e) \in Int
         /\ SeqOf(e) \in 1 .. head[EpochOf(e)] /\ SeqOf(e) \in Int
         /\ e = <<EpochOf(e), SeqOf(e)>> /\ e # NoId
<1>1. /\ e \in Event /\ EpochOf(e) \in 1 .. epoch
      /\ SeqOf(e) \in 1 .. head[EpochOf(e)] /\ e = <<EpochOf(e), SeqOf(e)>>
  BY SentEvent DEF MarkInv, EpochInv
<1>2. EpochOf(NoId) = 0
  BY DEF NoId, EpochOf
<1> QED BY <1>1, <1>2 DEF Event, EpochOf, SeqOf

LEMMA InHandBrought ==
  ASSUME MarkInv
  PROVE  InHand \cup Received \subseteq Emitted
BY DEF MarkInv, Known, Brought, InHand, Connected

(* What an Emit adds lies beyond everything that was sent out.             *)
LEMMA UpToKept ==
  ASSUME MarkInv, [Next]_vars, NEW n \in 1 .. epoch, NEW k \in Int, k <= head[n]
  PROVE  UpTo(n, k)' = UpTo(n, k)
<1>1. Shapes /\ Heads /\ epoch \in 1 .. MaxEpoch
  BY DEF MarkInv, EpochInv, Shapes
<1>2. CASE ~Emit
  BY <1>1, <1>2, HeadsKept DEF UpTo, EpochOf, SeqOf
<1>3. CASE Emit
  <2> DEFINE e == <<epoch, head[epoch] + 1>>
  <2>1. Emitted' = Emitted \cup {e}
    BY <1>1, <1>3, HeadsKept
  <2>2. EpochOf(e) = epoch /\ SeqOf(e) = head[epoch] + 1
    BY DEF EpochOf, SeqOf
  <2>3. epoch \in Int /\ head[epoch] \in Int
    BY <1>1 DEF Shapes
  <2>4. ~(EpochOf(e) < n \/ (EpochOf(e) = n /\ SeqOf(e) <= k))
    BY <2>2, <2>3
  <2> HIDE DEF e
  <2> QED BY <2>1, <2>4 DEF UpTo, EpochOf, SeqOf
<1> QED BY <1>2, <1>3

LEMMA SettledKept == ASSUME MarkInv, [Next]_vars PROVE Settled \subseteq Settled'
<1>1. \A e \in Event : rewarded[e] \in Nat /\ (rewarded'[e] = rewarded[e]
                                               \/ rewarded'[e] = rewarded[e] + 1)
  BY GhostSteps DEF MarkInv, Counts
<1>2. lost \subseteq lost' /\ missed \subseteq missed'
  BY DEF Next, Listen, Process, FlushStep, Mishap, vars, ghosts, Emit, Connect, ReadEvent,
     ResetSeq, SetEpoch, AppendEvent, EndOfStream, CancelFlush, StartWorker, HandleEvent,
     PayProfit, EndWork, Wake, Debounce, Drain, RestartServer, LoseConnection, ReadTimeout,
     FailWork, Shutdown, Kill, GiveUp
<1>3. \A e \in Event : rewarded[e] > 0 => rewarded'[e] > 0
  BY <1>1
<1> QED BY <1>2, <1>3 DEF Settled

LEMMA BufferSteps ==
  ASSUME MarkInv, [Next]_vars
  PROVE  \/ UNCHANGED buffer /\ ~Kill
         \/ AppendEvent /\ EventsOf(buffer)' = EventsOf(buffer) \cup {reader.event}
              /\ UNCHANGED work
         \/ Takes /\ EventsOf(buffer)' = {}
         \/ Kill /\ EventsOf(buffer)' = {}
         \/ EventsOf(buffer) = {} /\ EventsOf(buffer)' = {} /\ ~Kill
<1>0. EventsOf(<<>>) = {}
  BY EventsEmpty
<1>1. CASE AppendEvent
  <2>1. reader.event \in Pair
    BY ReaderFacts DEF MarkInv, EpochInv, Shapes
  <2>2. EventsOf(Append(buffer, reader.event)) = EventsOf(buffer) \cup {reader.event}
    BY <2>1, EventsAppend DEF MarkInv, EpochInv, Shapes
  <2>3. buffer' = Append(buffer, reader.event) /\ UNCHANGED work
    BY <1>1 DEF AppendEvent
  <2> QED BY <1>1, <2>2, <2>3 DEF EventsOf
<1>2. CASE Connect
  <2>1. buffer' = <<>> /\ EventsOf(buffer) = {} /\ reader.at = "connect"
    BY <1>2 DEF Connect, MarkInv, EpochInv, Cleared, Received
  <2>2. reader'.at = "read"
    BY <1>2, ReaderTurns DEF Connect, MarkInv, EpochInv, Shapes
  <2>3. ~Kill
    <3>1. Kill => reader'.at = "stopped"
      BY ReaderFacts DEF Kill, MarkInv, EpochInv, Shapes
    <3> QED BY <2>2, <3>1
  <2> QED BY <1>0, <2>1, <2>3 DEF EventsOf
<1>3. CASE (CancelFlush \/ Drain) /\ ~Kill
  <2>1. buffer' = <<>>
    BY <1>3 DEF CancelFlush, Drain
  <2>2. CASE buffer = <<>>
    BY <1>0, <1>3, <2>1, <2>2 DEF EventsOf
  <2>3. CASE buffer # <<>>
    BY <1>0, <1>3, <2>1, <2>3 DEF Takes, CancelFlush, Drain, EventsOf
  <2> QED BY <2>2, <2>3
<1>4. CASE Kill
  BY <1>0, <1>4 DEF Kill, EventsOf
<1>5. CASE ~(AppendEvent \/ Connect \/ CancelFlush \/ Drain \/ Kill)
  BY <1>5 DEF Next, Listen, Process, FlushStep, Mishap, vars, Emit, ReadEvent, ResetSeq,
     SetEpoch, EndOfStream, StartWorker, HandleEvent, PayProfit, EndWork, Wake, Debounce,
     RestartServer, LoseConnection, ReadTimeout, FailWork, Shutdown
<1> QED BY <1>1, <1>2, <1>3, <1>4, <1>5

(* A dispatched event stays accounted for: from the buffer it goes to the  *)
(* batch, or is settled since the mark covers it; a batch that dies is     *)
(* lost with what was left of it.                                          *)
LEMMA BatchAccounted ==
  ASSUME MarkInv, [Next]_vars, NEW e \in work.todo \cup work.due
  PROVE  Accounted(e)'
<1>0. Working /\ (work.todo # {} \/ work.due # {})
  BY DEF Working, NoWork
<1>1. e \in Event
  BY DEF MarkInv, Batched, Known, Brought, Received, Emitted
<1>2. CASE FailWork \/ CancelFlush \/ Kill
  BY <1>2 DEF FailWork, CancelFlush, Kill, GiveUp, Accounted, Settled
<1>3. CASE UNCHANGED work
  BY <1>3 DEF Accounted, Pending
<1>4. CASE EndWork
  BY <1>4 DEF EndWork
<1>5. CASE Drain
  <2>1. ~Working
    BY <1>5 DEF Drain, MarkInv, Placed
  <2> QED BY <1>0, <2>1 DEF Working, NoWork
<1>6. ASSUME NEW f \in Event, Dispatches(f) PROVE Accounted(e)'
  BY <1>6 DEF Dispatches, Accounted, Pending
<1>7. ASSUME NEW f \in Event, Pays(f) PROVE Accounted(e)'
  <2>1. CASE e = f
    <3>1. rewarded[e] \in Nat /\ rewarded'[e] = rewarded[e] + 1
      BY <1>1, <1>7, <2>1 DEF Pays, PayProfit, MarkInv, Counts
    <3> QED BY <1>1, <3>1 DEF Accounted, Settled
  <2>2. CASE e # f
    BY <1>7, <2>2 DEF Pays, Accounted, Pending
  <2> QED BY <2>1, <2>2
<1> QED BY <1>2, <1>3, <1>4, <1>5, <1>6, <1>7, WorkSteps DEF Takes

LEMMA BufferAccounted ==
  ASSUME MarkInv, Honest, [Next]_vars, ~Kill, NEW e \in EventsOf(buffer)
  PROVE  Accounted(e)'
<1>1. CASE UNCHANGED buffer \/ e \in EventsOf(buffer)'
  BY <1>1 DEF Accounted, Pending, EventsOf
<1>2. CASE Takes
  <2>1. e \in Emitted /\ EpochOf(e) = epochMark
    BY InHandBrought DEF Received, MarkInv, EpochInv, OneEpochPerBatch
  <2>2. SeqOf(e) \in Int /\ seqMark \in Nat /\ e \in Event
    BY <2>1, EventTypes DEF MarkInv, Counts
  <2>3. CASE SeqOf(e) <= seqMark
    <3>1. e \in Settled
      BY <2>1, <2>3 DEF Honest, Seen
    <3> QED BY <3>1, SettledKept DEF Accounted
  <2>4. CASE SeqOf(e) > seqMark
    <3>1. e \in Above(seqMark)
      BY <2>4 DEF Above
    <3>2. PICK new, m : Begins(new, m)
      BY <1>2, <3>1, StartSteps DEF Takes
    <3>3. e \in work'.todo
      BY <3>1, <3>2 DEF Begins
    <3> QED BY <3>3 DEF Accounted, Pending
  <2> QED BY <2>2, <2>3, <2>4
<1> QED BY <1>1, <1>2, BufferSteps

LEMMA ReaderAccounted ==
  ASSUME MarkInv, Position, [Next]_vars, ~(Kill \/ Shutdown), NEW e \in Emitted,
         e = reader.event
  PROVE  Accounted(e)'
<1>0. reader.at \in {"resetSeq", "setEpoch", "append"}
  BY EventTypes DEF Position
<1>1. CASE reader'.event = e
  BY <1>1 DEF Accounted, Pending
<1>2. CASE AppendEvent
  <2>1. reader'.at = "read"
    BY <1>2, ReaderFacts DEF AppendEvent, MarkInv, EpochInv, Shapes
  <2>2. e \in EventsOf(Append(buffer, reader.event))
    <3>1. reader.event \in Pair /\ buffer \in Seq(Pair)
      BY ReaderFacts DEF MarkInv, EpochInv, Shapes
    <3> QED BY <3>1, EventsAppend
  <2>3. buffer' = Append(buffer, reader.event)
    BY <1>2 DEF AppendEvent
  <2> QED BY <2>2, <2>3 DEF Accounted, Pending, EventsOf
<1>3. ASSUME NEW S, Goes(S) PROVE reader'.event = reader.event
  BY <1>3, ReaderTurns DEF Goes, MarkInv, EpochInv, Shapes
<1> QED BY <1>0, <1>1, <1>2, <1>3, ReaderSteps DEF MarkInv

LEMMA AccountedKept ==
  ASSUME MarkInv, Honest, Position, [Next]_vars, NEW e \in Emitted, Accounted(e)
  PROVE  \/ Accounted(e)'
         \/ Kill
         \/ Shutdown /\ e = reader.event
<1>1. CASE e \in Settled
  BY <1>1, SettledKept DEF Accounted
<1>2. CASE e \in work.todo \cup work.due
  BY <1>2, BatchAccounted
<1>3. CASE e \in EventsOf(buffer)
  BY <1>3, BufferAccounted
<1>4. CASE e = reader.event
  BY <1>4, ReaderAccounted
<1> QED BY <1>1, <1>2, <1>3, <1>4 DEF Accounted, Pending

-----------------------------------------------------------------------------
LEMMA PositionKept == ASSUME MarkInv, MarkMeans, Position, [Next]_vars PROVE Position'
<1>0. Emitted \subseteq Emitted' /\ ReaderShape
  BY HeadsKept DEF MarkInv, EpochInv, Shapes
<1>1. CASE UNCHANGED reader
  BY <1>0, <1>1 DEF Position, Connected
<1>2. ASSUME NEW at, reader' = [reader EXCEPT !.at = at],
             reader.at \in {"resetSeq", "setEpoch", "append"} => at = "setEpoch",
             Connected' \/ at = "connect" => ~reader.stopping
      PROVE  Position'
  <2>1. /\ reader'.at = at /\ reader'.id = reader.id /\ reader'.event = reader.event
        /\ reader'.stopping = reader.stopping
    BY <1>0, <1>2, ReaderTurns
  <2> QED BY <1>0, <1>2, <2>1 DEF Position
<1>g. ASSUME NEW at, reader' = [reader EXCEPT !.at = at] PROVE reader'.at = at
  BY <1>0, <1>g, ReaderTurns
<1>3. CASE Connect \/ ResetSeq \/ ReadTimeout \/ EndOfStream
  <2>1. PICK at \in {"read", "setEpoch", "closing"} :
          /\ reader' = [reader EXCEPT !.at = at]
          /\ (at = "setEpoch") <=> (reader.at = "resetSeq")
          /\ reader.at \in {"connect", "read", "resetSeq"}
    BY <1>3 DEF Connect, ResetSeq, ReadTimeout, EndOfStream
  <2>2. ~reader.stopping
    BY <2>1 DEF Position, Connected
  <2> QED BY <1>2, <2>1, <2>2
<1>4. CASE CancelFlush \/ EndWork \/ FailWork
  <2>1. UNCHANGED reader \/ \E at \in {"stopped", "connect", "flushRest"} :
          /\ reader' = [reader EXCEPT !.at = at]
          /\ reader.at \in {"closing", "flushRest"}
          /\ at = "connect" => ~reader.stopping
    <3>1. CASE CancelFlush
      BY <3>1 DEF CancelFlush
    <3>2. CASE EndWork \/ FailWork
      BY <3>2 DEF EndWork, FailWork, Return
    <3> QED BY <1>4, <3>1, <3>2
  <2>2. ASSUME NEW at \in {"stopped", "connect", "flushRest"},
               reader' = [reader EXCEPT !.at = at], at = "connect" => ~reader.stopping,
               reader.at \in {"closing", "flushRest"}
        PROVE  Position'
    <3>1. reader'.at = at
      BY <1>g, <2>2
    <3>2. ~Connected'
      BY <3>1 DEF Connected
    <3> QED BY <1>2, <2>2, <3>2
  <2> QED BY <1>1, <2>1, <2>2
<1>5. CASE ReadEvent /\ ~UNCHANGED reader
  <2>1. reader' = [at |-> reader'.at, id |-> Head(stream), epoch |-> reader.epoch,
                   event |-> Head(stream), stopping |-> reader.stopping]
        /\ reader'.at \in {"resetSeq", "setEpoch"}
        /\ reader.at = "read"
    <3>1. reader.at = "read"
      BY <1>5 DEF ReadEvent
    <3>2. reader = [at |-> reader.at, id |-> reader.id, epoch |-> reader.epoch,
                    event |-> reader.event, stopping |-> reader.stopping]
      BY <1>0, ReaderFacts
    <3> QED BY <1>5, <3>1, <3>2 DEF ReadEvent
  <2>2. Head(stream) \in Emitted
    <3>1. Head(stream) \in EventsOf(stream)
      BY <1>5, EventsTail DEF ReadEvent, MarkInv, EpochInv, Shapes
    <3> QED BY <2>1, <3>1 DEF Brought, Connected, MarkInv, Known
  <2>3. reader'.id = Head(stream) /\ reader'.stopping = reader.stopping /\ ~reader.stopping
    BY <2>1 DEF Position, Connected
  <2> QED BY <1>0, <2>1, <2>2, <2>3 DEF Position
<1>6. CASE SetEpoch \/ AppendEvent
  <2>1. /\ reader.at \in {"setEpoch", "append"} /\ reader'.at \in {"append", "read"}
        /\ reader'.id = reader.id /\ reader'.stopping = reader.stopping
        /\ reader'.at = "read" => reader'.event = NoId
    BY <1>0, <1>6, ReaderFacts DEF SetEpoch, AppendEvent
  <2> QED BY <1>0, <2>1 DEF Position, Connected
<1>7. CASE Shutdown \/ Kill
  <2>1. /\ reader'.at \in {"closing", "stopped"} /\ reader'.id = reader.id
        /\ reader'.event = NoId
    BY <1>0, <1>7, ReaderFacts DEF Shutdown, Kill
  <2> QED BY <1>0, <2>1 DEF Position, Connected
<1>8. CASE StartWorker
  <2>1. reader' = [at |-> "connect", id |-> CachedId, epoch |-> epochMark, event |-> NoId,
                   stopping |-> FALSE]
    BY <1>8 DEF StartWorker, Starting
  <2>2. CachedId = NoId \/ CachedId \in Emitted
    <3>1. CASE epochMark # NoEpoch /\ seqMark # 0
      <4>1. epochMark \in 1 .. MaxEpoch /\ head[epochMark] \in Nat
        <5>1. epoch \in 1 .. MaxEpoch /\ epochMark \in 0 .. epoch /\ epochMark # 0
          BY <3>1 DEF MarkInv, EpochInv, Shapes, Known, NoEpoch
        <5>2. head \in [1 .. MaxEpoch -> Nat]
          BY DEF MarkInv, EpochInv, Shapes
        <5> QED BY <5>1, <5>2, EventAssumption
      <4>2. seqMark \in 1 .. head[epochMark]
        BY <3>1, <4>1 DEF MarkMeans, MarkInv, Counts
      <4> QED BY <3>1, <4>1, <4>2, SentPair DEF CachedId, MarkInv, EpochInv
    <3> QED BY <3>1 DEF CachedId
  <2> QED BY <1>0, <2>1, <2>2 DEF Position
<1> QED BY <1>1, <1>3, <1>4, <1>5, <1>6, <1>7, <1>8, ReaderSteps DEF MarkInv

LEMMA MarkRange ==
  ASSUME MarkInv, epochMark # NoEpoch
  PROVE  epochMark \in 1 .. epoch /\ epochMark \in 1 .. MaxEpoch /\ head[epochMark] \in Nat
<1>1. /\ epochMark \in Int /\ epoch \in Int /\ MaxEpoch \in Int
      /\ 0 <= epochMark /\ epochMark <= epoch /\ epoch <= MaxEpoch /\ epochMark # 0
      /\ head \in [1 .. MaxEpoch -> Nat]
  BY EventAssumption DEF MarkInv, EpochInv, Shapes, Known, NoEpoch
<1> QED BY <1>1

LEMMA HeadsGrow ==
  ASSUME MarkInv, [Next]_vars, NEW n \in 1 .. MaxEpoch
  PROVE  head[n] \in Nat /\ head'[n] \in Nat /\ head[n] <= head'[n]
<1>1. Shapes /\ Heads /\ head \in [1 .. MaxEpoch -> Nat] /\ epoch \in 1 .. MaxEpoch
  BY DEF MarkInv, EpochInv, Shapes
<1>2. UNCHANGED head \/ head' = [head EXCEPT ![epoch] = head[epoch] + 1]
  BY <1>1, HeadsKept
<1>3. head'[n] = head[n] \/ head'[n] = head[n] + 1
  BY <1>1, <1>2
<1>4. head[n] \in Nat
  BY <1>1
<1> QED BY <1>3, <1>4

LEMMA MarkMeansKept == ASSUME MarkInv, MarkMeans, [Next]_vars PROVE MarkMeans'
<1>0. /\ ReaderShape /\ seqMark \in Nat /\ epochMark \in 0 .. epoch /\ epoch \in 1 .. MaxEpoch
      /\ head \in [1 .. MaxEpoch -> Nat] /\ reader.epoch = epochMark
  BY DEF MarkInv, EpochInv, Shapes, Counts, Known
<1>1. \A n \in 1 .. MaxEpoch : head[n] \in Nat /\ head[n] <= head'[n] /\ head'[n] \in Nat
  BY HeadsGrow
<1>2. ASSUME epochMark' = epochMark, epochMark # NoEpoch
      PROVE  /\ head[epochMark] <= head'[epochMark'] /\ epochMark \in 1 .. MaxEpoch
             /\ head[epochMark] \in Nat /\ head'[epochMark'] \in Nat
  BY <1>1, <1>2, MarkRange
<1>3. CASE SetEpoch
  <2>1. /\ reader.at = "setEpoch" /\ epochMark' = EpochOf(reader.event)
        /\ reader'.at = "append" /\ seqMark' = seqMark
    BY <1>0, <1>3, ReaderFacts DEF SetEpoch
  <2>2. reader.event \in Emitted
    BY <2>1, InHandBrought DEF InHand
  <2>3. EpochOf(reader.event) \in 1 .. MaxEpoch /\ epochMark' # NoEpoch
    BY <1>0, <2>1, <2>2, EventTypes, EventAssumption DEF NoEpoch
  <2>4. seqMark' <= head'[epochMark']
    <3>1. CASE epochMark' = epochMark
      <4>1. seqMark <= head[epochMark]
        BY <2>3, <3>1 DEF MarkMeans
      <4>2. head[epochMark] <= head'[epochMark']
        BY <1>2, <2>3, <3>1
      <4>3. epochMark \in 1 .. MaxEpoch
        BY <2>1, <2>3, <3>1
      <4> QED BY <1>0, <1>1, <2>1, <3>1, <4>1, <4>2, <4>3
    <3>2. CASE epochMark' # epochMark
      <4>1. seqMark' = 0
        BY <2>1, <3>2 DEF MarkMeans
      <4> QED BY <1>1, <2>1, <2>3, <4>1
    <3> QED BY <3>1, <3>2
  <2> QED BY <2>1, <2>3, <2>4 DEF MarkMeans
<1>4. CASE epochMark' = epochMark /\ seqMark' = work.max /\ EndWork
  <2>1. PICK f \in work.all : SeqOf(f) = work.max
    BY <1>4 DEF EndWork, MarkInv, Batched
  <2>2. f \in Emitted /\ EpochOf(f) = epochMark
    BY InHandBrought DEF Received, MarkInv, EpochInv, OneEpochPerBatch
  <2>3. seqMark' \in 1 .. head[epochMark] /\ epochMark \in 1 .. epoch
    BY <1>4, <2>1, <2>2, EventTypes
  <2>4. epochMark # NoEpoch /\ seqMark' <= head'[epochMark']
    <3>1. epochMark # NoEpoch /\ epochMark \in 1 .. MaxEpoch
      <4>1. epochMark # NoEpoch
        BY <2>3 DEF NoEpoch
      <4> QED BY <4>1, MarkRange
    <3>2. head[epochMark] <= head'[epochMark']
      BY <1>2, <1>4, <3>1
    <3> QED BY <1>1, <1>4, <2>3, <3>1, <3>2
  <2>5. ~(reader'.at = "setEpoch" /\ EpochOf(reader'.event) # epochMark)
    <3>1. (reader'.at = reader.at /\ reader'.event = reader.event) \/ reader'.at # "setEpoch"
      <4>1. ASSUME NEW S, Goes(S) PROVE reader'.at \in S
        BY <1>0, <4>1, ReaderTurns DEF Goes
      <4>2. UNCHANGED reader \/ Goes({"stopped", "connect"})
        BY <1>4 DEF EndWork, Return, Goes
      <4> QED BY <4>1, <4>2
    <3>2. reader.at = "setEpoch" /\ EpochOf(reader.event) # epochMark => FALSE
      <4>1. reader.at = "setEpoch" => reader.event \in Brought
        BY DEF Brought, InHand, Connected
      <4> QED BY <1>4, <4>1, OtherStart DEF EndWork
    <3> QED BY <3>1, <3>2
  <2> QED BY <1>4, <2>4, <2>5 DEF MarkMeans
<1>5. ASSUME epochMark' = epochMark, seqMark' \in {seqMark, 0},
             reader'.at = "setEpoch" /\ EpochOf(reader'.event) # epochMark => seqMark' = 0
      PROVE  MarkMeans'
  <2>1. CASE epochMark = NoEpoch
    BY <1>5, <2>1 DEF MarkMeans
  <2>2. CASE epochMark # NoEpoch
    <3>1. /\ head[epochMark] <= head'[epochMark'] /\ head[epochMark] \in Nat
          /\ head'[epochMark'] \in Nat /\ seqMark <= head[epochMark]
      BY <1>2, <1>5, <2>2 DEF MarkMeans
    <3>2. seqMark' <= head'[epochMark']
      BY <1>0, <1>5, <3>1
    <3> QED BY <1>5, <2>2, <3>2 DEF MarkMeans
  <2> QED BY <2>1, <2>2
<1>6. CASE ResetSeq \/ ReadTimeout
  <2>1. epochMark' = epochMark /\ seqMark' = 0
    BY <1>6 DEF ResetSeq, ReadTimeout
  <2> QED BY <1>5, <2>1
<1>7. CASE epochMark' = epochMark /\ seqMark' = seqMark /\ ~SetEpoch /\ ~ResetSeq
  <2>1. ASSUME reader'.at = "setEpoch", EpochOf(reader'.event) # epochMark PROVE seqMark = 0
    <3>1. ASSUME NEW S, Goes(S) PROVE reader'.at \in S
      BY <1>0, <3>1, ReaderTurns DEF Goes
    <3>2. StartWorker => reader'.at = "connect"
      BY DEF StartWorker, Starting
    <3>3. UNCHANGED reader
          \/ (reader'.event = Head(stream) /\ reader.epoch \in {NoEpoch, EpochOf(Head(stream))})
      BY <1>7, <2>1, <3>1, <3>2, ReaderSteps DEF MarkInv
    <3> QED BY <1>0, <2>1, <3>3 DEF MarkMeans
  <2> QED BY <1>5, <1>7, <2>1
<1> QED BY <1>3, <1>4, <1>6, <1>7, MarkSteps DEF MarkInv

-----------------------------------------------------------------------------
LEMMA StreamSteps ==
  ASSUME [Next]_vars
  PROVE  \/ UNCHANGED server
         \/ /\ Emit /\ UNCHANGED <<epoch, open>>
            /\ head' = [head EXCEPT ![epoch] = @ + 1]
            /\ stream' = IF open THEN Append(stream, <<epoch, head'[epoch]>>) ELSE stream
         \/ /\ RestartServer \/ LoseConnection
            /\ UNCHANGED head /\ ~open'
            /\ \E m \in 0 .. Len(stream) : stream' = SubSeq(stream, 1, m)
         \/ Connect
         \/ ReadEvent
         \/ (CancelFlush \/ Kill) /\ UNCHANGED <<epoch, head>> /\ ~open'
<1>1. CASE Emit
  BY <1>1 DEF Emit
<1>2. CASE RestartServer \/ LoseConnection
  BY <1>2 DEF RestartServer, LoseConnection, Disconnect
<1>3. CASE CancelFlush \/ Kill
  BY <1>3 DEF CancelFlush, Kill
<1>4. CASE Process
  BY <1>4 DEF Process, HandleEvent, PayProfit, EndWork
<1> QED
  BY <1>1, <1>2, <1>3, <1>4
  DEF Next, Listen, FlushStep, Mishap, vars, server, ResetSeq, SetEpoch, AppendEvent,
      EndOfStream, StartWorker, Wake, Debounce, Drain, ReadTimeout, FailWork, Shutdown

LEMMA HandSteps ==
  ASSUME MarkInv, [Next]_vars
  PROVE  \/ InHand' \subseteq InHand
         \/ ReadEvent /\ InHand' = {Head(stream)} /\ reader.at = "read" /\ stream # <<>>
<1>0. ReaderShape
  BY DEF MarkInv, EpochInv, Shapes
<1>3. ASSUME NEW S, Goes(S) PROVE reader'.at \in S /\ reader'.event = reader.event
  BY <1>0, <1>3, ReaderTurns DEF Goes
<1>4. CASE ReadEvent /\ ~UNCHANGED reader
  <2>1. reader'.event = Head(stream) /\ reader'.at \in {"resetSeq", "setEpoch"}
        /\ reader.at = "read" /\ stream # <<>>
    BY <1>0, <1>4, ReaderFacts DEF ReadEvent
  <2> QED BY <1>4, <2>1 DEF InHand
<1>5. CASE UNCHANGED reader
  BY <1>5 DEF InHand
<1>6. CASE SetEpoch
  <2>1. reader'.event = reader.event /\ reader.at = "setEpoch"
    BY <1>0, <1>6, ReaderFacts DEF SetEpoch
  <2> QED BY <2>1 DEF InHand
<1>7. CASE ResetSeq
  <2>1. reader'.event = reader.event /\ reader.at = "resetSeq"
    BY <1>7, <1>0, ReaderTurns DEF ResetSeq
  <2> QED BY <2>1 DEF InHand
<1>8. CASE Kill \/ Shutdown \/ StartWorker \/ AppendEvent
  <2>1. reader'.at \in {"closing", "stopped", "connect", "read"}
    <3>1. CASE Kill
      BY <1>0, <3>1, ReaderFacts DEF Kill
    <3>2. CASE Shutdown
      BY <1>0, <3>2, ReaderFacts DEF Shutdown
    <3>3. CASE StartWorker
      BY <3>3 DEF StartWorker, Starting
    <3>4. CASE AppendEvent
      BY <1>0, <3>4, ReaderFacts DEF AppendEvent
    <3> QED BY <1>8, <3>1, <3>2, <3>3, <3>4
  <2> QED BY <2>1 DEF InHand
<1>9. CASE Goes({"read"}) \/ Goes({"closing"}) \/ Goes({"stopped", "connect", "flushRest"})
           \/ Goes({"stopped", "connect"})
  <2>1. reader'.at \notin {"resetSeq", "setEpoch", "append"}
    BY <1>3, <1>9
  <2> QED BY <2>1 DEF InHand
<1> QED BY <1>4, <1>5, <1>6, <1>7, <1>8, <1>9, ReaderSteps DEF MarkInv

LEMMA ReceivedSteps ==
  ASSUME MarkInv, [Next]_vars
  PROVE  /\ Received' \subseteq Received \cup (IF AppendEvent THEN {reader.event} ELSE {})
         /\ Kill => Received' = {}
<1>1. EventsOf(buffer)' \subseteq EventsOf(buffer) \cup (IF AppendEvent THEN {reader.event} ELSE {})
  BY BufferSteps DEF EventsOf
<1>2. \/ work'.all \subseteq work.all
      \/ Takes /\ work'.all \subseteq EventsOf(buffer)
  BY WorkSteps DEF NoWork, Begins, Above, Dispatches, Pays
<1>3. Kill => buffer' = <<>> /\ work'.all = {}
  BY DEF Kill, NoWork
<1>4. EventsOf(<<>>) = {}
  BY EventsEmpty
<1> QED BY <1>1, <1>2, <1>3, <1>4 DEF Received, EventsOf

LEMMA InOrderKept == ASSUME MarkInv, InOrder, Reading, [Next]_vars PROVE InOrder'
<1>0. ReaderShape
  BY DEF MarkInv, EpochInv, Shapes
<1>1. EventsOf(buffer)' \subseteq EventsOf(buffer) \cup (IF AppendEvent THEN {reader.event} ELSE {})
  BY BufferSteps DEF EventsOf
<1>2. \/ work'.all \subseteq work.all
      \/ Takes /\ work'.all \subseteq EventsOf(buffer)
  BY WorkSteps DEF NoWork, Begins, Above, Dispatches, Pays
<1>3. CASE AppendEvent
  <2>1. InHand' = {} /\ reader.event \in InHand /\ work' = work
    BY <1>0, <1>3, ReaderFacts DEF AppendEvent, InHand
  <2> QED BY <1>1, <2>1 DEF InOrder, Received
<1>4. CASE ~AppendEvent
  <2>1. Received' \subseteq Received
    BY <1>4, ReceivedSteps
  <2>2. \A f \in EventsOf(buffer)', g \in work'.all : SeqOf(g) < SeqOf(f)
    <3>1. Takes => EventsOf(buffer)' = {}
      <4>1. Takes => buffer' = <<>>
        BY DEF Takes, CancelFlush, Drain
      <4> QED BY <4>1, EventsEmpty DEF EventsOf
    <3> QED BY <1>1, <1>2, <1>4, <3>1 DEF InOrder
  <2>3. \A f \in InHand', g \in Received : SeqOf(g) < SeqOf(f)
    <3>1. CASE ReadEvent /\ InHand' = {Head(stream)} /\ reader.at = "read" /\ stream # <<>>
      <4>1. PICK n \in 1 .. epoch, k \in Nat : Tape(n, k)
        BY <3>1 DEF Reading, Connected
      <4>2. SeqOf(Head(stream)) = k + 1
        <5>1. Head(stream) = stream[1] /\ 1 \in 1 .. Len(stream)
          BY <3>1 DEF MarkInv, EpochInv, Shapes
        <5>2. stream = [i \in 1 .. Len(stream) |-> <<n, k + i>>]
          BY <4>1 DEF Tape, Stretch
        <5>3. stream[1] = <<n, k + 1>>
          BY <5>1, <5>2
        <5> QED BY <5>1, <5>3 DEF SeqOf
      <4>3. \A g \in Received : SeqOf(g) \in Int /\ SeqOf(g) <= k
        BY <4>1, EventTypes, InHandBrought DEF Tape
      <4> QED BY <3>1, <4>2, <4>3
    <3>2. CASE InHand' \subseteq InHand
      BY <3>2 DEF InOrder
    <3> QED BY <3>1, <3>2, HandSteps
  <2> QED BY <2>1, <2>2, <2>3 DEF InOrder
<1> QED BY <1>3, <1>4

-----------------------------------------------------------------------------
LEMMA OldPending ==
  ASSUME MarkInv, Position, NEW e \in Emitted, Accounted(e)
  PROVE  \/ e \in Settled \/ e \in work.todo \cup work.due
         \/ e \in EventsOf(buffer) \/ e \in InHand
<1>1. e # NoId
  BY EventTypes
<1>2. e = reader.event => e \in InHand
  BY <1>1 DEF Position, InHand
<1> QED BY <1>2 DEF Accounted, Pending

LEMMA HonestKept ==
  ASSUME MarkInv, MarkMeans, Honest, Position, InOrder, Reading, Closed, [Next]_vars
  PROVE  Honest'
<1>0. /\ seqMark \in Nat /\ epochMark \in 0 .. epoch /\ epoch \in 1 .. MaxEpoch
      /\ Shapes /\ Heads
  BY DEF MarkInv, EpochInv, Shapes, Counts, Known
<1>1. ASSUME NEW e \in Emitted, EpochOf(e) < epochMark' \/ Seen(e)' PROVE e \in Settled
  <2>1. /\ EpochOf(e) \in 1 .. epoch /\ SeqOf(e) \in Int /\ SeqOf(e) >= 1
        /\ e = <<EpochOf(e), SeqOf(e)>>
    BY EventTypes
  <2>2. EpochOf(e) < epochMark' \/ (EpochOf(e) = epochMark' /\ SeqOf(e) <= seqMark')
    BY <1>1, <2>1 DEF Seen, EpochOf, SeqOf
  <2>3. CASE epochMark' = epochMark /\ seqMark' \in {seqMark, 0}
    BY <1>0, <2>1, <2>2, <2>3 DEF Honest, Seen
  <2>4. CASE SetEpoch
    <3> DEFINE f == reader.event
    <3>1. epochMark' = EpochOf(f) /\ seqMark' = seqMark /\ reader.at = "setEpoch"
      BY <2>4 DEF SetEpoch
    <3>2. f \in InHand /\ f \in Brought /\ f \in Emitted /\ EpochOf(f) \in 1 .. epoch
      BY <3>1, InHandBrought, EventTypes DEF InHand, Brought, Connected
    <3> HIDE DEF f
    <3>3. CASE epochMark' # epochMark
      <4>1. seqMark' = 0 /\ EpochOf(e) < EpochOf(f)
        BY <2>1, <2>2, <3>1, <3>3 DEF MarkMeans, f
      <4>2. Received = {}
        BY <3>1, <3>2, <3>3, OtherStart
      <4>3. PICK n \in 1 .. epoch, k \in Nat : Tape(n, k)
        BY <3>1 DEF Reading, Connected
      <4>4. f = <<n, k>> /\ Accounted(e)
        <5>1. f = <<n, k>> /\ EpochOf(f) = n
          BY <3>2, <4>3 DEF Tape, EpochOf
        <5>2. e \in UpTo(n, k)
          BY <4>1, <5>1 DEF UpTo
        <5> QED BY <4>3, <5>1, <5>2 DEF Tape
      <4>5. e \notin InHand
        <5>1. InHand = {f}
          BY <3>1 DEF InHand, f
        <5> QED BY <2>1, <3>2, <4>1, <5>1
      <4>6. work.todo \cup work.due \subseteq Received /\ EventsOf(buffer) \subseteq Received
        BY DEF Received, MarkInv, Batched
      <4> QED BY <4>2, <4>4, <4>5, <4>6, OldPending
    <3>4. CASE epochMark' = epochMark
      BY <2>3, <3>1, <3>4
    <3> QED BY <3>3, <3>4
  <2>5. CASE EndWork /\ epochMark' = epochMark /\ seqMark' = work.max
    <3>1. CASE EpochOf(e) < epochMark
      BY <3>1 DEF Honest
    <3>2. CASE EpochOf(e) = epochMark /\ SeqOf(e) <= work.max
      <4>1. PICK f \in work.all : SeqOf(f) = work.max
        BY <2>5 DEF EndWork, MarkInv, Batched
      <4>2. f \in Received /\ f \in Emitted /\ EpochOf(f) = epochMark /\ SeqOf(f) \in Int
        BY InHandBrought, EventTypes DEF Received, MarkInv, EpochInv, OneEpochPerBatch
      <4>3. Accounted(e)
        BY <3>2, <4>1, <4>2 DEF Closed, UpTo
      <4>4. e \notin EventsOf(buffer) /\ e \notin InHand
        BY <2>1, <3>2, <4>1, <4>2 DEF InOrder
      <4>5. work.todo = {} /\ work.due = {}
        BY <2>5 DEF EndWork
      <4> QED BY <4>3, <4>4, <4>5, OldPending
    <3> QED BY <2>2, <2>5, <3>1, <3>2
  <2> QED BY <2>3, <2>4, <2>5, MarkSteps DEF MarkInv
<1>2. ASSUME NEW e \in Emitted' \ Emitted PROVE ~(EpochOf(e) < epochMark' \/ Seen(e)')
  <2>1. Emit
    BY <1>0, <1>2, HeadsKept
  <2>2. e = <<epoch, head[epoch] + 1>> /\ head[epoch] \in Nat
    BY <1>0, <1>2, <2>1, HeadsKept DEF Shapes
  <2>3. EpochOf(e) = epoch /\ SeqOf(e) = head[epoch] + 1
    BY <2>2 DEF EpochOf, SeqOf
  <2>4. epochMark' = epochMark /\ seqMark' = seqMark
    BY <2>1 DEF Emit, marks
  <2>5. epochMark = epoch => seqMark <= head[epoch]
    BY <1>0 DEF MarkMeans, NoEpoch
  <2>6. ~(EpochOf(e) < epochMark')
    BY <1>0, <2>3, <2>4
  <2>7. ~(EpochOf(e) = epochMark' /\ SeqOf(e) <= seqMark')
    BY <1>0, <2>2, <2>3, <2>4, <2>5
  <2> QED BY <2>6, <2>7 DEF Seen, EpochOf, SeqOf
<1>3. Settled \subseteq Settled'
  BY SettledKept
<1> QED BY <1>1, <1>2, <1>3 DEF Honest, Seen, EpochOf, SeqOf

-----------------------------------------------------------------------------
LEMMA StretchSeq ==
  ASSUME NEW n \in Int, NEW k \in Int, NEW l \in Nat
  PROVE  Stretch(n, k, l) \in Seq(Pair) /\ Len(Stretch(n, k, l)) = l
<1> DEFINE s == Stretch(n, k, l)
<1>1. \A i \in 1 .. l : <<n, k + i>> \in Pair
  BY DEF Pair
<1>2. s \in [1 .. l -> Pair] /\ DOMAIN s = 1 .. l
  BY <1>1 DEF Stretch
<1> HIDE DEF s
<1>3. s \in Seq(Pair)
  BY <1>2, SeqDef
<1>4. Len(s) = l
  BY <1>2, <1>3
<1> QED BY <1>3, <1>4 DEF s

LEMMA SameStretch ==
  ASSUME NEW n \in Int, NEW k \in Int, NEW l \in Nat, NEW s \in Seq(Pair), Len(s) = l,
         \A i \in 1 .. l : s[i] = <<n, k + i>>
  PROVE  s = Stretch(n, k, l)
<1>1. DOMAIN s = 1 .. l /\ s = [i \in 1 .. l |-> s[i]]
  OBVIOUS
<1> QED BY <1>1 DEF Stretch

LEMMA StretchAppend ==
  ASSUME NEW n \in Int, NEW k \in Int, NEW l \in Nat
  PROVE  Append(Stretch(n, k, l), <<n, k + l + 1>>) = Stretch(n, k, l + 1)
<1> DEFINE s == Stretch(n, k, l)  e == <<n, k + l + 1>>
<1>1. s \in Seq(Pair) /\ Len(s) = l /\ e \in Pair /\ \A i \in 1 .. l : s[i] = <<n, k + i>>
  BY StretchSeq DEF Stretch, Pair
<1>2. k + l + 1 = k + (l + 1)
  OBVIOUS
<1>3. e = <<n, k + (l + 1)>>
  BY <1>2
<1> HIDE DEF s, e
<1>4. Append(s, e) \in Seq(Pair) /\ Len(Append(s, e)) = l + 1
  BY <1>1
<1>5. \A i \in 1 .. l + 1 : Append(s, e)[i] = IF i = l + 1 THEN e ELSE s[i]
  BY <1>1
<1>6. \A i \in 1 .. l + 1 : Append(s, e)[i] = <<n, k + i>>
  <2> TAKE i \in 1 .. l + 1
  <2>1. CASE i = l + 1
    BY <1>3, <1>5, <2>1
  <2>2. CASE i # l + 1
    <3>1. i \in 1 .. l
      BY <2>2
    <3> QED BY <1>1, <1>5, <2>2, <3>1
  <2> QED BY <2>1, <2>2
<1>7. Append(s, e) = Stretch(n, k, l + 1)
  <2> DEFINE t == Append(s, e)  j == l + 1
  <2>1. t \in Seq(Pair) /\ Len(t) = j /\ \A i \in 1 .. j : t[i] = <<n, k + i>>
    BY <1>4, <1>6
  <2>2. j \in Nat
    OBVIOUS
  <2> HIDE DEF t, j
  <2>3. t = Stretch(n, k, j)
    BY <2>1, <2>2, SameStretch
  <2> QED BY <2>3 DEF t, j
<1> QED BY <1>7 DEF s, e

LEMMA StretchTail ==
  ASSUME NEW n \in Int, NEW k \in Int, NEW l \in Nat, l # 0
  PROVE  /\ Head(Stretch(n, k, l)) = <<n, k + 1>>
         /\ Tail(Stretch(n, k, l)) = Stretch(n, k + 1, l - 1)
<1> DEFINE s == Stretch(n, k, l)
<1>1. s \in Seq(Pair) /\ Len(s) = l /\ \A i \in 1 .. l : s[i] = <<n, k + i>>
  BY StretchSeq DEF Stretch
<1> HIDE DEF s
<1>2. Head(s) = s[1] /\ Tail(s) \in Seq(Pair) /\ Len(Tail(s)) = l - 1
      /\ \A i \in 1 .. l - 1 : Tail(s)[i] = s[i + 1]
  BY <1>1
<1>3. \A i \in 1 .. l - 1 : Tail(s)[i] = <<n, (k + 1) + i>>
  <2> TAKE i \in 1 .. l - 1
  <2>1. i + 1 \in 1 .. l /\ k + (i + 1) = (k + 1) + i
    OBVIOUS
  <2>2. s[i + 1] = <<n, k + (i + 1)>>
    BY <1>1, <2>1
  <2> QED BY <1>2, <2>1, <2>2
<1>4. Tail(s) = Stretch(n, k + 1, l - 1)
  <2> DEFINE t == Tail(s)  j == l - 1  h == k + 1
  <2>1. t \in Seq(Pair) /\ Len(t) = j /\ \A i \in 1 .. j : t[i] = <<n, h + i>>
    BY <1>2, <1>3
  <2>2. j \in Nat /\ h \in Int
    OBVIOUS
  <2> HIDE DEF t, j, h
  <2>3. t = Stretch(n, h, j)
    BY <2>1, <2>2, SameStretch
  <2> QED BY <2>3 DEF t, j, h
<1>5. s[1] = <<n, k + 1>>
  BY <1>1
<1> QED BY <1>2, <1>4, <1>5 DEF s

LEMMA StretchSub ==
  ASSUME NEW n \in Int, NEW k \in Int, NEW l \in Nat, NEW m \in 0 .. l
  PROVE  SubSeq(Stretch(n, k, l), 1, m) = Stretch(n, k, m)
<1> DEFINE s == Stretch(n, k, l)
<1>1. s \in Seq(Pair) /\ Len(s) = l /\ \A i \in 1 .. l : s[i] = <<n, k + i>>
  BY StretchSeq DEF Stretch
<1> HIDE DEF s
<1>2. SubSeq(s, 1, m) \in Seq(Pair) /\ Len(SubSeq(s, 1, m)) = m
      /\ \A i \in 1 .. m : SubSeq(s, 1, m)[i] = s[i]
  BY <1>1
<1>3. SubSeq(s, 1, m) = Stretch(n, k, m)
  <2> DEFINE t == SubSeq(s, 1, m)
  <2>1. t \in Seq(Pair) /\ Len(t) = m /\ \A i \in 1 .. m : t[i] = <<n, k + i>>
    BY <1>1, <1>2
  <2>2. m \in Nat
    OBVIOUS
  <2> HIDE DEF t
  <2>3. t = Stretch(n, k, m)
    BY <2>1, <2>2, SameStretch
  <2> QED BY <2>3 DEF t
<1> QED BY <1>3 DEF s

-----------------------------------------------------------------------------
(* What the connection sends continues where its listener is.              *)
LEMMA StreamGoesOn ==
  ASSUME MarkInv, [Next]_vars, Connected, Connected', ~ReadEvent,
         NEW n \in 1 .. epoch, NEW k \in Nat,
         stream = Stretch(n, k, Len(stream)), k + Len(stream) <= head[n],
         open => n = epoch /\ k + Len(stream) = head[n]
  PROVE  /\ stream' = Stretch(n, k, Len(stream'))
         /\ k + Len(stream') <= head'[n]
         /\ open' => n = epoch' /\ k + Len(stream') = head'[n]
<1> DEFINE l == Len(stream)
<1>0. /\ l \in Nat /\ n \in Int /\ head \in [1 .. MaxEpoch -> Nat] /\ n \in 1 .. MaxEpoch
      /\ epoch \in 1 .. MaxEpoch /\ head[n] \in Nat /\ head'[n] \in Nat /\ head[n] <= head'[n]
  <2>1. stream \in Seq(Pair) /\ epoch \in 1 .. MaxEpoch /\ head \in [1 .. MaxEpoch -> Nat]
    BY DEF MarkInv, EpochInv, Shapes
  <2>2. n \in 1 .. MaxEpoch /\ n \in Int
    BY <2>1, EventAssumption
  <2> QED BY <2>1, <2>2, HeadsGrow
<1>1. ~Connect /\ ~CancelFlush /\ ~Kill
  <2>1. ASSUME Kill PROVE FALSE
    <3>1. reader'.at = "stopped"
      BY <2>1, ReaderFacts DEF Kill, MarkInv, EpochInv, Shapes
    <3> QED BY <3>1 DEF Connected
  <2> QED BY <2>1 DEF Connected, Connect, CancelFlush
<1>2. CASE UNCHANGED server
  BY <1>2 DEF server
<1>3. CASE Emit /\ UNCHANGED <<epoch, open>> /\ head' = [head EXCEPT ![epoch] = @ + 1]
           /\ stream' = IF open THEN Append(stream, <<epoch, head'[epoch]>>) ELSE stream
  <2>1. CASE ~open
    <3>1. stream' = stream /\ ~open'
      BY <1>3, <2>1
    <3> QED BY <1>0, <3>1
  <2>2. CASE open
    <3>1. n = epoch /\ head'[n] = head[n] + 1 /\ head'[n] = k + l + 1
      BY <1>0, <1>3, <2>2
    <3>2. stream' = Append(stream, <<n, k + l + 1>>)
      BY <1>3, <2>2, <3>1
    <3>3. stream = Stretch(n, k, l)
      OBVIOUS
    <3> HIDE DEF l
    <3>4. stream' = Stretch(n, k, l + 1)
      <4>1. l \in Nat /\ n \in Int /\ k \in Int
        BY <1>0
      <4>2. Append(Stretch(n, k, l), <<n, k + l + 1>>) = Stretch(n, k, l + 1)
        BY <4>1, StretchAppend
      <4> QED BY <3>2, <3>3, <4>2, Zenon
    <3>5. Len(stream') = l + 1
      <4>1. l + 1 \in Nat
        BY <1>0
      <4> QED BY <1>0, <3>4, <4>1, StretchSeq
    <3>6. stream' = Stretch(n, k, Len(stream'))
      BY <3>4, <3>5, Zenon
    <3>7. k + Len(stream') = head'[n] /\ head'[n] \in Nat
      BY <1>0, <3>1, <3>5
    <3>8. n = epoch'
      BY <1>3, <3>1
    <3>9. k + Len(stream') <= head'[n]
      BY <3>7
    <3> QED BY <3>6, <3>7, <3>8, <3>9, Zenon
  <2> QED BY <2>1, <2>2
<1>4. CASE UNCHANGED head /\ ~open' /\ \E m \in 0 .. Len(stream) : stream' = SubSeq(stream, 1, m)
  <2>1. PICK m \in 0 .. l : stream' = SubSeq(stream, 1, m)
    BY <1>4
  <2>2. stream = Stretch(n, k, l) /\ k + l <= head[n]
    OBVIOUS
  <2> HIDE DEF l
  <2>3. stream' = Stretch(n, k, m) /\ m \in Nat
    <3>1. l \in Nat /\ n \in Int /\ k \in Int /\ m \in Nat
      BY <1>0, <2>1
    <3>2. SubSeq(Stretch(n, k, l), 1, m) = Stretch(n, k, m)
      BY <2>1, <3>1, StretchSub
    <3> QED BY <2>1, <2>2, <3>1, <3>2, Zenon
  <2>4. Len(stream') = m
    BY <1>0, <2>3, StretchSeq
  <2> QED BY <1>0, <1>4, <2>1, <2>2, <2>3, <2>4
<1> QED BY <1>1, <1>2, <1>3, <1>4, StreamSteps

LEMMA TapeKept ==
  ASSUME MarkInv, Honest, Position, [Next]_vars, Connected, Connected', ~ReadEvent,
         NEW n \in 1 .. epoch, NEW k \in Nat, Tape(n, k)
  PROVE  Tape(n, k)'
<1>1. /\ stream' = Stretch(n, k, Len(stream'))
      /\ k + Len(stream') <= head'[n]
      /\ open' => n = epoch' /\ k + Len(stream') = head'[n]
  BY StreamGoesOn DEF Tape
<1>2. k <= head[n] /\ k \in Int
  <2>1. stream \in Seq(Pair) /\ head \in [1 .. MaxEpoch -> Nat] /\ epoch \in 1 .. MaxEpoch
    BY DEF MarkInv, EpochInv, Shapes
  <2>2. Len(stream) \in Nat /\ n \in 1 .. MaxEpoch
    BY <2>1, EventAssumption
  <2>3. head[n] \in Nat
    BY <2>1, <2>2
  <2> QED BY <2>2, <2>3 DEF Tape
<1>3. ~Kill /\ ~Shutdown
  <2>1. ASSUME Kill \/ Shutdown PROVE FALSE
    <3>1. reader'.at \in {"stopped", "closing"}
      BY <2>1, ReaderFacts DEF Kill, Shutdown, MarkInv, EpochInv, Shapes
    <3> QED BY <3>1 DEF Connected
  <2> QED BY <2>1
<1>4. \A e \in UpTo(n, k)' : Accounted(e)'
  <2>1. UpTo(n, k)' = UpTo(n, k) /\ UpTo(n, k) \subseteq Emitted
    BY <1>2, UpToKept DEF UpTo
  <2> QED BY <1>3, <2>1, AccountedKept DEF Tape
<1>5. \A f \in Received' : EpochOf(f) = n /\ SeqOf(f) <= k
  <2>1. \A f \in InHand : EpochOf(f) = n /\ SeqOf(f) <= k
    BY <1>2 DEF Tape, EpochOf, SeqOf
  <2>2. AppendEvent => reader.event \in InHand
    BY DEF AppendEvent, InHand
  <2> QED BY <2>1, <2>2, ReceivedSteps DEF Tape
<1>6. \A f \in InHand' : f = <<n, k>>
  BY HandSteps DEF Tape
<1> QED BY <1>1, <1>4, <1>5, <1>6 DEF Tape, EpochOf, SeqOf

LEMMA TapeRead ==
  ASSUME MarkInv, Honest, Position, [Next]_vars, ReadEvent,
         NEW n \in 1 .. epoch, NEW k \in Nat, Tape(n, k)
  PROVE  Tape(n, k + 1)' /\ Head(stream) = <<n, k + 1>> /\ reader'.event = <<n, k + 1>>
<1>0. /\ stream \in Seq(Pair) /\ head \in [1 .. MaxEpoch -> Nat] /\ epoch \in 1 .. MaxEpoch
      /\ Shapes /\ Heads /\ ReaderShape
  BY DEF MarkInv, EpochInv, Shapes
<1>1. n \in 1 .. MaxEpoch /\ n \in Int /\ head[n] \in Nat
  BY <1>0, EventAssumption
<1>2. /\ stream # <<>> /\ stream' = Tail(stream) /\ UNCHANGED <<epoch, head, open, buffer, work>>
      /\ reader'.event = Head(stream) /\ reader'.at \in {"resetSeq", "setEpoch"}
      /\ UNCHANGED Settled
  BY <1>0, ReaderFacts DEF ReadEvent, ghosts, Settled
<1>3. PICK l \in Nat : l = Len(stream)
  BY <1>0
<1>4. l # 0 /\ stream = Stretch(n, k, l) /\ k + l <= head[n]
  BY <1>0, <1>2, <1>3 DEF Tape
<1>5. Head(stream) = <<n, k + 1>> /\ stream' = Stretch(n, k + 1, l - 1)
  <2>1. /\ Head(Stretch(n, k, l)) = <<n, k + 1>>
        /\ Tail(Stretch(n, k, l)) = Stretch(n, k + 1, l - 1)
    <3>1. n \in Int /\ k \in Int /\ l \in Nat /\ l # 0
      BY <1>1, <1>4
    <3> QED BY <3>1, StretchTail
  <2>2. stream = Stretch(n, k, l) /\ stream' = Tail(stream)
    BY <1>2, <1>4
  <2> QED BY <2>1, <2>2, Zenon
<1>6. Len(stream') = l - 1
  <2>1. l - 1 \in Nat /\ k + 1 \in Int
    BY <1>4
  <2> QED BY <1>1, <1>5, <2>1, StretchSeq
<1>7. stream' = Stretch(n, k + 1, Len(stream'))
  BY <1>5, <1>6
<1>8. (k + 1) + Len(stream') <= head'[n]
      /\ (open' => n = epoch' /\ (k + 1) + Len(stream') = head'[n])
  BY <1>1, <1>2, <1>3, <1>4, <1>6 DEF Tape
<1>9. Received' = Received
  BY <1>2 DEF Received
<1>10. \A f \in Received' : EpochOf(f) = n /\ SeqOf(f) <= k + 1
  <2>1. \A f \in Received : SeqOf(f) \in Int
    BY InHandBrought, EventTypes
  <2> QED BY <1>9, <2>1 DEF Tape
<1>11. \A f \in InHand' : f = <<n, k + 1>>
  BY <1>2, <1>5 DEF InHand
<1>12. \A e \in UpTo(n, k + 1)' : Accounted(e)'
  <2> SUFFICES ASSUME NEW e \in UpTo(n, k + 1)' PROVE Accounted(e)'
    OBVIOUS
  <2>0. ~Emit
    BY <1>0, <1>2, HeadsKept
  <2>1. e \in Emitted /\ (EpochOf(e) < n \/ (EpochOf(e) = n /\ SeqOf(e) <= k + 1))
    BY <1>0, <2>0, HeadsKept DEF UpTo, EpochOf, SeqOf
  <2>2. SeqOf(e) \in Int /\ e = <<EpochOf(e), SeqOf(e)>>
    BY <2>1, EventTypes
  <2>3. CASE e = <<n, k + 1>>
    BY <1>2, <1>5, <2>3 DEF Accounted, Pending
  <2>4. CASE e # <<n, k + 1>>
    <3>1. e \in UpTo(n, k)
      BY <2>1, <2>2, <2>4 DEF UpTo
    <3>2. Accounted(e)
      BY <3>1 DEF Tape
    <3>3. ~Kill /\ ~Shutdown
      <4>1. ASSUME Kill \/ Shutdown PROVE FALSE
        <5>1. reader'.at \in {"stopped", "closing"}
          BY <1>0, <4>1, ReaderFacts DEF Kill, Shutdown
        <5> QED BY <1>2, <5>1
      <4> QED BY <4>1
    <3> QED BY <2>1, <3>2, <3>3, AccountedKept
  <2> QED BY <2>3, <2>4
<1> QED BY <1>2, <1>5, <1>7, <1>8, <1>10, <1>11, <1>12 DEF Tape, EpochOf, SeqOf

(* A connection begins after last_event_id; what the ring no longer has is *)
(* counted as missed.                                                      *)
LEMMA TapeStarts ==
  ASSUME MarkInv, Honest, Position, NothingSkipped, [Next]_vars, Connect
  PROVE  \E k \in Nat : Tape(epoch, k)'
<1>0. /\ head \in [1 .. MaxEpoch -> Nat] /\ epoch \in 1 .. MaxEpoch /\ epoch \in Int
      /\ Shapes /\ Heads /\ ReaderShape /\ EpochInv /\ head[epoch] \in Nat
      /\ reader.id \in Pair
  BY DEF MarkInv, EpochInv, Shapes, Counts
<1>1. PICK replay \in Replays(reader.id) :
        /\ stream' = [i \in 1 .. Cardinality(replay) |->
                        <<epoch, head[epoch] - Cardinality(replay) + i>>]
        /\ missed' = missed \cup {e \in Emitted : After(reader.id, e)
                                    /\ ~(EpochOf(e) = epoch /\ SeqOf(e) \in replay)}
  BY DEF Connect
<1>2. PICK k \in 0 .. head[epoch] :
        replay = k + 1 .. head[epoch] /\ Cardinality(replay) = head[epoch] - k
  BY <1>0, ReplayIsTail
<1>3. /\ reader.at = "connect" /\ reader'.at = "read" /\ UNCHANGED <<epoch, head>>
      /\ Received' = {} /\ ~reader.stopping
  BY <1>0, ReaderFacts, ConnectKeeps DEF Connect, Position
<1>4. PICK l \in Nat : l = head[epoch] - k
  BY <1>0, <1>2
<1>5. stream' = Stretch(epoch, k, l)
  <2>1. stream' = [i \in 1 .. l |-> <<epoch, head[epoch] - l + i>>]
    BY <1>1, <1>2, <1>4
  <2>2. head[epoch] - l = k
    BY <1>0, <1>2, <1>4
  <2> QED BY <2>1, <2>2 DEF Stretch
<1>6. Len(stream') = l
  BY <1>0, <1>2, <1>5, StretchSeq
<1>7. k + Len(stream') = head'[epoch] /\ head'[epoch] \in Nat
  BY <1>0, <1>2, <1>3, <1>4, <1>6
<1>8. InHand' = {}
  BY <1>3 DEF InHand
<1>9. \A e \in UpTo(epoch, k)' : Accounted(e)'
  <2> SUFFICES ASSUME NEW e \in UpTo(epoch, k)' PROVE Accounted(e)'
    OBVIOUS
  <2>0. ~Emit /\ ~Kill /\ ~Shutdown
    <3>1. ~Emit
      BY <1>0, <1>3, HeadsKept
    <3>2. ASSUME Kill \/ Shutdown PROVE FALSE
      <4>1. reader'.at \in {"stopped", "closing"}
        BY <1>0, <3>2, ReaderFacts DEF Kill, Shutdown
      <4> QED BY <1>3, <4>1
    <3> QED BY <3>1, <3>2
  <2>1. e \in Emitted /\ (EpochOf(e) < epoch \/ (EpochOf(e) = epoch /\ SeqOf(e) <= k))
    BY <1>0, <1>3, <2>0, HeadsKept DEF UpTo, EpochOf, SeqOf
  <2>2. CASE After(reader.id, e)
    <3>1. ~(EpochOf(e) = epoch /\ SeqOf(e) \in replay)
      BY <1>2, <2>1, EventTypes
    <3>2. e \in missed'
      BY <1>1, <2>1, <2>2, <3>1
    <3> QED BY <3>2 DEF Accounted, Settled
  <2>3. CASE ~After(reader.id, e)
    <3>1. Accounted(e)
      BY <1>3, <2>1, <2>3 DEF NothingSkipped, Accounted
    <3> QED BY <2>0, <2>1, <3>1, AccountedKept
  <2> QED BY <2>2, <2>3
<1>10. stream' = Stretch(epoch, k, Len(stream')) /\ k \in Nat
  BY <1>2, <1>5, <1>6
<1>11. k + Len(stream') <= head'[epoch]
  BY <1>7
<1> QED BY <1>3, <1>7, <1>8, <1>9, <1>10, <1>11 DEF Tape, EpochOf, SeqOf

LEMMA ReadingKept ==
  ASSUME MarkInv, Honest, Position, Reading, NothingSkipped, [Next]_vars
  PROVE  Reading'
<1> SUFFICES ASSUME Connected' PROVE \E n \in 1 .. epoch', k \in Nat : Tape(n, k)'
  BY DEF Reading
<1>0. ReaderShape /\ epoch \in 1 .. epoch /\ \A n \in 1 .. epoch : n \in 1 .. epoch'
  <2>1. epoch \in Nat \ {0} /\ epoch' \in {epoch, epoch + 1} /\ ReaderShape
    BY HeadsKept, EventAssumption DEF MarkInv, EpochInv, Shapes
  <2> QED BY <2>1
<1>1. CASE ~Connected
  <2>1. ASSUME NEW S, Goes(S) PROVE reader'.at \in S
    BY <1>0, <2>1, ReaderTurns DEF Goes
  <2>2. StartWorker => reader'.at = "connect"
    BY DEF StartWorker, Starting
  <2>3. Kill => reader'.at = "stopped"
    BY <1>0, ReaderFacts DEF Kill
  <2>4. Connect
    BY <1>1, <2>1, <2>2, <2>3, ReaderSteps DEF MarkInv, Connected
  <2>5. PICK k \in Nat : Tape(epoch, k)'
    BY <2>4, TapeStarts
  <2>6. epoch' \in 1 .. epoch' /\ epoch' = epoch
    BY <1>0, <2>4 DEF Connect
  <2> QED BY <2>5, <2>6
<1>2. CASE Connected
  <2>1. PICK n \in 1 .. epoch, k \in Nat : Tape(n, k)
    BY <1>2 DEF Reading
  <2>2. CASE ReadEvent
    <3>1. Tape(n, k + 1)' /\ k + 1 \in Nat
      BY <2>1, <2>2, TapeRead
    <3> QED BY <1>0, <3>1
  <2>3. CASE ~ReadEvent
    <3>1. Tape(n, k)'
      BY <1>2, <2>1, <2>3, TapeKept
    <3> QED BY <1>0, <3>1
  <2> QED BY <2>2, <2>3
<1> QED BY <1>1, <1>2

LEMMA ClosedKept ==
  ASSUME MarkInv, Honest, Position, InOrder, Reading, Closed, [Next]_vars
  PROVE  Closed'
<1> SUFFICES ASSUME NEW f \in Received', NEW e \in UpTo(EpochOf(f), SeqOf(f))'
             PROVE  Accounted(e)'
  BY DEF Closed, EpochOf, SeqOf
<1>1. CASE f \in Received
  <2>1. f \in Emitted /\ EpochOf(f) \in 1 .. epoch /\ SeqOf(f) \in Int
        /\ SeqOf(f) <= head[EpochOf(f)]
    BY <1>1, InHandBrought, EventTypes
  <2> DEFINE n == EpochOf(f)  k == SeqOf(f)
  <2>2. UpTo(n, k)' = UpTo(n, k)
    <3> HIDE DEF n, k
    <3>1. n \in 1 .. epoch /\ k \in Int /\ k <= head[n]
      BY <2>1 DEF n, k
    <3> QED BY <3>1, UpToKept
  <2>3. e \in UpTo(n, k) /\ Accounted(e) /\ e \in Emitted
    BY <1>1, <2>2 DEF Closed, UpTo
  <2>4. ~Kill
    BY ReceivedSteps
  <2>5. ~(Shutdown /\ e = reader.event)
    <3> SUFFICES ASSUME Shutdown, e = reader.event PROVE FALSE
      OBVIOUS
    <3>1. e \in InHand /\ e \in Brought
      BY <2>3, EventTypes DEF Position, InHand, Brought, Connected
    <3>2. SeqOf(f) < SeqOf(e)
      BY <1>1, <3>1 DEF InOrder
    <3>3. EpochOf(e) = EpochOf(f)
      BY <1>1, <3>1 DEF MarkInv, EpochInv, OneEpochBrought, Brought
    <3> QED BY <2>1, <2>3, <3>2, <3>3, EventTypes DEF UpTo
  <2> QED BY <2>3, <2>4, <2>5, AccountedKept
<1>2. CASE AppendEvent /\ f = reader.event
  <2>1. reader.at = "append"
    BY <1>2 DEF AppendEvent
  <2>2. PICK n \in 1 .. epoch, k \in Nat : Tape(n, k)
    BY <2>1 DEF Reading, Connected
  <2>3. f = <<n, k>> /\ EpochOf(f) = n /\ SeqOf(f) = k /\ f \in Emitted
    BY <1>2, <2>1, <2>2, InHandBrought DEF Tape, InHand, EpochOf, SeqOf
  <2>4. k \in Int /\ k <= head[n]
    BY <2>3, EventTypes
  <2>5. UpTo(n, k)' = UpTo(n, k)
    BY <2>4, UpToKept
  <2>6. e \in UpTo(n, k) /\ Accounted(e) /\ e \in Emitted
    <3>1. e \in UpTo(n, k)'
      BY <2>3
    <3> QED BY <2>2, <2>5, <3>1 DEF Tape, UpTo
  <2>7. ~Kill /\ ~Shutdown
    <3>1. reader'.at = "read"
      BY <1>2, ReaderFacts DEF AppendEvent, MarkInv, EpochInv, Shapes
    <3>2. Kill \/ Shutdown => reader'.at \in {"stopped", "closing"}
      BY ReaderFacts DEF Kill, Shutdown, MarkInv, EpochInv, Shapes
    <3> QED BY <3>1, <3>2
  <2> QED BY <2>6, <2>7, AccountedKept
<1> QED BY <1>1, <1>2, ReceivedSteps

LEMMA NothingKept ==
  ASSUME MarkInv, Honest, Position, Reading, NothingSkipped, [Next]_vars
  PROVE  NothingSkipped'
<1>0. Shapes /\ Heads /\ ReaderShape /\ reader.id \in Pair /\ epoch \in 1 .. MaxEpoch
      /\ head \in [1 .. MaxEpoch -> Nat] /\ epochMark \in Int /\ seqMark \in Nat
  BY DEF MarkInv, EpochInv, Shapes, Counts
<1> SUFFICES ASSUME ~reader'.stopping, reader'.at # "stopped",
                    NEW e \in Emitted', ~After(reader'.id, e)
             PROVE  Accounted(e)'
  BY DEF NothingSkipped, Accounted, After, EpochOf, SeqOf
<1>1. ~Kill /\ ~Shutdown
  BY <1>0, ReaderFacts DEF Kill, Shutdown
<1>2. CASE StartWorker
  <2>1. reader'.id = CachedId /\ ~Emit
    BY <1>2, HeadsKept DEF StartWorker, Starting, server, Emit
  <2>2. e \in Emitted /\ EpochOf(e) \in 1 .. epoch /\ SeqOf(e) \in Int
    BY <1>0, <2>1, HeadsKept, EventTypes
  <2>3. CachedId # NoId
    <3>1. After(NoId, e)
      BY <1>0, <2>2 DEF After, NoId, EpochOf, SeqOf
    <3> QED BY <2>1, <3>1
  <2>4. CachedId = <<epochMark, seqMark>>
    BY <2>3 DEF CachedId
  <2>5. EpochOf(e) < epochMark \/ (EpochOf(e) = epochMark /\ SeqOf(e) <= seqMark)
    <3>1. EpochOf(CachedId) = epochMark /\ SeqOf(CachedId) = seqMark
      BY <2>4 DEF EpochOf, SeqOf
    <3> QED BY <1>0, <2>1, <2>2, <3>1 DEF After
  <2> QED BY <2>2, <2>5, SettledKept DEF Honest, Seen, Accounted
<1>3. CASE ReadEvent
  <2>1. PICK n \in 1 .. epoch, k \in Nat : Tape(n, k)
    BY <1>3 DEF Reading, Connected, ReadEvent
  <2>2. Tape(n, k + 1)' /\ reader'.id = <<n, k + 1>>
    <3>1. reader'.id = Head(stream)
      BY <1>0, <1>3, ReaderFacts DEF ReadEvent
    <3> QED BY <1>3, <2>1, <3>1, TapeRead
  <2>3. EpochOf(e) < n \/ (EpochOf(e) = n /\ SeqOf(e) <= k + 1)
    <3>1. EpochOf(reader'.id) = n /\ SeqOf(reader'.id) = k + 1
      BY <2>2 DEF EpochOf, SeqOf
    <3>2. EpochOf(e) \in Int /\ SeqOf(e) \in Int
      BY DEF Emitted, Event, EpochOf, SeqOf
    <3> QED BY <3>1, <3>2 DEF After
  <2>4. e \in UpTo(n, k + 1)'
    BY <2>3 DEF UpTo, EpochOf, SeqOf
  <2> QED BY <2>2, <2>4 DEF Tape
<1>4. CASE ~StartWorker /\ ~ReadEvent
  <2>1. reader'.id = reader.id /\ reader.at # "stopped" /\ ~reader.stopping
    <3>1. ASSUME NEW S, Goes(S)
          PROVE  reader'.id = reader.id /\ reader'.stopping = reader.stopping
      BY <1>0, <3>1, ReaderTurns DEF Goes
    <3>2. UNCHANGED reader \/ (reader.at # "stopped" /\ reader'.id = reader.id
                                /\ reader'.stopping = reader.stopping)
      BY <1>1, <1>4, <3>1, ReaderSteps DEF MarkInv
    <3> QED BY <3>2
  <2>2. CASE e \in Emitted
    <3>1. Accounted(e)
      BY <2>1, <2>2 DEF NothingSkipped, Accounted
    <3> QED BY <1>1, <2>2, <3>1, AccountedKept
  <2>3. CASE e \notin Emitted
    <3>1. e = <<epoch, head[epoch] + 1>> /\ head[epoch] \in Nat
      BY <1>0, <2>3, HeadsKept
    <3>2. EpochOf(e) = epoch /\ SeqOf(e) = head[epoch] + 1
      BY <3>1 DEF EpochOf, SeqOf
    <3>3. CASE reader.id = NoId
      BY <1>0, <2>1, <3>2, <3>3 DEF After, NoId, EpochOf, SeqOf
    <3>4. CASE reader.id \in Emitted
      <4>1. EpochOf(reader.id) \in 1 .. epoch /\ SeqOf(reader.id) \in 1 .. head[EpochOf(reader.id)]
        BY <3>4, EventTypes
      <4> QED BY <1>0, <2>1, <3>1, <3>2, <4>1 DEF After
    <3> QED BY <3>3, <3>4 DEF Position
  <2> QED BY <2>2, <2>3
<1> QED BY <1>2, <1>3, <1>4

-----------------------------------------------------------------------------
LEMMA SkipInit == Leftover = 0 /\ Init => SkipInv
<1> SUFFICES ASSUME Leftover = 0, Init PROVE SkipInv
  OBVIOUS
<1>1. /\ reader.at = "connect" /\ reader.id = NoId /\ reader.event = NoId /\ ~reader.stopping
      /\ work.all = {} /\ buffer = <<>> /\ epochMark = NoEpoch /\ seqMark = 0
  BY DEF Init, Starting, NoWork
<1>2. Received = {} /\ InHand = {} /\ EventsOf(buffer) = {}
  BY <1>1, EventsEmpty DEF Received, InHand
<1>3. \A e \in Emitted : EpochOf(e) \in Int /\ EpochOf(e) >= 1 /\ SeqOf(e) \in Int
  BY DEF Emitted, Event, EpochOf, SeqOf
<1>4. MarkMeans /\ Position /\ InOrder /\ Reading /\ Closed
  BY <1>1, <1>2 DEF MarkMeans, Position, InOrder, Reading, Closed, Connected
<1>5. Honest
  BY <1>1, <1>3 DEF Honest, Seen, NoEpoch
<1>6. NothingSkipped
  <2>1. \A e \in Emitted : After(NoId, e)
    BY <1>3 DEF After, NoId, EpochOf, SeqOf
  <2> QED BY <1>1, <2>1 DEF NothingSkipped
<1> QED BY <1>4, <1>5, <1>6 DEF SkipInv

LEMMA SkipNext == ASSUME MarkInv, SkipInv, [Next]_vars PROVE SkipInv'
BY MarkMeansKept, HonestKept, PositionKept, InOrderKept, ReadingKept, ClosedKept, NothingKept
DEF SkipInv

LEMMA Skips == Leftover = 0 => (Spec => [](MarkInv /\ SkipInv))
<1>1. Leftover = 0 /\ Init => MarkInv /\ SkipInv
  BY MarkInit, SkipInit
<1>2. MarkInv /\ SkipInv /\ [Next]_vars => (MarkInv /\ SkipInv)'
  BY MarkNext, SkipNext
<1> QED BY <1>1, <1>2, PTL DEF Spec

(* The mark in the cache covers no event that is still to be processed: a  *)
(* worker that restarts from it skips nothing (sse_client.py:137-147).     *)
(* The premise is needed: a mark that the polling mode left without an     *)
(* epoch is taken for one of the first epoch (FirstEpochUnfiltered).       *)
THEOREM MarkCoversSettled == Leftover = 0 => (Spec => []MarkIsHonest)
<1>1. SkipInv => MarkIsHonest
  BY DEF SkipInv, Honest, MarkIsHonest, Seen
<1> QED BY <1>1, Skips, PTL

(* No connection that starts after last_event_id skips an event: what lies *)
(* before it is done, given up with its batch, or still in hand            *)
(* (sse_client.py:173-175, 252).                                           *)
THEOREM ConnectionsSkipNothing == Leftover = 0 => (Spec => []NothingSkipped)
<1>1. SkipInv => NothingSkipped
  BY DEF SkipInv
<1> QED BY <1>1, Skips, PTL
=============================================================================
