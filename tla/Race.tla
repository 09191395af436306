-------------------------------- MODULE Race --------------------------------
(***************************************************************************)
(* Race events, handlers/events.py: the rows that mirror a race of the     *)
(* game from its webhook events, and the experience paid when it ends.     *)
(* process_events sorts a batch by character and hook, so that events are  *)
(* handled in another order than they were sent.  The owner may start the  *)
(* same event again; its guid stays, and a row is kept of each race.       *)
(*                                                                         *)
(* One event.  A time is the race and the section at which it was taken.   *)
(* The race of a webhook event is a ghost: the backend cannot see it.      *)
(***************************************************************************)
EXTENDS Naturals, Sequences, FiniteSets, FiniteSetsExt

CONSTANTS Racers,      \* they take part in every race, in order of their guids
          Owner,       \* the racer whose event it is
          Goal,        \* the last section; sections count from 1
          Races,       \* bound: races of the event
          Deaths       \* bound: batches that die

ASSUME RaceAssumption ==
  {Racers, Goal} \subseteq Nat \ {0} /\ {Races, Deaths} \subseteq Nat /\ Owner \in 1 .. Racers

Racer  == 1 .. Racers
NoTime == <<0, 0>>
(* GameEvent.state.                                                        *)
Ready    == 1
Running  == 2
Finished == 3

VARIABLES race,        \* the game: the number of the race, its state
          place,       \* the game: the section each racer passed last, or 0
          wire,        \* webhook events not fetched yet
          batch,       \* process_events: the sorted batch
          turn,        \* which of its events is handled
          row,         \* the row that event was found to be about, or 0
          rows,        \* GameEvent with its participants, by id
          prizes,      \* _reward_event_exp: the rows it will pay for
          exp,         \* grants a racer received
          deaths,
          standings    \* ghost: the places at the end of each race

raceVars == <<race, place, wire, batch, turn, row, rows, prizes, exp, deaths, standings>>

RaceInit ==
  /\ race = [number |-> 0, state |-> Finished] /\ place = [r \in Racer |-> 0]
  /\ wire = <<>> /\ batch = <<>> /\ turn = 0 /\ row = 0
  /\ rows = <<>> /\ prizes = <<>> /\ exp = [r \in Racer |-> 0]
  /\ deaths = 0 /\ standings = <<>>

backend == <<batch, turn, row, rows, prizes, exp, deaths>>

-----------------------------------------------------------------------------
(* The game.                                                               *)
Time(number, section) == IF section = 0 THEN NoTime ELSE <<number, section>>

(* The players as the Event of a webhook event shows them.                 *)
Board(number, places) ==
  [r \in Racer |-> [section |-> places[r], time |-> Time(number, places[r]),
                    finished |-> places[r] = Goal]]

Shown(hook) ==
  wire' = Append(wire, [hook |-> hook, who |-> Owner, race |-> race'.number,
                        state |-> race'.state, board |-> Board(race'.number, place')])

(* ServerAddEvent announces the first race, ServerChangeEventState others. *)
SetUp ==
  /\ race.state = Finished /\ race.number < Races
  /\ race' = [number |-> race.number + 1, state |-> Ready]
  /\ place' = [r \in Racer |-> 0]
  /\ Shown(IF race.number = 0 THEN "add" ELSE "change")
  /\ UNCHANGED <<backend, standings>>

Start ==
  /\ race.number > 0 /\ race.state = Ready
  /\ race' = [race EXCEPT !.state = Running]
  /\ UNCHANGED place
  /\ Shown("change")
  /\ UNCHANGED <<backend, standings>>

PassSection(r) ==
  /\ race.state = Running /\ place[r] < Goal
  /\ place' = [place EXCEPT ![r] = @ + 1]
  /\ wire' = Append(wire, [hook |-> "pass", who |-> r, race |-> race.number,
                           section |-> place'[r], time |-> Time(race.number, place'[r])])
  /\ UNCHANGED <<race, backend, standings>>

EndRace ==
  /\ race.state = Running
  /\ race' = [race EXCEPT !.state = Finished]
  /\ UNCHANGED place
  /\ Shown("change")
  /\ standings' = Append(standings, place)
  /\ UNCHANGED backend

-----------------------------------------------------------------------------
(* process_events: the batch sorted by character and hook, in their order  *)
(* where both are the same.                                                *)
Key(e) == 3 * e.who + (CASE e.hook = "add"    -> 0
                         [] e.hook = "change" -> 1
                         [] e.hook = "pass"   -> 2)

Ahead(events, i, j) ==
  Key(events[i]) < Key(events[j]) \/ (Key(events[i]) = Key(events[j]) /\ i < j)

PlaceOf(events, i) == Cardinality({j \in DOMAIN events : Ahead(events, j, i)}) + 1

Sorted(events) ==
  [n \in DOMAIN events |-> events[CHOOSE i \in DOMAIN events : PlaceOf(events, i) = n]]

FetchBatch ==
  /\ batch = <<>> /\ wire # <<>>
  /\ batch' = Sorted(wire) /\ turn' = 1
  /\ wire' = <<>>
  /\ UNCHANGED <<race, place, row, rows, prizes, exp, deaths, standings>>

NextEvent ==
  /\ row' = 0
  /\ IF turn = Len(batch) THEN batch' = <<>> /\ turn' = 0
     ELSE turn' = turn + 1 /\ UNCHANGED batch

Handling(hooks) == batch # <<>> /\ batch[turn].hook \in hooks

NoEntry == [joined |-> FALSE, section |-> 0, time |-> NoTime, finished |-> FALSE]

LatestRow(state) ==   \* planted mistake: a race that is over is found again
  IF rows = <<>> THEN 0 ELSE Len(rows)

(* The latest row whose state is not beyond the event's.                   *)
RowFor(state) ==
  LET open == {i \in DOMAIN rows : rows[i].state <= state}
  IN  IF open = {} THEN 0 ELSE Max(open)

(* _upsert_game_event, with the reward that a transition to the end starts *)
(* at the end of the handler (handle_change_event_state); a batch that     *)
(* dies before that starts none.                                           *)
UpsertEvent ==
  LET state == batch[turn].state
      found == RowFor(state)
  IN
  /\ Handling({"add", "change"}) /\ row = 0
  /\ IF found = 0
     THEN /\ rows' = Append(rows, [state |-> state, moved |-> FALSE,
                                   entry |-> [r \in Racer |-> NoEntry]])
          /\ row' = Len(rows) + 1
     ELSE /\ rows' = [rows EXCEPT ![found].state = state,
                                  ![found].moved = rows[found].state # state]
          /\ row' = found
  /\ UNCHANGED <<race, place, wire, batch, turn, prizes, exp, deaths, standings>>

(* _upsert_game_event_character: who has finished is left alone.           *)
UpsertEntry(entry, shown) ==
  IF entry.finished THEN entry
  ELSE [joined |-> TRUE, section |-> shown.section, time |-> shown.time,
        finished |-> shown.finished]

UpsertEntries ==
  /\ Handling({"add", "change"}) /\ row # 0
  /\ rows' = [rows EXCEPT ![row].entry =
                [r \in Racer |-> UpsertEntry(@[r], batch[turn].board[r])]]
  /\ prizes' = IF batch[turn].hook = "change" /\ rows[row].moved /\ rows[row].state = Finished
               THEN Append(prizes, row) ELSE prizes
  /\ NextEvent
  /\ UNCHANGED <<race, place, wire, exp, deaths, standings>>

(* handle_passed_race_section: the oldest row of the guid, and it does not *)
(* ask whether the racer has finished.                                     *)
RecordSection ==
  /\ Handling({"pass"})
  /\ LET e == batch[turn] IN
     IF rows # <<>> /\ rows[1].entry[e.who].joined
     THEN rows' = [rows EXCEPT ![1].entry[e.who].section = e.section,
                               ![1].entry[e.who].time = e.time]
     ELSE UNCHANGED rows
  /\ NextEvent
  /\ UNCHANGED <<race, place, wire, prizes, exp, deaths, standings>>

(* _reward_event_exp, ten seconds later; a grant that fails is logged.     *)
GrantExp ==
  /\ prizes # <<>>
  /\ \E paid \in SUBSET {r \in Racer : rows[Head(prizes)].entry[r].joined} :
       exp' = [r \in Racer |-> IF r \in paid THEN exp[r] + 1 ELSE exp[r]]
  /\ prizes' = Tail(prizes)
  /\ UNCHANGED <<race, place, wire, batch, turn, row, rows, deaths, standings>>

(* The batch dies with the worker, and the rewards that wait with it.  The *)
(* mod server sends its events again, or has forgotten them.               *)
BatchDies ==
  /\ batch # <<>> /\ deaths < Deaths
  /\ deaths' = deaths + 1
  /\ \/ wire' = batch \o wire
     \/ UNCHANGED wire
  /\ batch' = <<>> /\ turn' = 0 /\ row' = 0 /\ prizes' = <<>>
  /\ UNCHANGED <<race, place, rows, exp, standings>>

RaceNext ==
  \/ SetUp \/ Start \/ EndRace \/ \E r \in Racer : PassSection(r)
  \/ FetchBatch \/ UpsertEvent \/ UpsertEntries \/ RecordSection
  \/ GrantExp \/ BatchDies

RaceSpec == RaceInit /\ [][RaceNext]_raceVars

-----------------------------------------------------------------------------
Kept(i) ==
  /\ rows[i].state = Finished
  /\ \A r \in Racer :
       LET e == rows[i].entry[r] IN
       /\ e.finished = (standings[i][r] = Goal)
       /\ e.section = standings[i][r] /\ e.time = Time(i, standings[i][r])

(* When all events are handled and no batch died, each race that ended has *)
(* a row of its own with the places and times of its end, whatever the     *)
(* sorting did to the order - except that the first race loses its times   *)
(* to those that follow it under the same guid - and a death of the worker *)
(* repeats the reward of a race once at most.                              *)
RacesAreKept ==
  /\ deaths = 0 /\ wire = <<>> /\ batch = <<>> =>
       /\ Len(rows) = race.number
       /\ \A i \in DOMAIN standings : i > 1 \/ race.number = 1 => Kept(i)
  /\ \A r \in Racer : exp[r] <= Len(standings) * (1 + deaths)
=============================================================================
