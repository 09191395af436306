------------------------------ MODULE Justice -------------------------------
(***************************************************************************)
(* Wanted status, criminal records, arrests and jail: criminals.py,        *)
(* special_cargo.py, commands/faction.py, the handlers that lead to an     *)
(* arrest, and the jail perimeter of locations.py.                         *)
(*                                                                         *)
(* Coroutines of the worker: the one-second tick, which cron starts again  *)
(* while the last one still runs; the webhook handlers; the commands and   *)
(* log lines; the location monitor; the decay of the records.  Each await  *)
(* is a point where the others run.  execute_arrest is a subroutine of     *)
(* four of them: a coroutine waits at its call while its frame is active.  *)
(***************************************************************************)
EXTENDS Integers, Sequences, FiniteSets

CONSTANTS Character,
          Nobody,      \* no character
          Tick,        \* ticks of the countdown that may overlap
          Initial,     \* Wanted.INITIAL_WANTED_LEVEL, in steps of the decay
          Heat,        \* _calculate_logout_heat, in the same steps
          Payments,    \* payments of a delivery of illicit cargo
          Running,     \* which of the two background passes run
          Overlap,     \* bound: arrests in progress at once
          Limit        \* bound: how often each kind of event happens

Bounded == {"crime", "setwanted", "logout", "teleport", "stray", "crash"}

ASSUME JusticeAssumption ==
  /\ Nobody \notin Character
  /\ Initial \in Nat /\ Initial > 1
  /\ Heat \in Nat
  /\ Payments \subseteq Nat \ {0}
  /\ Running \subseteq {"monitor", "decay"}
  /\ Overlap \in Nat
  /\ Limit \in [Bounded -> Nat]
  /\ {"hook", "log", "loc"} \cap Tick = {}

(* The escape floor: above zero, and no decay away from the police leaves  *)
(* more than zero below it.                                                *)
EscapeFloor == 1

Arrester == Tick \cup {"hook", "log", "loc"}

VARIABLES wanted,    \* Wanted rows: who, left = wanted_remaining, active
          record,    \* CriminalRecord rows: who, amount, conf, active
          jailed,    \* Character.jailed_until: "no", "serving", "over"
          moved,     \* ServerTeleportCharacter events not handled yet
          tick,      \* the countdown ticks
          arrest,    \* the frame of execute_arrest in each arrester
          hook,      \* the webhook handler
          log,       \* the command or log line
          loc,       \* the location batch
          decay      \* the record decay: record -> confiscatable_amount read

VARIABLES spent,     \* how much of each bound is used up
          owed       \* ghost: decays a row must still see before it may expire

rows == <<wanted, record>>
vars == <<wanted, record, jailed, moved, tick, arrest, hook, log, loc, decay,
          spent, owed>>

WantedRow == [who : Character, left : Nat, active : BOOLEAN]
RecordRow == [who : Character, amount : Nat, conf : Nat, active : BOOLEAN]

NoTick  == [at |-> "idle", snap |-> <<>>, todo |-> {}]
NoFrame == [at |-> "none", who |-> Nobody, rec |-> 0, amt |-> 0, upto |-> 0]
NoHook  == [at |-> "idle", who |-> Nobody, pay |-> 0, row |-> 0]
NoLog   == [at |-> "idle", who |-> Nobody, row |-> 0, left |-> 0]
NoLoc   == [at |-> "idle", mem |-> <<>>, todo |-> {}]

ActiveRows(c)    == {i \in DOMAIN wanted : wanted[i].who = c /\ wanted[i].active}
ActiveRecords(c) == {r \in DOMAIN record : record[r].who = c /\ record[r].active}
Pursued          == {i \in DOMAIN wanted : wanted[i].active /\ wanted[i].left > 0}

First(S)       == IF S = {} THEN 0 ELSE CHOOSE i \in S : \A j \in S : i <= j
Least(x, y)    == IF x <= y THEN x ELSE y
Greatest(x, y) == IF x >= y THEN x ELSE y

Init ==
  /\ wanted = <<>> /\ record = <<>>
  /\ jailed = [c \in Character |-> "no"]
  /\ moved = {}
  /\ tick = [t \in Tick |-> NoTick]
  /\ arrest = [t \in Arrester |-> NoFrame]
  /\ hook = NoHook /\ log = NoLog /\ loc = NoLoc /\ decay = <<>>
  /\ spent = [k \in Bounded |-> 0]
  /\ owed = <<>>

Spend(k) == spent[k] < Limit[k] /\ spent' = [spent EXCEPT ![k] = @ + 1]

-----------------------------------------------------------------------------
(* create_or_refresh_wanted: the check, and after an await the write.      *)

(* Some coroutine has read wanted_remaining of the row and will write it.   *)
Held(i) == \/ \E t \in Tick : i \in DOMAIN tick[t].snap
           \/ log.at = "logout" /\ log.row = i

ReopenWanted(i) ==   \* planted mistake: the refresh clears expired_at too
  /\ wanted' = [wanted EXCEPT ![i].left = Initial, ![i].active = TRUE]
  /\ owed' = [owed EXCEPT ![i] = IF Held(i) THEN 0 ELSE Initial]

(* A refresh writes wanted_remaining of the row that was found, whatever   *)
(* has become of it since.  What a coroutine holds of it will undo that.   *)
RefreshWanted(i) ==
  /\ wanted' = [wanted EXCEPT ![i].left = Initial]
  /\ owed' = [owed EXCEPT ![i] = IF Held(i) THEN 0 ELSE Initial]

(* Nothing in the schema keeps a second active row out.                    *)
CreateWanted(c) ==
  /\ wanted' = Append(wanted, [who |-> c, left |-> Initial, active |-> TRUE])
  /\ owed' = Append(owed, Initial)

SaveWanted(c, i) == IF i = 0 THEN CreateWanted(c) ELSE RefreshWanted(i)

(* ensure_criminal_record: a constraint keeps the active record unique.    *)
EnsureRecord(c) ==
  record' = IF ActiveRecords(c) # {} THEN record
            ELSE Append(record, [who |-> c, amount |-> 0, conf |-> 0,
                                 active |-> TRUE])

-----------------------------------------------------------------------------
(* execute_arrest, in the frame of arrester t.                             *)

Frame(t, f) == arrest' = [arrest EXCEPT ![t] = f]
Busy        == {t \in Arrester : arrest[t].at # "none"}

Call(t, c) ==
  /\ Cardinality(Busy) < Overlap
  /\ Frame(t, [NoFrame EXCEPT !.at = "expire", !.who = c])

(* Back to the caller; a tick and a location batch go on with their loops. *)
Return(t) ==
  /\ Frame(t, NoFrame)
  /\ hook' = IF t = "hook" THEN NoHook ELSE hook
  /\ log' = IF t = "log" THEN NoLog ELSE log

(* An exception: every caller logs it or lets its event fail, and only the *)
(* logout goes on, with the heat.                                          *)
Raise(t) ==
  IF t = "log" THEN /\ Frame(t, [arrest[t] EXCEPT !.at = "failed"])
                    /\ UNCHANGED <<hook, log>>
               ELSE Return(t)

UndatedExpired(i) ==   \* planted mistake: expired_at is not among the fields saved
  [wanted[i] EXCEPT !.left = 0]

Expired(i) == [wanted[i] EXCEPT !.left = 0, !.active = FALSE]

LenientExpireWanted(t) ==   \* planted mistake: "Wanted record is left active"
  /\ arrest[t].at = "expire"
  /\ Frame(t, [arrest[t] EXCEPT !.at = "record", !.upto = Len(wanted)])
  /\ UNCHANGED <<rows, jailed, moved, tick, hook, log, loc, decay, spent, owed>>

(* The Wanted row is expired before anything else, if the jail can be      *)
(* looked up: without one that is configured the arrest raises, as it does *)
(* when the character has two rows.                                        *)
ExpireWanted(t) ==
  /\ arrest[t].at = "expire"
  /\ LET found == ActiveRows(arrest[t].who)
     IN \/ Raise(t) /\ UNCHANGED wanted
        \/ /\ Cardinality(found) <= 1
           /\ wanted' = [i \in DOMAIN wanted |->
                           IF i \in found THEN Expired(i) ELSE wanted[i]]
           /\ Frame(t, [arrest[t] EXCEPT !.at = "record", !.upto = Len(wanted)])
           /\ UNCHANGED <<hook, log>>
  /\ UNCHANGED <<record, jailed, moved, tick, loc, decay, spent, owed>>

ReadRecord(t) ==
  /\ arrest[t].at = "record"
  /\ LET r == First(ActiveRecords(arrest[t].who))
     IN Frame(t, [arrest[t] EXCEPT !.at = "close", !.rec = r,
                    !.amt = IF r = 0 THEN 0 ELSE record[r].conf])
  /\ UNCHANGED <<rows, jailed, moved, tick, hook, log, loc, decay, spent, owed>>

(* The Confiscation row, the record closed by it, and the wallet charged   *)
(* (in Treasury), which may raise.                                         *)
CloseRecord(t) ==
  /\ arrest[t].at = "close"
  /\ LET r == arrest[t].rec
     IN record' = IF r = 0 THEN record
                  ELSE [record EXCEPT ![r].active = FALSE]
  /\ \/ /\ Frame(t, [arrest[t] EXCEPT !.at = "teleport"])
        /\ UNCHANGED <<hook, log>>
     \/ arrest[t].amt > 0 /\ Raise(t)
  /\ UNCHANGED <<wanted, jailed, moved, tick, loc, decay, spent, owed>>

(* The mod server moves the character and reports it as a teleport.  When  *)
(* it cannot, the loop goes on without the sentence.                       *)
Teleport(t) ==
  /\ arrest[t].at = "teleport"
  /\ \/ /\ moved' = moved \cup {[who |-> arrest[t].who, upto |-> arrest[t].upto]}
        /\ Frame(t, [arrest[t] EXCEPT !.at = "jail"])
        /\ UNCHANGED <<hook, log>>
     \/ Return(t) /\ UNCHANGED moved
  /\ UNCHANGED <<rows, jailed, tick, loc, decay, spent, owed>>

(* jailed_until = now + 60 s.  A location batch that arrests does it on    *)
(* the Character object it writes again at its end.                        *)
Jail(t) ==
  /\ arrest[t].at = "jail"
  /\ jailed' = [jailed EXCEPT ![arrest[t].who] = "serving"]
  /\ loc' = IF t = "loc" THEN [loc EXCEPT !.mem[arrest[t].who] = "serving"]
            ELSE loc
  /\ Return(t)
  /\ UNCHANGED <<rows, moved, tick, decay, spent, owed>>

ArrestStep(t) == \/ ExpireWanted(t) \/ ReadRecord(t) \/ CloseRecord(t)
                 \/ Teleport(t) \/ Jail(t)

-----------------------------------------------------------------------------
(* tick_wanted_countdown.                                                  *)

TickRead(t) ==
  /\ tick[t].at = "idle" /\ Pursued # {}
  /\ tick' = [tick EXCEPT ![t] =
                [at |-> "walk", snap |-> [i \in Pursued |-> wanted[i].left],
                 todo |-> Pursued]]
  /\ UNCHANGED <<rows, jailed, moved, arrest, hook, log, loc, decay, spent, owed>>

(* Under water or in a modded vehicle: a system arrest, inside the loop,   *)
(* and no decay.                                                           *)
TickCaught(t, i) ==
  /\ tick[t].at = "walk" /\ arrest[t].at = "none" /\ i \in tick[t].todo
  /\ tick' = [tick EXCEPT ![t].todo = @ \ {i}]
  /\ Call(t, wanted[i].who)
  /\ UNCHANGED <<rows, jailed, moved, hook, log, loc, decay, spent, owed>>

HastyLeft(t, i, slow, near) ==   \* planted mistake: two steps of decay in one
  IF i \notin tick[t].todo \/ i \in slow THEN tick[t].snap[i]
  ELSE Greatest(IF i \in near THEN EscapeFloor ELSE 0, tick[t].snap[i] - 2)


(* What is left after the tick: slow rows are those of offline suspects,   *)
(* or of some so near an officer that a step of the decay takes longer;    *)
(* near ones are clamped at the floor.                                     *)
Left(t, i, slow, near) ==
  IF i \notin tick[t].todo \/ i \in slow THEN tick[t].snap[i]
  ELSE IF i \in near THEN Greatest(EscapeFloor, tick[t].snap[i] - 1)
  ELSE Greatest(0, tick[t].snap[i] - 1)

(* abulk_update of the whole list, then the rows that reached zero.  What  *)
(* the loop computes for the rows touches nobody else before this.         *)
TickWrite(t, slow, near) ==
  /\ tick[t].at = "walk" /\ arrest[t].at = "none"
  /\ LET snap == tick[t].snap
         left == [i \in DOMAIN snap |-> Left(t, i, slow, near)]
     IN /\ wanted' = [i \in DOMAIN wanted |->
                        IF i \in DOMAIN snap
                        THEN [wanted[i] EXCEPT !.left = left[i]] ELSE wanted[i]]
        /\ tick' = [tick EXCEPT ![t] =
             IF \E i \in DOMAIN snap : left[i] = 0
             THEN [at |-> "expire", snap |-> left, todo |-> {}] ELSE NoTick]
        /\ owed' = [i \in DOMAIN owed |->
                      IF i \in DOMAIN snap /\ left[i] < snap[i]
                      THEN Greatest(0, owed[i] - 1) ELSE owed[i]]
  /\ UNCHANGED <<record, jailed, moved, arrest, hook, log, loc, decay, spent>>

Gone(t) == {i \in DOMAIN tick[t].snap : tick[t].snap[i] = 0}

TickExpire(t) ==
  /\ tick[t].at = "expire"
  /\ wanted' = [i \in DOMAIN wanted |->
                  IF i \in Gone(t) THEN Expired(i) ELSE wanted[i]]
  /\ tick' = [tick EXCEPT ![t] = NoTick]
  /\ UNCHANGED <<record, jailed, moved, arrest, hook, log, loc, decay, spent,
                 owed>>

TickStep(t) ==
  \/ TickRead(t) \/ TickExpire(t)
  \/ \E i \in tick[t].todo : TickCaught(t, i)
  \/ \E slow \in SUBSET tick[t].todo : \E near \in SUBSET tick[t].todo : TickWrite(t, slow, near)

-----------------------------------------------------------------------------
(* The webhook handlers, one event after the other.                        *)

(* Illicit cargo delivered: the record, and in the next steps the amounts  *)
(* on it and the wanted status.                                            *)
Deliver(c, p) ==
  /\ hook.at = "idle" /\ Spend("crime")
  /\ EnsureRecord(c)
  /\ hook' = [at |-> "accumulate", who |-> c, pay |-> p, row |-> 0]
  /\ UNCHANGED <<wanted, jailed, moved, tick, arrest, log, loc, decay, owed>>

UnauditedAccumulate ==   \* planted mistake: the audit total is not raised
  /\ hook.at = "accumulate"
  /\ record' = [r \in DOMAIN record |->
                  IF r \in ActiveRecords(hook.who)
                  THEN [record[r] EXCEPT !.conf = @ + hook.pay] ELSE record[r]]
  /\ hook' = NoHook
  /\ UNCHANGED <<wanted, jailed, moved, tick, arrest, log, loc, decay, spent,
                 owed>>

(* An update of the active record, if there still is one.  With a modded   *)
(* vehicle no wanted status follows.                                       *)
Accumulate ==
  /\ hook.at = "accumulate"
  /\ record' = [r \in DOMAIN record |->
                  IF r \in ActiveRecords(hook.who)
                  THEN [record[r] EXCEPT !.amount = @ + hook.pay,
                                         !.conf = @ + hook.pay]
                  ELSE record[r]]
  /\ \/ hook' = [hook EXCEPT !.at = "wanted"]
     \/ hook' = NoHook
  /\ UNCHANGED <<wanted, jailed, moved, tick, arrest, log, loc, decay, spent,
                 owed>>

(* Always for a character already wanted, else by should_trigger_wanted.   *)
TriggerWanted ==
  /\ hook.at = "wanted"
  /\ LET i == First(ActiveRows(hook.who))
     IN \/ hook' = [hook EXCEPT !.at = "save", !.row = i]
        \/ i = 0 /\ hook' = NoHook
  /\ UNCHANGED <<rows, jailed, moved, tick, arrest, log, loc, decay, spent, owed>>

SaveCrime ==
  /\ hook.at = "save"
  /\ SaveWanted(hook.who, hook.row) /\ hook' = NoHook
  /\ UNCHANGED <<record, jailed, moved, tick, arrest, log, loc, decay, spent>>

(* Illicit cargo loaded, or a suspect's costume put on.                    *)
Incriminate(c) ==
  /\ hook.at = "idle" /\ ActiveRecords(c) = {} /\ Spend("crime")
  /\ EnsureRecord(c)
  /\ UNCHANGED <<wanted, jailed, moved, tick, arrest, hook, log, loc, decay,
                 owed>>

HookArrest(c) ==
  /\ Call("hook", c) /\ hook' = [NoHook EXCEPT !.at = "arrest", !.who = c]
  /\ UNCHANGED <<rows, jailed, tick, log, loc, decay, owed>>

(* handle_police_penalty by an officer on duty.                            *)
PullOver(c) ==
  /\ hook.at = "idle" /\ ActiveRecords(c) # {}
  /\ HookArrest(c) /\ UNCHANGED <<moved, spent>>

(* _handle_teleport_or_respawn: aget raises when there are two rows, and   *)
(* the event fails; an officer is left alone.                              *)
Chased(c) == {i \in ActiveRows(c) : i \in Pursued}

(* The event of a teleport by the mod server.                              *)
TeleportEvent(e) ==
  /\ hook.at = "idle" /\ e \in moved /\ moved' = moved \ {e}
  /\ \/ Cardinality(Chased(e.who)) = 1 /\ HookArrest(e.who)
     \/ UNCHANGED <<rows, jailed, tick, arrest, hook, log, loc, decay, owed>>
  /\ UNCHANGED spent

(* A teleport or respawn of the player's own.                              *)
OwnTeleport(c) ==
  /\ hook.at = "idle" /\ Spend("teleport")
  /\ Cardinality(Chased(c)) = 1 /\ HookArrest(c)
  /\ UNCHANGED moved

HookStep == Accumulate \/ TriggerWanted \/ SaveCrime

-----------------------------------------------------------------------------
(* Commands and log lines.                                                 *)

(* /setwanted: the guard, then awaits until create_or_refresh_wanted.      *)
SetWanted(c) ==
  /\ log.at = "idle" /\ Spend("setwanted") /\ ActiveRows(c) = {}
  /\ log' = [NoLog EXCEPT !.at = "lookup", !.who = c]
  /\ UNCHANGED <<rows, jailed, moved, tick, arrest, hook, loc, decay, owed>>

LookupWanted ==
  /\ log.at = "lookup"
  /\ log' = [log EXCEPT !.at = "save", !.row = First(ActiveRows(log.who))]
  /\ UNCHANGED <<rows, jailed, moved, tick, arrest, hook, loc, decay, spent, owed>>

SaveSetWanted ==
  /\ log.at = "save"
  /\ SaveWanted(log.who, log.row) /\ log' = NoLog
  /\ UNCHANGED <<record, jailed, moved, tick, arrest, hook, loc, decay, spent>>

(* escalate_heat_on_logout within range of an officer: an arrest, or none  *)
(* when the handler has no client of the mod server.                       *)
Logout(c) ==
  /\ log.at = "idle" /\ Spend("logout") /\ Chased(c) # {}
  /\ LET i == First(Chased(c))
     IN log' = [at |-> "logout", who |-> c, row |-> i, left |-> wanted[i].left]
  /\ \/ Call("log", c)
     \/ Frame("log", [NoFrame EXCEPT !.at = "failed", !.who = c])
  /\ UNCHANGED <<rows, jailed, moved, tick, hook, loc, decay, owed>>

(* No arrest: the heat is added to what was read before it was tried, on a *)
(* row that may be active still.                                           *)
LogoutHeat ==
  /\ log.at = "logout" /\ arrest["log"].at = "failed"
  /\ wanted' = [wanted EXCEPT ![log.row].left =
                  Least(5 * Initial, log.left + Heat)]
  /\ Frame("log", NoFrame) /\ log' = NoLog
  /\ UNCHANGED <<record, jailed, moved, tick, hook, loc, decay, spent, owed>>

LogStep == LookupWanted \/ SaveSetWanted \/ LogoutHeat

-----------------------------------------------------------------------------
(* The location monitor: _process_location_batch.                          *)

LocRead ==
  /\ "monitor" \in Running /\ loc.at = "idle"
  /\ loc' = [at |-> "walk", mem |-> jailed, todo |-> Character]
  /\ UNCHANGED <<rows, jailed, moved, tick, arrest, hook, log, decay, spent, owed>>

KeptSentence(m) == m   \* planted mistake: nothing clears jailed_until

(* _check_jail_boundary: a sentence that is over is dropped, on the object *)
(* that was read.                                                          *)
Release(m) == IF m = "over" THEN "no" ELSE m

(* A prisoner who strayed is teleported back, and that is reported too;    *)
(* then the portals: a wanted character who enters one is arrested.        *)
LocCheck(c) ==
  /\ loc.at = "walk" /\ arrest["loc"].at = "none" /\ c \in loc.todo
  /\ loc' = [loc EXCEPT !.todo = @ \ {c}, !.mem[c] = Release(@)]
  /\ \/ UNCHANGED <<moved, spent>>
     \/ /\ loc.mem[c] = "serving" /\ Spend("stray")
        /\ moved' = moved \cup {[who |-> c, upto |-> 0]}
  /\ \/ UNCHANGED arrest
     \/ Chased(c) # {} /\ Call("loc", c)
  /\ UNCHANGED <<rows, jailed, tick, hook, log, decay, owed>>

(* abulk_update writes jailed_until of every character of the batch.       *)
LocWrite ==
  /\ loc.at = "walk" /\ arrest["loc"].at = "none" /\ loc.todo = {}
  /\ jailed' = loc.mem /\ loc' = NoLoc
  /\ UNCHANGED <<rows, moved, tick, arrest, hook, log, decay, spent, owed>>

LocStep == LocRead \/ (\E c \in Character : LocCheck(c)) \/ LocWrite

-----------------------------------------------------------------------------
(* tick_criminal_record_decay: read, ask the mod server, write.            *)

DecayRead ==
  /\ "decay" \in Running /\ decay = <<>>
  /\ \E S \in SUBSET {r \in DOMAIN record : record[r].active /\ record[r].conf > 0} :
       S # {} /\ decay' = [r \in S |-> record[r].conf]
  /\ UNCHANGED <<rows, jailed, moved, tick, arrest, hook, log, loc, spent, owed>>

DoublyDecayed(x) == x - 2   \* planted mistake: a decay below zero

(* int() of the product makes every decay a loss of at least one.          *)
Decayed(x) == x - 1

DecayWrite ==
  /\ decay # <<>> /\ decay' = <<>>
  /\ record' = [r \in DOMAIN record |->
                  IF r \in DOMAIN decay
                  THEN [record[r] EXCEPT !.conf = Decayed(decay[r])]
                  ELSE record[r]]
  /\ UNCHANGED <<wanted, jailed, moved, tick, arrest, hook, log, loc, spent, owed>>

-----------------------------------------------------------------------------
(* The sixty seconds of a sentence pass, also for the copies of it.        *)
SentenceOver(c) ==
  /\ jailed[c] = "serving"
  /\ jailed' = [jailed EXCEPT ![c] = "over"]
  /\ loc' = IF loc.at = "walk" /\ loc.mem[c] = "serving"
            THEN [loc EXCEPT !.mem[c] = "over"] ELSE loc
  /\ UNCHANGED <<rows, moved, tick, arrest, hook, log, decay, spent, owed>>

(* The worker restarts: the coroutines are gone, the tables stay.          *)
Crash ==
  /\ Spend("crash")
  /\ tick' = [t \in Tick |-> NoTick]
  /\ arrest' = [t \in Arrester |-> NoFrame]
  /\ hook' = NoHook /\ log' = NoLog /\ loc' = NoLoc /\ decay' = <<>>
  /\ UNCHANGED <<rows, jailed, moved, owed>>

Next ==
  \/ \E t \in Tick : TickStep(t)
  \/ \E t \in Arrester : ArrestStep(t)
  \/ \E c \in Character : \/ \E p \in Payments : Deliver(c, p)
                          \/ Incriminate(c) \/ PullOver(c) \/ OwnTeleport(c)
                          \/ SetWanted(c) \/ Logout(c) \/ SentenceOver(c)
  \/ \E e \in moved : TeleportEvent(e)
  \/ HookStep \/ LogStep \/ LocStep \/ DecayRead \/ DecayWrite
  \/ Crash

Spec == Init /\ [][Next]_vars

(* The event loop runs every coroutine that can go on, cron starts the     *)
(* ticks, time passes, and the batches go on while the players are online. *)
FairSpec ==
  /\ Spec
  /\ \A t \in Tick : WF_vars(TickStep(t))
  /\ \A t \in Arrester : WF_vars(ArrestStep(t))
  /\ WF_vars(HookStep) /\ WF_vars(LogStep) /\ WF_vars(LocStep)
  /\ \A c \in Character : WF_vars(SentenceOver(c))

-----------------------------------------------------------------------------
FrameType == [at : {"none", "expire", "record", "close", "teleport", "jail",
                    "failed"},
              who : Character \cup {Nobody}, rec : Nat, amt : Nat, upto : Nat]

TickOK(k) == /\ k.at \in {"idle", "walk", "expire"}
             /\ DOMAIN k.snap \subseteq DOMAIN wanted
             /\ \A i \in DOMAIN k.snap : k.snap[i] \in Nat
             /\ k.todo \subseteq DOMAIN k.snap

(* The tables, the coroutines and what they hold have the shape the code   *)
(* gives them; what a coroutine holds refers to rows that exist.           *)
TypeOK ==
  /\ wanted \in Seq(WantedRow) /\ record \in Seq(RecordRow)
  /\ jailed \in [Character -> {"no", "serving", "over"}]
  /\ \A e \in moved : e.who \in Character /\ e.upto \in Nat
  /\ \A t \in Tick : TickOK(tick[t])
  /\ arrest \in [Arrester -> FrameType]
  /\ \A t \in Arrester : arrest[t].at # "none" => arrest[t].who \in Character
  /\ \A t \in Arrester : arrest[t].rec \in DOMAIN record \cup {0}
  /\ hook.at \in {"idle", "accumulate", "wanted", "save", "arrest"}
  /\ log.at \in {"idle", "lookup", "save", "logout"}
  /\ {hook.row, log.row} \subseteq DOMAIN wanted \cup {0}
  /\ loc.at = "walk" => loc.mem \in [Character -> {"no", "serving", "over"}]
  /\ DOMAIN decay \subseteq DOMAIN record
  /\ owed \in Seq(0 .. Initial) /\ Len(owed) = Len(wanted)

(* An active row at zero is one that a tick is about to expire: the ticks  *)
(* read no such row again, so any other would keep its character wanted    *)
(* for ever (criminals.py:322-327, 516-529).  Only a stop of the worker    *)
(* between the two writes of a tick leaves one.                            *)
ZeroIsBeingExpired ==
  spent["crash"] = 0 =>
    \A i \in DOMAIN wanted : wanted[i].active /\ wanted[i].left = 0 =>
      \E t \in Tick : tick[t].at = "expire" /\ i \in Gone(t)

(* However ticks, refreshes and arrests overlap, and by the proof also the *)
(* heat of a logout, no countdown comes to its end before all its decays,  *)
(* unless a coroutine held the row while a crime refreshed it and wrote    *)
(* back what it held (criminals.py:516).                                   *)
ServedInFull ==
  \A t \in Tick : tick[t].at = "expire" =>
    \A i \in Gone(t) : wanted[i].active => owed[i] = 0

(* "The amount field is NEVER decayed - it is a permanent audit trail"     *)
(* (criminals.py:880): no arrest takes more than a record accumulated,     *)
(* although the decay writes back what it read before it asked the mod     *)
(* server and the arrest charges what it read before it closed the record. *)
ConfiscationCovered ==
  /\ \A r \in DOMAIN record : record[r].conf <= record[r].amount
  /\ \A t \in Arrester : arrest[t].rec # 0 =>
       arrest[t].amt <= record[arrest[t].rec].amount

(* "Otherwise the ServerTeleportCharacter event handler will see an active *)
(* Wanted and apply a second penalty" (faction.py:119-122): when the event *)
(* of an arrest's own teleport arrives, whatever ran in between, only a    *)
(* newer crime can be punished by it.  The arrest of a suspect who         *)
(* teleports is no other: that its "Wanted record is left active - police  *)
(* must still make a proper arrest" (handlers/teleport.py:154) is not so.  *)
Punished(c, n) == \A i \in 1 .. n : wanted[i].who = c => ~wanted[i].active

ArrestTeleportIsFree ==
  /\ \A e \in moved : Punished(e.who, e.upto)
  /\ \A t \in Arrester : arrest[t].at \in {"teleport", "jail"} =>
       /\ Punished(arrest[t].who, arrest[t].upto)
       /\ arrest[t].rec # 0 => ~record[arrest[t].rec].active

(* What is closed stays closed: no stale write reopens an expired wanted   *)
(* row or a cleared record or lowers the audit total, and no record is     *)
(* forgotten (models.py:377-426, 468-530).                                 *)
ClosedForGood ==
  [][/\ \A i \in DOMAIN wanted :
          wanted'[i].who = wanted[i].who /\ (wanted'[i].active => wanted[i].active)
     /\ \A r \in DOMAIN record :
          /\ record'[r].active => record[r].active
          /\ record'[r].amount >= record[r].amount]_vars

(* A suspect who stays online and away from the police is free in the end, *)
(* even with rows doubled by concurrent crimes and with ticks that write   *)
(* back stale values (criminals.py:301-318, 463-529).  That the status is   *)
(* "permanent until police physically chase the suspect", with "no         *)
(* automatic time-based countdown or expiry" (models.py:471-473), is not so.*)
Escaping ==
  <>[][\A t \in Tick : tick[t].at = "walk" /\ tick'[t] # tick[t] =>
         TickWrite(t, {}, {})]_vars


(* No one stays in jail for ever: the location batches drop a sentence     *)
(* that is over, whatever arrests write meanwhile (locations.py:147-167).  *)
JailEnds == \A c \in Character : jailed[c] = "serving" ~> jailed[c] = "no"

-----------------------------------------------------------------------------
(* What a comment says, and the program does not do: jailed_until is "set  *)
(* on arrest, cleared when current time >= jailed_until" (models.py:330).  *)
(* A location batch that read the character before the arrest clears it at *)
(* once (locations.py:352-361).                                            *)
JailHolds ==
  [][\A c \in Character : jailed[c] = "serving" => jailed'[c] # "no"]_vars
=============================================================================
