------------------------------ MODULE Suspects ------------------------------
(***************************************************************************)
(* The suspect flag that the mod server shows to the police: it follows    *)
(* the database by a refresh every 30 s, by pokes of the handlers that     *)
(* change a status, and by lapsing 60 s after it was last set.             *)
(*                                                                         *)
(* One character: the refresh goes through lists that it read first, so    *)
(* that anything may happen between reading and acting.  Wanted, which     *)
(* Justice is about, is reduced to whether the character is pursued.       *)
(***************************************************************************)
EXTENDS Naturals

CONSTANTS Lifetime,    \* of the flag, in refresh periods (60 s of 30 s)
          Events,      \* bound: changes of status
          Mishaps       \* bound: failed mod server calls and restarts

ASSUME SuspectsAssumption == Lifetime \in Nat \ {0, 1} /\ {Events, Mishaps} \subseteq Nat

Coroutine == {"refresh", "crime", "expiry", "dress", "arrest"}

VARIABLES online,      \* last_online within ONLINE_THRESHOLD_SECONDS
          wanted,      \* an active Wanted above zero
          record,      \* an active CriminalRecord
          costume,     \* Character.wearing_costume
          worn,        \* the game: a suspect costume is worn
          flag,        \* the game: refresh periods until the flag lapses
          tracked,     \* in _last_suspect_guids
          reconciled,  \* in _costume_reconciled_guids
          pc,          \* where each coroutine is
          sweep,       \* refresh_suspect_tags: in wanted_guids, costume_guids
          change       \* the equipment event: wearing_costume before and after

VARIABLES events, mishaps,
          since        \* ghost: refreshes begun, up to 2, since it is a suspect
                       \* and no status changed under a coroutine at work

status == <<online, wanted, record, costume>>
game   == <<worn, flag>>
memory == <<tracked, reconciled>>
local  == <<sweep, change>>
spent  == <<events, mishaps>>
suspectVars == <<status, game, memory, pc, local, spent, since>>

NoSweep   == [wanted |-> FALSE, costume |-> FALSE, seen |-> FALSE]
NoChange == [was |-> FALSE, is |-> FALSE]

SuspectInit ==
  /\ online = TRUE /\ wanted = FALSE /\ record = FALSE /\ costume = FALSE
  /\ worn = FALSE /\ flag = 0 /\ tracked = FALSE /\ reconciled = FALSE
  /\ pc = [k \in Coroutine |-> "idle"]
  /\ sweep = NoSweep /\ change = NoChange
  /\ events = 0 /\ mishaps = 0 /\ since = 0

Suspect == online /\ (wanted \/ (record /\ costume))

At(k, step)   == pc[k] = step
Goto(k, step) == pc' = [pc EXCEPT ![k] = step]
Event == events < Events /\ events' = events + 1 /\ UNCHANGED mishaps
Mishap == mishaps < Mishaps /\ mishaps' = mishaps + 1 /\ UNCHANGED events

(* A status is written: what other coroutines looked at may have changed.  *)
Wrote(k) ==
  since' = IF Suspect /\ Suspect' /\ \A j \in Coroutine \ {k} : At(j, "idle")
           THEN since ELSE 0
Unwritten == UNCHANGED <<status, since>>

Make  == flag' = Lifetime
Clear == flag' = 0

-----------------------------------------------------------------------------
(* What changes the wanted status.                                         *)

Leave ==
  /\ online /\ Event
  /\ online' = FALSE /\ Clear
  /\ UNCHANGED <<wanted, record, costume, worn, memory, pc, local>>
  /\ Wrote("none")

Return ==
  /\ ~online
  /\ online' = TRUE
  /\ UNCHANGED <<wanted, record, costume, game, memory, pc, local, spent>>
  /\ Wrote("none")

(* A delivery of illicit cargo opens a record, /setwanted does not.        *)
Crime ==
  /\ At("crime", "idle") /\ Event
  /\ wanted' = TRUE /\ record' \in {record, TRUE}
  /\ Goto("crime", "make")
  /\ UNCHANGED <<online, costume, game, memory, local>>
  /\ Wrote("crime")

CrimeMake ==
  /\ At("crime", "make")
  /\ Make /\ Goto("crime", "idle")
  /\ Unwritten /\ UNCHANGED <<worn, memory, local, spent>>

Expire ==
  /\ At("expiry", "idle") /\ wanted
  /\ wanted' = FALSE
  /\ Goto("expiry", "ask")
  /\ UNCHANGED <<online, record, costume, game, memory, local, spent>>
  /\ Wrote("expiry")

ClearAtOnce ==   \* planted mistake: an expiry clears the flag of a costume too
  /\ At("expiry", "ask")
  /\ Goto("expiry", "clear")
  /\ Unwritten /\ UNCHANGED <<game, memory, local, spent>>

(* Still in a costume with a record: the flag is set anew.                 *)
ExpiryAsk ==
  /\ At("expiry", "ask")
  /\ Goto("expiry", IF record /\ costume THEN "make" ELSE "clear")
  /\ Unwritten /\ UNCHANGED <<game, memory, local, spent>>

ExpiryAct ==
  /\ \/ At("expiry", "make") /\ Make /\ tracked' = TRUE
     \/ At("expiry", "clear") /\ Clear /\ tracked' = FALSE
  /\ Goto("expiry", "idle")
  /\ Unwritten /\ UNCHANGED <<worn, reconciled, local, spent>>

(* execute_arrest ends both statuses, the costume with the record.         *)
Arrest ==
  /\ At("arrest", "idle") /\ (wanted \/ record) /\ Event
  /\ wanted' = FALSE
  /\ Goto("arrest", "record")
  /\ UNCHANGED <<online, record, costume, game, memory, local>>
  /\ Wrote("arrest")

ArrestRecord ==
  /\ At("arrest", "record")
  /\ record' = FALSE
  /\ costume' = (costume /\ ~record)
  /\ Goto("arrest", "clear")
  /\ UNCHANGED <<online, wanted, game, memory, local, spent>>
  /\ Wrote("arrest")

ArrestClear ==
  /\ At("arrest", "clear")
  /\ Clear /\ Goto("arrest", "idle")
  /\ Unwritten /\ UNCHANGED <<worn, memory, local, spent>>

-----------------------------------------------------------------------------
(* handle_set_equipment_inventory.                                         *)

Wear ==
  /\ At("dress", "idle") /\ online /\ Event
  /\ worn' \in BOOLEAN
  /\ change' = [was |-> costume, is |-> worn']
  /\ Goto("dress", "save")
  /\ Unwritten /\ UNCHANGED <<flag, memory, sweep>>

DressSave ==
  /\ At("dress", "save")
  /\ costume' = change.is
  /\ Goto("dress", CASE change.is -> "record"
                     [] ~change.is /\ change.was -> "ask"
                     [] OTHER -> "idle")
  /\ UNCHANGED <<online, wanted, record, game, memory, local, spent>>
  /\ Wrote("dress")

DressRecord ==
  /\ At("dress", "record")
  /\ record' = TRUE
  /\ Goto("dress", "make")
  /\ UNCHANGED <<online, wanted, costume, game, memory, local, spent>>
  /\ Wrote("dress")

DressAsk ==
  /\ At("dress", "ask")
  /\ Goto("dress", IF wanted THEN "idle" ELSE "clear")
  /\ Unwritten /\ UNCHANGED <<game, memory, local, spent>>

DressAct ==
  /\ \/ At("dress", "make") /\ Make
     \/ At("dress", "clear") /\ Clear
  /\ Goto("dress", "idle")
  /\ Unwritten /\ UNCHANGED <<worn, memory, local, spent>>

-----------------------------------------------------------------------------
(* refresh_suspect_tags.                                                   *)

(* A period has gone by since the last refresh began.                      *)
RefreshBegin ==
  /\ At("refresh", "idle")
  /\ flag' = IF flag > 0 THEN flag - 1 ELSE 0
  /\ sweep' = [NoSweep EXCEPT !.wanted = online /\ wanted]
  /\ Goto("refresh", IF online /\ wanted THEN "make" ELSE "costume")
  /\ since' = IF Suspect /\ since < 2 /\ \A k \in Coroutine : At(k, "idle")
              THEN since + 1 ELSE since
  /\ UNCHANGED <<status, worn, memory, change, spent>>

RefreshMake ==
  /\ At("refresh", "make")
  /\ Make /\ Goto("refresh", "costume")
  /\ Unwritten /\ UNCHANGED <<worn, memory, local, spent>>

RefreshCostume ==
  /\ At("refresh", "costume")
  /\ LET found == online /\ record /\ costume IN
     /\ sweep' = [sweep EXCEPT !.costume = found]
     /\ Goto("refresh", IF found /\ ~sweep.wanted THEN "poke" ELSE "reconcile")
  /\ Unwritten /\ UNCHANGED <<game, memory, change, spent>>

RefreshPoke ==
  /\ At("refresh", "poke")
  /\ Make /\ Goto("refresh", "reconcile")
  /\ Unwritten /\ UNCHANGED <<worn, memory, local, spent>>

(* Once in the life of the process the game is asked what is worn.         *)
RefreshReconcile ==
  /\ At("refresh", "reconcile")
  /\ LET ask == online /\ record /\ ~reconciled IN
     /\ reconciled' = (reconciled \/ ask)
     /\ sweep' = [sweep EXCEPT !.seen = costume]
     /\ Goto("refresh", IF ask THEN "fetch" ELSE "out")
  /\ Unwritten /\ UNCHANGED <<game, tracked, change, spent>>

RefreshFetch ==
  /\ At("refresh", "fetch")
  /\ Goto("refresh", CASE worn = sweep.seen -> "out"
                       [] worn # sweep.seen /\ worn -> "saveOn"
                       [] OTHER -> "saveOff")
  /\ Unwritten /\ UNCHANGED <<game, memory, local, spent>>

RefreshSave ==
  /\ At("refresh", "saveOn") \/ At("refresh", "saveOff")
  /\ costume' = At("refresh", "saveOn")
  /\ Goto("refresh", IF At("refresh", "saveOn") /\ ~sweep.wanted /\ ~sweep.costume
                     THEN "found" ELSE "out")
  /\ UNCHANGED <<online, wanted, record, game, memory, local, spent>>
  /\ Wrote("refresh")

RefreshFound ==
  /\ At("refresh", "found")
  /\ Make /\ sweep' = [sweep EXCEPT !.costume = TRUE]
  /\ Goto("refresh", "out")
  /\ Unwritten /\ UNCHANGED <<worn, memory, change, spent>>

RefreshOut ==
  /\ At("refresh", "out")
  /\ Goto("refresh", IF tracked /\ ~sweep.wanted /\ ~sweep.costume
                     THEN "clear" ELSE "keep")
  /\ Unwritten /\ UNCHANGED <<game, memory, local, spent>>

RefreshClear ==
  /\ At("refresh", "clear")
  /\ Clear /\ Goto("refresh", "keep")
  /\ Unwritten /\ UNCHANGED <<worn, memory, local, spent>>

RefreshKeep ==
  /\ At("refresh", "keep")
  /\ tracked' = sweep.wanted
  /\ sweep' = NoSweep
  /\ Goto("refresh", "idle")
  /\ Unwritten /\ UNCHANGED <<game, reconciled, change, spent>>

(* A call to the mod server fails: it is logged and the coroutine goes on. *)
(* Those whose flag could not be set are not in the sets of the sweep.     *)
CallFails ==
  /\ Mishap
  /\ \/ \E k \in {"crime", "dress", "arrest"} :
          /\ At(k, "make") \/ At(k, "clear")
          /\ Goto(k, "idle") /\ UNCHANGED <<tracked, sweep>>
     \/ \E step \in {"make", "clear"} :
          /\ At("expiry", step) /\ tracked' = (step = "make")
          /\ Goto("expiry", "idle") /\ UNCHANGED sweep
     \/ /\ At("refresh", "make")
        /\ sweep' = [sweep EXCEPT !.wanted = FALSE]
        /\ Goto("refresh", "costume") /\ UNCHANGED tracked
     \/ /\ At("refresh", "poke") /\ Goto("refresh", "reconcile")
        /\ UNCHANGED <<tracked, sweep>>
     \/ /\ At("refresh", "fetch") \/ At("refresh", "found")
        /\ Goto("refresh", "out") /\ UNCHANGED <<tracked, sweep>>
     \/ /\ At("refresh", "clear") /\ Goto("refresh", "keep")
        /\ UNCHANGED <<tracked, sweep>>
  /\ since' = 0
  /\ UNCHANGED <<status, game, reconciled, change>>

(* The sets and the coroutines live in the worker.                         *)
WorkerRestart ==
  /\ Mishap
  /\ tracked' = FALSE /\ reconciled' = FALSE
  /\ pc' = [k \in Coroutine |-> "idle"]
  /\ sweep' = NoSweep /\ change' = NoChange
  /\ since' = 0
  /\ UNCHANGED <<status, game>>

SuspectNext ==
  \/ Leave \/ Return \/ Crime \/ CrimeMake \/ Expire \/ ExpiryAsk \/ ExpiryAct
  \/ Arrest \/ ArrestRecord \/ ArrestClear
  \/ Wear \/ DressSave \/ DressRecord \/ DressAsk \/ DressAct
  \/ RefreshBegin \/ RefreshMake \/ RefreshCostume \/ RefreshPoke
  \/ RefreshReconcile \/ RefreshFetch \/ RefreshSave \/ RefreshFound
  \/ RefreshOut \/ RefreshClear \/ RefreshKeep
  \/ CallFails \/ WorkerRestart

SuspectSpec == SuspectInit /\ [][SuspectNext]_suspectVars

-----------------------------------------------------------------------------
(* Whoever was a suspect through a whole refresh shows the flag, and goes  *)
(* on showing it while one status hands over to the other - pursuit to     *)
(* costume, costume to pursuit - unless a call failed or a status changed  *)
(* between another coroutine's look at it and what it did of that.         *)
SuspectsStayFlagged ==
  since = 2 => flag > 0
=============================================================================
