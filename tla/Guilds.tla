------------------------------- MODULE Guilds -------------------------------
(***************************************************************************)
(* Guild sessions, guilds.py: a player who enters a guild's vehicle gets a *)
(* session of the guild, and loses it by leaving the vehicle or taking     *)
(* another.  Each log line starts a task of its own, and a task waits for  *)
(* the mod server to tell the vehicle's parts: tasks overtake each other.  *)
(***************************************************************************)
EXTENDS Naturals

CONSTANTS Guild,
          NoGuild,     \* no session; a vehicle of no guild; on foot
          Handler,     \* handle_guild_session tasks that may overlap
          Moves        \* bound: ENTERED and EXITED log lines

ASSUME GuildsAssumption == NoGuild \notin Guild /\ Moves \in Nat

VARIABLES seat,        \* the game: the guild whose vehicle the player is in
          session,     \* the guild of the active GuildSession
          members,     \* GuildCharacter
          handler,     \* handle_guild_session
          moves,
          orderly      \* ghost: the last log line met no other task, no failure

guildVars == <<seat, session, members, handler, moves, orderly>>

Idle == [at |-> "idle", guild |-> NoGuild]

GuildInit ==
  /\ seat = NoGuild /\ session = NoGuild /\ members = {}
  /\ handler = [h \in Handler |-> Idle]
  /\ moves = 0 /\ orderly = TRUE

AllIdle == \A h \in Handler : handler[h].at = "idle"

Step(h, step) == handler' = [handler EXCEPT ![h].at = step]
Done(h)       == handler' = [handler EXCEPT ![h] = Idle]

(* The log line of a move starts a task.                                   *)
Move(h, place, step) ==
  /\ handler[h].at = "idle" /\ moves < Moves
  /\ seat' = place /\ moves' = moves + 1
  /\ handler' = [handler EXCEPT ![h] = [at |-> step, guild |-> place]]
  /\ orderly' = AllIdle
  /\ UNCHANGED <<session, members>>

Enter(h) == \E g \in Guild \cup {NoGuild} : Move(h, g, "find")
Exit(h)  == seat # NoGuild /\ Move(h, NoGuild, "end")

(* _find_matching_guild_vehicle: without the parts there is no match.      *)
Find(h) ==
  /\ handler[h].at = "find"
  /\ Step(h, IF handler[h].guild = NoGuild THEN "end" ELSE "look")
  /\ UNCHANGED <<seat, session, members, moves, orderly>>

FindFailed(h) ==
  /\ handler[h].at = "find"
  /\ orderly' = FALSE
  /\ Step(h, "end")
  /\ UNCHANGED <<seat, session, members, moves>>

EndActiveSession(h) ==
  /\ handler[h].at = "end"
  /\ session' = NoGuild
  /\ Done(h)
  /\ UNCHANGED <<seat, members, moves, orderly>>

(* _activate_guild.                                                        *)
LookAnyGuild(h) ==   \* planted mistake: a session of any guild will do
  /\ handler[h].at = "look"
  /\ IF session # NoGuild THEN Done(h) ELSE Step(h, "replace")
  /\ UNCHANGED <<seat, session, members, moves, orderly>>

Look(h) ==
  /\ handler[h].at = "look"
  /\ IF session = handler[h].guild THEN Done(h) ELSE Step(h, "replace")
  /\ UNCHANGED <<seat, session, members, moves, orderly>>

Replace(h) ==
  /\ handler[h].at = "replace"
  /\ session' = NoGuild
  /\ Step(h, "create")
  /\ UNCHANGED <<seat, members, moves, orderly>>

(* unique_active_guild_session: a second active row raises, and the task   *)
(* ends with the error in the log.                                         *)
Create(h) ==
  /\ handler[h].at = "create"
  /\ IF session = NoGuild
     THEN /\ session' = handler[h].guild
          /\ Step(h, "join")
     ELSE Done(h) /\ UNCHANGED session
  /\ UNCHANGED <<seat, members, moves, orderly>>

Join(h) ==
  /\ handler[h].at = "join"
  /\ members' = members \cup {handler[h].guild}
  /\ Done(h)
  /\ UNCHANGED <<seat, session, moves, orderly>>

GuildNext == \E h \in Handler :
  \/ Enter(h) \/ Exit(h) \/ Find(h) \/ FindFailed(h) \/ EndActiveSession(h)
  \/ Look(h) \/ Replace(h) \/ Create(h) \/ Join(h)

GuildSpec == GuildInit /\ [][GuildNext]_guildVars

-----------------------------------------------------------------------------
(* Tasks that overtake each other may leave the session of a vehicle that  *)
(* was left, or none; but the next move whose task runs alone puts it      *)
(* right, whatever was left behind, and only then is the player a member.  *)
SessionFollowsSeat ==
  AllIdle /\ orderly => session = seat /\ (seat = NoGuild \/ seat \in members)
=============================================================================
