---------------------------- MODULE JusticeProofs ---------------------------
(***************************************************************************)
(* Proofs about Justice, for any characters, ticks, payments, overlapping  *)
(* arrests and bounds.                                                     *)
(*                                                                         *)
(* Almost every coroutine writes back something it read before an await.   *)
(* So the invariant is about what coroutines hold: how it compares with    *)
(* the rows now.  That is stable, because every step, stale or not, keeps  *)
(* three things (Evolves): rows stay, what is closed stays closed, and     *)
(* what a row owes rises only while nobody holds the row.                  *)
(***************************************************************************)
EXTENDS Justice, SequenceTheorems, WellFoundedInduction, TLAPS

Sentence == {"no", "serving", "over"}

(* The tables: the balance of a record never exceeds what it took in, and  *)
(* no active row has less left than it still owes.                         *)
TablesInv ==
  /\ wanted \in Seq(WantedRow) /\ record \in Seq(RecordRow)
  /\ owed \in Seq(0 .. Initial) /\ Len(owed) = Len(wanted)
  /\ \A i \in 1 .. Len(wanted) : wanted[i].active => wanted[i].left >= owed[i]
  /\ \A r \in 1 .. Len(record) : record[r].conf <= record[r].amount

(* What a tick holds of a row is no less than the row still owes.          *)
TickFits(k) ==
  /\ k \in [at : {"idle", "walk", "expire"}, snap : {k.snap}, todo : {k.todo}]
  /\ k.snap = [i \in DOMAIN k.snap |-> k.snap[i]]
  /\ k.todo \subseteq DOMAIN k.snap
  /\ \A i \in DOMAIN k.snap : i \in 1 .. Len(wanted) /\ k.snap[i] \in Nat
                              /\ k.snap[i] >= owed[i]

(* Rows up to upto were expired before the teleport, the record is closed  *)
(* with it, and what is charged was on the record.                         *)
FrameFits(f) ==
  /\ f \in FrameType
  /\ f.at # "none" => f.who \in Character
  /\ f.rec \in 0 .. Len(record) /\ f.upto \in 0 .. Len(wanted)
  /\ f.rec # 0 => f.amt <= record[f.rec].amount
  /\ f.at \in {"record", "close", "teleport", "jail"} => Punished(f.who, f.upto)
  /\ f.at \in {"teleport", "jail"} /\ f.rec # 0 => ~record[f.rec].active

HookInv ==
  /\ hook \in [at : {"idle", "accumulate", "wanted", "save", "arrest"},
               who : Character \cup {Nobody}, pay : Nat, row : Nat]
  /\ hook.row \in 0 .. Len(wanted)
  /\ hook.at # "idle" => hook.who \in Character

LogInv ==
  /\ log \in [at : {"idle", "lookup", "save", "logout"},
              who : Character \cup {Nobody}, row : Nat, left : Nat]
  /\ log.row \in 0 .. Len(wanted)
  /\ log.at # "idle" => log.who \in Character
  /\ log.at = "logout" => log.row # 0 /\ log.left > 0 /\ log.left >= owed[log.row]

LocInv ==
  /\ loc = [at |-> loc.at, mem |-> loc.mem, todo |-> loc.todo]
  /\ loc.todo \subseteq Character
  /\ loc.at = "walk" => loc.mem \in [Character -> Sentence]

DecayInv ==
  \A r \in DOMAIN decay : /\ r \in 1 .. Len(record)
                          /\ decay[r] \in Nat \ {0}
                          /\ decay[r] <= record[r].amount

MovedInv ==
  \A e \in moved : /\ e.who \in Character /\ e.upto \in 0 .. Len(wanted)
                   /\ Punished(e.who, e.upto)

TicksInv  == DOMAIN tick = Tick /\ \A t \in Tick : TickFits(tick[t])
FramesInv == /\ arrest = [t \in Arrester |-> arrest[t]]
             /\ \A t \in Arrester : FrameFits(arrest[t])

RestInv == jailed \in [Character -> Sentence] /\ spent \in [Bounded -> Nat]

JusticeInv ==
  /\ TablesInv /\ TicksInv /\ FramesInv /\ HookInv /\ LogInv /\ LocInv
  /\ DecayInv /\ MovedInv /\ RestInv /\ ZeroIsBeingExpired

-----------------------------------------------------------------------------
(* What every step does to the tables.                                     *)
Evolves ==
  /\ Len(wanted) <= Len(wanted')
  /\ \A i \in 1 .. Len(wanted) :
       /\ wanted'[i].who = wanted[i].who
       /\ wanted'[i].active => wanted[i].active
       /\ owed'[i] <= owed[i] \/ ~Held(i)
  /\ Len(record) <= Len(record')
  /\ \A r \in 1 .. Len(record) :
       /\ record'[r].active => record[r].active
       /\ record'[r].amount >= record[r].amount

LEMMA Numbers ==
  /\ Initial \in Nat /\ Initial > 1 /\ Heat \in Nat
  /\ Payments \subseteq Nat \ {0} /\ Limit \in [Bounded -> Nat] /\ Nobody \notin Character
BY JusticeAssumption

LEMMA Elements ==
  ASSUME NEW S, NEW s \in Seq(S)
  PROVE  /\ Len(s) \in Nat /\ DOMAIN s = 1 .. Len(s)
         /\ \A i \in 1 .. Len(s) : s[i] \in S
OBVIOUS

(* A sequence rewritten in place.                                          *)
LEMMA Rewritten ==
  ASSUME NEW S, NEW n \in Nat, NEW f, f = [i \in 1 .. n |-> f[i]],
         \A i \in 1 .. n : f[i] \in S
  PROVE  f \in Seq(S) /\ Len(f) = n
<1>1. f \in [1 .. n -> S]
  OBVIOUS
<1> QED BY <1>1, SeqDef

(* First picks an element of its set.                                      *)
LEMMA LeastOne ==
  ASSUME NEW S, S \subseteq Nat, S # {}
  PROVE  \E x \in S : \A y \in S : x <= y
<1> DEFINE R == OpToRel(<, Nat)
<1>1. IsWellFoundedOn(R, Nat)
  BY NatLessThanWellFounded
<1>2. \A x, y \in Nat : x < y => <<x, y>> \in R
  BY DEF OpToRel
<1> HIDE DEF R
<1>3. \E x \in S : \A y \in S : ~(<<y, x>> \in R)
  BY <1>1, WFMin
<1>4. PICK x \in S : \A y \in S : ~(<<y, x>> \in R)
  BY <1>3
<1>5. ASSUME NEW y \in S PROVE x <= y
  <2>1. x \in Nat /\ y \in Nat /\ ~(<<y, x>> \in R)
    BY <1>4
  <2>2. ~(y < x)
    BY <1>2, <2>1
  <2> QED BY <2>1, <2>2
<1> QED BY <1>5

LEMMA FirstIsIn ==
  ASSUME NEW S, S \subseteq Nat \ {0}
  PROVE  (First(S) = 0 /\ S = {}) \/ (First(S) \in S /\ First(S) # 0)
BY LeastOne DEF First

LEMMA Tables ==
  ASSUME TablesInv
  PROVE  /\ Len(wanted) \in Nat /\ DOMAIN wanted = 1 .. Len(wanted)
         /\ \A i \in 1 .. Len(wanted) : wanted[i] \in WantedRow
         /\ Len(record) \in Nat /\ DOMAIN record = 1 .. Len(record)
         /\ \A r \in 1 .. Len(record) : record[r] \in RecordRow
         /\ DOMAIN owed = 1 .. Len(wanted)
         /\ \A i \in 1 .. Len(wanted) : owed[i] \in 0 .. Initial
BY Elements DEF TablesInv

(* What is held and not touched fits the tables after the step.            *)
LEMMA Persist ==
  ASSUME JusticeInv, TablesInv', Evolves
  PROVE  /\ \A t \in Tick : tick'[t] = tick[t] => TickFits(tick[t])'
         /\ \A t \in Arrester : arrest'[t] = arrest[t] => FrameFits(arrest[t])'
         /\ hook' = hook => HookInv'
         /\ log' = log => LogInv'
         /\ loc' = loc => LocInv'
         /\ decay' = decay => DecayInv'
         /\ moved' = moved => MovedInv'
<1> USE Tables DEF JusticeInv
<1>1. Len(wanted) <= Len(wanted') /\ Len(record) <= Len(record')
  BY DEF Evolves
<1>2. ASSUME NEW t \in Tick, tick'[t] = tick[t] PROVE TickFits(tick[t])'
  <2>1. TickFits(tick[t])
    BY DEF TicksInv
  <2>2. \A i \in DOMAIN tick[t].snap : i \in 1 .. Len(wanted) /\ Held(i)
    BY <2>1 DEF TickFits, Held
  <2>3. \A i \in DOMAIN tick[t].snap : /\ i \in 1 .. Len(wanted') /\ tick[t].snap[i] \in Nat
                                       /\ tick[t].snap[i] >= owed'[i]
    <3> SUFFICES ASSUME NEW i \in DOMAIN tick[t].snap
                 PROVE  /\ i \in 1 .. Len(wanted') /\ tick[t].snap[i] \in Nat
                        /\ tick[t].snap[i] >= owed'[i]
      OBVIOUS
    <3>1. i \in 1 .. Len(wanted) /\ owed'[i] <= owed[i]
      BY <2>2 DEF Evolves
    <3>2. Len(wanted') \in Nat /\ owed'[i] \in Nat /\ owed[i] \in Nat
      BY <1>1, <3>1, Numbers DEF TablesInv
    <3>3. tick[t].snap[i] \in Nat /\ tick[t].snap[i] >= owed[i]
      BY <2>1 DEF TickFits
    <3> QED BY <1>1, <3>1, <3>2, <3>3
  <2> QED BY <1>2, <2>1, <2>3 DEF TickFits
<1>3. ASSUME NEW t \in Arrester, arrest'[t] = arrest[t] PROVE FrameFits(arrest[t])'
  <2>1. FrameFits(arrest[t])
    BY DEF FramesInv
  <2>2. /\ arrest[t].rec \in 0 .. Len(record') /\ arrest[t].upto \in 0 .. Len(wanted')
        /\ arrest[t].amt \in Nat
    BY <1>1, <2>1 DEF FrameFits, TablesInv, FrameType
  <2>3. arrest[t].rec # 0 => arrest[t].amt <= record'[arrest[t].rec].amount
    <3> SUFFICES ASSUME arrest[t].rec # 0
                 PROVE  arrest[t].amt <= record'[arrest[t].rec].amount
      OBVIOUS
    <3>1. /\ arrest[t].amt <= record[arrest[t].rec].amount
          /\ record'[arrest[t].rec].amount >= record[arrest[t].rec].amount
          /\ arrest[t].rec \in 1 .. Len(record)
      BY <2>1 DEF FrameFits, Evolves
    <3>2. record[arrest[t].rec].amount \in Nat
      BY <3>1 DEF RecordRow
    <3>3. record'[arrest[t].rec] \in RecordRow
      BY <1>1, <3>1 DEF TablesInv
    <3>4. record'[arrest[t].rec].amount \in Nat
      BY <3>3 DEF RecordRow
    <3> QED BY <2>2, <3>1, <3>2, <3>4
  <2>4. Punished(arrest[t].who, arrest[t].upto)
          => \A i \in 1 .. arrest[t].upto : wanted'[i].who = arrest[t].who => ~wanted'[i].active
    BY <2>1 DEF FrameFits, Punished, Evolves
  <2>5. arrest[t].rec # 0 /\ ~record[arrest[t].rec].active
          => ~record'[arrest[t].rec].active
    BY <2>1 DEF FrameFits, Evolves
  <2> QED BY <1>3, <2>1, <2>2, <2>3, <2>4, <2>5 DEF FrameFits, Punished
<1>4. ASSUME hook' = hook PROVE HookInv'
  BY <1>1, <1>4 DEF HookInv, TablesInv
<1>5. ASSUME log' = log PROVE LogInv'
  <2>1. log.at = "logout" => Held(log.row) /\ log.row \in 1 .. Len(wanted)
    BY DEF LogInv, Held
  <2>2. log.at = "logout" => log.left >= owed'[log.row]
    <3> SUFFICES ASSUME log.at = "logout" PROVE log.left >= owed'[log.row]
      OBVIOUS
    <3>1. owed'[log.row] <= owed[log.row] /\ log.row \in 1 .. Len(wanted)
      BY <2>1 DEF Evolves
    <3>2. owed'[log.row] \in Nat /\ owed[log.row] \in Nat
      BY <1>1, <3>1, Numbers DEF TablesInv
    <3>3. log.left \in Nat /\ log.left >= owed[log.row]
      BY DEF LogInv
    <3> QED BY <3>1, <3>2, <3>3
  <2>3. log.row \in 0 .. Len(wanted')
    BY <1>1 DEF LogInv, TablesInv
  <2> QED BY <1>5, <2>2, <2>3 DEF LogInv
<1>6. ASSUME loc' = loc PROVE LocInv'
  BY <1>6 DEF LocInv
<1>7. ASSUME decay' = decay PROVE DecayInv'
  <2> SUFFICES ASSUME NEW r \in DOMAIN decay
               PROVE  /\ r \in 1 .. Len(record') /\ decay[r] \in Nat \ {0}
                      /\ decay[r] <= record'[r].amount
    BY <1>7 DEF DecayInv
  <2>1. r \in 1 .. Len(record) /\ decay[r] \in Nat \ {0} /\ decay[r] <= record[r].amount
    BY DEF DecayInv
  <2>2. record[r].amount \in Nat /\ r \in 1 .. Len(record')
    BY <1>1, <2>1 DEF RecordRow, TablesInv
  <2>3. record'[r] \in RecordRow
    BY <2>2, Elements DEF TablesInv
  <2>4. record'[r].amount \in Nat
    BY <2>3 DEF RecordRow
  <2> QED BY <2>1, <2>2, <2>4 DEF Evolves
<1>8. ASSUME moved' = moved PROVE MovedInv'
  <2> SUFFICES ASSUME NEW e \in moved
               PROVE  /\ e.who \in Character /\ e.upto \in 0 .. Len(wanted')
                      /\ \A i \in 1 .. e.upto : wanted'[i].who = e.who => ~wanted'[i].active
    BY <1>8 DEF MovedInv, Punished
  <2>1. /\ e.who \in Character /\ e.upto \in 0 .. Len(wanted)
        /\ \A i \in 1 .. e.upto : wanted[i].who = e.who => ~wanted[i].active
    BY DEF MovedInv, Punished
  <2>2. Len(wanted) \in Nat /\ Len(wanted') \in Nat
    BY Elements DEF TablesInv
  <2>3. \A i \in 1 .. e.upto : i \in 1 .. Len(wanted)
    BY <2>1, <2>2
  <2> QED BY <1>1, <2>1, <2>2, <2>3 DEF Evolves
<1> QED BY <1>2, <1>3, <1>4, <1>5, <1>6, <1>7, <1>8

(* A step that leaves the tables alone.                                    *)
LEMMA Still ==
  ASSUME JusticeInv, UNCHANGED <<rows, owed>>
  PROVE  TablesInv' /\ Evolves
<1>1. wanted' = wanted /\ record' = record /\ owed' = owed
  BY DEF rows
<1>2. TablesInv /\ TablesInv'
  BY <1>1 DEF JusticeInv, TablesInv
<1>3. \A i \in 1 .. Len(wanted) : owed[i] <= owed[i]
  BY <1>2, Tables, Numbers
<1>4. \A r \in 1 .. Len(record) : record[r].amount >= record[r].amount
  BY <1>2, Tables DEF RecordRow
<1>5. Len(wanted) <= Len(wanted) /\ Len(record) <= Len(record)
  BY <1>2, Tables
<1> QED BY <1>1, <1>2, <1>3, <1>4, <1>5 DEF Evolves

(* Rows at zero stay with the tick that is about to expire them.           *)
LEMMA ZeroStays ==
  ASSUME JusticeInv, wanted' = wanted,
         \A t \in Tick : tick[t].at = "expire" => tick'[t] = tick[t],
         spent'["crash"] = 0 => spent["crash"] = 0
  PROVE  ZeroIsBeingExpired'
BY DEF JusticeInv, ZeroIsBeingExpired, Gone

LEMMA Spent ==
  ASSUME JusticeInv, NEW k \in Bounded, Spend(k)
  PROVE  /\ spent' \in [Bounded -> Nat]
         /\ spent'["crash"] = 0 => spent["crash"] = 0
<1>1. spent \in [Bounded -> Nat] /\ "crash" \in Bounded
  BY DEF JusticeInv, RestInv, Bounded
<1>2. spent' = [spent EXCEPT ![k] = spent[k] + 1]
  BY DEF Spend
<1>3. spent[k] + 1 \in Nat /\ spent[k] + 1 # 0
  BY <1>1
<1>4. spent'["crash"] = spent["crash"] \/ spent'["crash"] = spent[k] + 1
  BY <1>1, <1>2
<1> QED BY <1>1, <1>2, <1>3, <1>4

-----------------------------------------------------------------------------
(* The coroutines.                                                         *)
LEMMA TicksKeep ==
  ASSUME JusticeInv, TablesInv', Evolves, NEW t \in Tick, NEW k,
         tick' = [tick EXCEPT ![t] = k], TickFits(tick[t])'
  PROVE  TicksInv'
<1>1. DOMAIN tick = Tick
  BY DEF JusticeInv, TicksInv
<1>2. DOMAIN tick' = Tick /\ \A u \in Tick \ {t} : tick'[u] = tick[u]
  BY <1>1
<1>3. \A u \in Tick \ {t} : TickFits(tick[u])'
  BY <1>2, Persist
<1> QED BY <1>2, <1>3 DEF TicksInv

LEMMA FramesKeep ==
  ASSUME JusticeInv, TablesInv', Evolves, NEW t \in Arrester, NEW f,
         Frame(t, f), FrameFits(arrest[t])'
  PROVE  FramesInv'
<1>1. DOMAIN arrest = Arrester
  BY DEF JusticeInv, FramesInv
<1>2. DOMAIN arrest' = Arrester /\ \A u \in Arrester \ {t} : arrest'[u] = arrest[u]
  BY <1>1 DEF Frame
<1>3. \A u \in Arrester \ {t} : FrameFits(arrest[u])'
  BY <1>2, Persist
<1>4. arrest' = [u \in Arrester |-> arrest'[u]]
  BY <1>1 DEF Frame
<1> QED BY <1>2, <1>3, <1>4 DEF FramesInv

LEMMA SameFrames ==
  ASSUME JusticeInv, TablesInv', Evolves, UNCHANGED arrest
  PROVE  FramesInv'
BY Persist DEF JusticeInv, FramesInv

LEMMA SameTicks ==
  ASSUME JusticeInv, TablesInv', Evolves, UNCHANGED tick
  PROVE  TicksInv'
BY Persist DEF JusticeInv, TicksInv

LEMMA FrameIs ==
  ASSUME JusticeInv, NEW t \in Arrester
  PROVE  /\ FrameFits(arrest[t]) /\ arrest[t] \in FrameType
         /\ \A f : Frame(t, f) => arrest'[t] = f
BY DEF JusticeInv, FramesInv, FrameFits, Frame

LEMMA FrameBegins ==
  ASSUME JusticeInv, TablesInv', Evolves, NEW t \in Arrester, NEW c \in Character,
         NEW at \in {"expire", "failed"},
         Frame(t, [NoFrame EXCEPT !.at = at, !.who = c])
  PROVE  FramesInv'
<1> DEFINE f == [NoFrame EXCEPT !.at = at, !.who = c]
<1>1. f = [at |-> at, who |-> c, rec |-> 0, amt |-> 0, upto |-> 0]
  <2>1. [NoFrame EXCEPT !.at = at]
          = [at |-> at, who |-> Nobody, rec |-> 0, amt |-> 0, upto |-> 0]
    BY DEF NoFrame
  <2>2. f = [[NoFrame EXCEPT !.at = at] EXCEPT !.who = c]
    OBVIOUS
  <2> HIDE DEF f
  <2> QED BY <2>1, <2>2
<1>2. Frame(t, f)
  OBVIOUS
<1>3. arrest'[t] = f
  BY <1>2, FrameIs
<1> HIDE DEF f
<1>4. FrameFits(arrest[t])'
  <2>1. Len(wanted') \in Nat /\ Len(record') \in Nat
    BY Elements DEF TablesInv
  <2> QED BY <1>1, <1>3, <2>1 DEF FrameFits, FrameType
<1> QED BY <1>2, <1>4, FramesKeep

LEMMA CallKeeps ==
  ASSUME JusticeInv, TablesInv', Evolves, NEW t \in Arrester, NEW c \in Character,
         Call(t, c)
  PROVE  FramesInv'
BY FrameBegins DEF Call

LEMMA ReturnKeeps ==
  ASSUME JusticeInv, TablesInv', Evolves, NEW t \in Arrester, Return(t)
  PROVE  FramesInv' /\ HookInv' /\ LogInv'
<1>1. arrest'[t] = NoFrame
  BY FrameIs DEF Return
<1>2. Len(wanted') \in Nat /\ Len(record') \in Nat
  BY Elements DEF TablesInv
<1>3. FrameFits(arrest[t])'
  BY <1>1, <1>2 DEF FrameFits, FrameType, NoFrame
<1>4. FramesInv'
  BY <1>3, FramesKeep DEF Return
<1>5. HookInv'
  <2>1. CASE hook' = NoHook
    BY <1>2, <2>1 DEF HookInv, NoHook
  <2> QED BY <2>1, Persist DEF Return
<1>6. LogInv'
  <2>1. CASE log' = NoLog
    BY <1>2, <2>1 DEF LogInv, NoLog
  <2> QED BY <2>1, Persist DEF Return
<1> QED BY <1>4, <1>5, <1>6

LEMMA RaiseKeeps ==
  ASSUME JusticeInv, TablesInv', Evolves, NEW t \in Arrester, arrest[t].at # "none",
         Raise(t)
  PROVE  FramesInv' /\ HookInv' /\ LogInv'
<1>1. CASE t = "log"
  <2> DEFINE f == [arrest[t] EXCEPT !.at = "failed"]
  <2>1. FrameFits(arrest[t]) /\ arrest[t] \in FrameType /\ Frame(t, f)
    BY <1>1, FrameIs DEF Raise
  <2>2. f = [at |-> "failed", who |-> arrest[t].who, rec |-> arrest[t].rec,
             amt |-> arrest[t].amt, upto |-> arrest[t].upto]
    BY <2>1 DEF FrameType
  <2>3. arrest'[t] = f
    BY <2>1, FrameIs
  <2> HIDE DEF f
  <2>4. Len(wanted) \in Nat /\ Len(wanted') \in Nat /\ Len(record) \in Nat
        /\ Len(record') \in Nat
    BY Elements DEF TablesInv, JusticeInv
  <2>5. f.rec # 0 => f.amt <= record'[f.rec].amount
    <3> SUFFICES ASSUME f.rec # 0 PROVE f.amt <= record'[f.rec].amount
      OBVIOUS
    <3>1. f.rec \in 1 .. Len(record) /\ f.rec \in 1 .. Len(record')
          /\ f.amt <= record[f.rec].amount /\ f.amt \in Nat
      BY <2>1, <2>2, <2>4 DEF FrameFits, FrameType, Evolves
    <3>2. record[f.rec] \in RecordRow /\ record'[f.rec] \in RecordRow
      BY <3>1, Elements DEF TablesInv, JusticeInv
    <3>3. record[f.rec].amount \in Nat /\ record'[f.rec].amount \in Nat
      BY <3>2 DEF RecordRow
    <3> QED BY <3>1, <3>3 DEF Evolves
  <2>6. FrameFits(arrest[t])'
    BY <2>1, <2>2, <2>3, <2>4, <2>5 DEF FrameFits, FrameType, Evolves
  <2> QED BY <1>1, <2>1, <2>6, FramesKeep, Persist DEF Raise
<1> QED BY <1>1, ReturnKeeps DEF Raise

(* A step from its parts: what it leaves alone, and what it has to show.   *)
LEMMA Assemble ==
  ASSUME JusticeInv, TablesInv', Evolves, ZeroIsBeingExpired',
         tick' = tick \/ TicksInv', arrest' = arrest \/ FramesInv',
         hook' = hook \/ HookInv', log' = log \/ LogInv', loc' = loc \/ LocInv',
         decay' = decay \/ DecayInv', moved' = moved \/ MovedInv',
         jailed' = jailed \/ jailed' \in [Character -> Sentence],
         spent' = spent \/ spent' \in [Bounded -> Nat]
  PROVE  JusticeInv'
<1>1. TicksInv' /\ FramesInv'
  BY SameTicks, SameFrames
<1>2. HookInv' /\ LogInv' /\ LocInv' /\ DecayInv' /\ MovedInv'
  BY Persist
<1>3. RestInv'
  BY DEF JusticeInv, RestInv
<1> QED BY <1>1, <1>2, <1>3 DEF JusticeInv

-----------------------------------------------------------------------------
(* Steps that leave the tables alone.                                      *)
LEMMA TickReadStep ==
  ASSUME JusticeInv, NEW t \in Tick, TickRead(t)
  PROVE  JusticeInv' /\ Evolves
<1> DEFINE k == [at |-> "walk", snap |-> [i \in Pursued |-> wanted[i].left],
                 todo |-> Pursued]
<1>1. TablesInv' /\ Evolves /\ TablesInv
  BY Still DEF TickRead, JusticeInv
<1>2. tick' = [tick EXCEPT ![t] = k] /\ tick[t].at = "idle"
  BY DEF TickRead
<1>3. wanted' = wanted /\ owed' = owed /\ spent' = spent
  BY DEF TickRead, rows
<1>4. tick'[t] = k /\ \A u \in Tick : tick[u].at = "expire" => tick'[u] = tick[u]
  BY <1>2 DEF JusticeInv, TicksInv
<1>5. \A i \in Pursued : /\ i \in 1 .. Len(wanted) /\ wanted[i].left \in Nat
                         /\ wanted[i].left >= owed[i]
  BY <1>1, Tables DEF Pursued, TablesInv, WantedRow
<1>6. TickFits(tick[t])'
  BY <1>3, <1>4, <1>5 DEF TickFits
<1>7. TicksInv'
  BY <1>1, <1>2, <1>6, TicksKeep
<1>8. ZeroIsBeingExpired'
  BY <1>3, <1>4, ZeroStays
<1> QED BY <1>1, <1>7, <1>8, Assemble DEF TickRead

LEMMA TickCaughtStep ==
  ASSUME JusticeInv, NEW t \in Tick, NEW i \in tick[t].todo, TickCaught(t, i)
  PROVE  JusticeInv' /\ Evolves
<1> DEFINE k == [tick[t] EXCEPT !.todo = @ \ {i}]
<1>1. TablesInv' /\ Evolves /\ TablesInv
  BY Still DEF TickCaught, JusticeInv
<1>2. tick' = [tick EXCEPT ![t] = k] /\ tick[t].at = "walk"
  BY DEF TickCaught
<1>3. wanted' = wanted /\ owed' = owed /\ spent' = spent
  BY DEF TickCaught, rows
<1>4. tick'[t] = k /\ \A u \in Tick : tick[u].at = "expire" => tick'[u] = tick[u]
  BY <1>2 DEF JusticeInv, TicksInv
<1>5. TickFits(tick[t])
  BY DEF JusticeInv, TicksInv
<1>6. k = [at |-> tick[t].at, snap |-> tick[t].snap, todo |-> tick[t].todo \ {i}]
  <2>1. tick[t] = [at |-> tick[t].at, snap |-> tick[t].snap, todo |-> tick[t].todo]
    BY <1>5 DEF TickFits
  <2> QED BY <2>1
<1> HIDE DEF k
<1>7. TickFits(tick[t])'
  BY <1>3, <1>4, <1>5, <1>6 DEF TickFits
<1>8. TicksInv'
  BY <1>1, <1>2, <1>7, TicksKeep
<1>9. ZeroIsBeingExpired'
  BY <1>3, <1>4, ZeroStays
<1>10. i \in 1 .. Len(wanted)
  BY <1>5 DEF TickFits
<1>11. wanted[i].who \in Character
  BY <1>1, <1>10, Tables DEF WantedRow
<1>12. FramesInv'
  BY <1>1, <1>11, CallKeeps DEF TickCaught, Arrester
<1> QED BY <1>1, <1>8, <1>9, <1>12, Assemble DEF TickCaught

LEMMA ReadRecordStep ==
  ASSUME JusticeInv, NEW t \in Arrester, ReadRecord(t)
  PROVE  JusticeInv' /\ Evolves
<1> DEFINE r == First(ActiveRecords(arrest[t].who))
           f == [arrest[t] EXCEPT !.at = "close", !.rec = r,
                   !.amt = IF r = 0 THEN 0 ELSE record[r].conf]
<1>1. TablesInv' /\ Evolves /\ TablesInv
  BY Still DEF ReadRecord, JusticeInv
<1>2. Frame(t, f) /\ arrest[t].at = "record"
  BY DEF ReadRecord
<1>3. wanted' = wanted /\ record' = record /\ spent' = spent /\ tick' = tick
  BY DEF ReadRecord, rows
<1>4. FrameFits(arrest[t]) /\ arrest[t] \in FrameType /\ arrest'[t] = f
  BY <1>2, FrameIs
<1>5. r \in 0 .. Len(record)
  <2>1. ActiveRecords(arrest[t].who) \subseteq 1 .. Len(record) /\ Len(record) \in Nat
    BY <1>1, Tables DEF ActiveRecords
  <2>2. ActiveRecords(arrest[t].who) \subseteq Nat \ {0}
    BY <2>1
  <2> QED BY <2>1, <2>2, FirstIsIn
<1>6. r # 0 => record[r] \in RecordRow /\ record[r].conf <= record[r].amount
  BY <1>1, <1>5, Tables DEF TablesInv
<1>7. f = [at |-> "close", who |-> arrest[t].who, rec |-> r,
           amt |-> IF r = 0 THEN 0 ELSE record[r].conf, upto |-> arrest[t].upto]
  <2> DEFINE m == IF r = 0 THEN 0 ELSE record[r].conf
  <2>1. f = [[[arrest[t] EXCEPT !.at = "close"] EXCEPT !.rec = r] EXCEPT !.amt = m]
    OBVIOUS
  <2> HIDE DEF f, r, m
  <2>2. arrest[t] = [at |-> arrest[t].at, who |-> arrest[t].who, rec |-> arrest[t].rec,
                     amt |-> arrest[t].amt, upto |-> arrest[t].upto]
    BY <1>4 DEF FrameType
  <2>3. f = [at |-> "close", who |-> arrest[t].who, rec |-> r, amt |-> m,
             upto |-> arrest[t].upto]
    BY <2>1, <2>2
  <2> QED BY <2>3 DEF m
<1> HIDE DEF f, r
<1>8. FrameFits(arrest[t])'
  <2>1. f.rec = r /\ f.amt = (IF r = 0 THEN 0 ELSE record[r].conf) /\ f.at = "close"
        /\ f.who = arrest[t].who /\ f.upto = arrest[t].upto
    BY <1>7
  <2>2. f.amt \in Nat /\ (r # 0 => f.amt <= record[r].amount) /\ f.rec \in Nat
    BY <1>5, <1>6, <2>1 DEF RecordRow
  <2>3. f.who \in Character /\ f.upto \in 0 .. Len(wanted) /\ Punished(f.who, f.upto)
    BY <1>2, <1>4, <2>1 DEF FrameFits
  <2>4. f.upto \in Nat
    BY <1>4, <2>1 DEF FrameType
  <2>5. f \in FrameType
    BY <1>7, <2>1, <2>2, <2>3, <2>4 DEF FrameType
  <2> QED BY <1>3, <1>4, <1>5, <2>1, <2>2, <2>3, <2>5 DEF FrameFits, Punished
<1>9. FramesInv'
  BY <1>1, <1>2, <1>8, FramesKeep
<1>10. ZeroIsBeingExpired'
  BY <1>3, ZeroStays
<1> QED BY <1>1, <1>9, <1>10, Assemble DEF ReadRecord

LEMMA Quiet ==
  ASSUME JusticeInv, UNCHANGED <<rows, owed, tick>>,
         spent' = spent \/ \E k \in Bounded : Spend(k)
  PROVE  /\ TablesInv' /\ Evolves /\ TablesInv /\ ZeroIsBeingExpired'
         /\ wanted' = wanted /\ record' = record /\ owed' = owed
         /\ spent' \in [Bounded -> Nat]
<1>1. spent' \in [Bounded -> Nat] /\ (spent'["crash"] = 0 => spent["crash"] = 0)
  BY Spent DEF JusticeInv, RestInv
<1>2. wanted' = wanted /\ record' = record /\ owed' = owed /\ tick' = tick
  BY DEF rows
<1>3. ZeroIsBeingExpired'
  BY <1>1, <1>2, ZeroStays
<1> QED BY <1>1, <1>2, <1>3, Still DEF JusticeInv

LEMMA TeleportStep ==
  ASSUME JusticeInv, NEW t \in Arrester, Teleport(t)
  PROVE  JusticeInv' /\ Evolves
<1>1. /\ TablesInv' /\ Evolves /\ TablesInv /\ ZeroIsBeingExpired'
      /\ wanted' = wanted /\ record' = record
  BY Quiet DEF Teleport
<1>2. CASE Return(t) /\ UNCHANGED moved
  BY <1>1, <1>2, ReturnKeeps, Assemble DEF Teleport
<1>3. CASE /\ moved' = moved \cup {[who |-> arrest[t].who, upto |-> arrest[t].upto]}
           /\ Frame(t, [arrest[t] EXCEPT !.at = "jail"])
           /\ UNCHANGED <<hook, log>>
  <2> DEFINE f == [arrest[t] EXCEPT !.at = "jail"]
  <2>1. FrameFits(arrest[t]) /\ arrest[t].at = "teleport" /\ arrest'[t] = f
    BY <1>3, FrameIs DEF Teleport
  <2>2. f = [at |-> "jail", who |-> arrest[t].who, rec |-> arrest[t].rec,
             amt |-> arrest[t].amt, upto |-> arrest[t].upto]
    BY <2>1 DEF FrameFits, FrameType
  <2> HIDE DEF f
  <2>3. FrameFits(arrest[t])'
    BY <1>1, <2>1, <2>2 DEF FrameFits, FrameType, Punished
  <2>4. FramesInv'
    BY <1>1, <1>3, <2>3, FramesKeep
  <2>5. MovedInv'
    <3> SUFFICES ASSUME NEW e \in moved'
                 PROVE  /\ e.who \in Character /\ e.upto \in 0 .. Len(wanted)
                        /\ Punished(e.who, e.upto)
      BY <1>1 DEF MovedInv, Punished
    <3>1. CASE e \in moved
      BY <3>1 DEF JusticeInv, MovedInv
    <3>2. CASE e = [who |-> arrest[t].who, upto |-> arrest[t].upto]
      BY <2>1, <3>2 DEF FrameFits
    <3> QED BY <1>3, <3>1, <3>2
  <2> QED BY <1>1, <1>3, <2>4, <2>5, Assemble DEF Teleport
<1> QED BY <1>2, <1>3 DEF Teleport

LEMMA JailStep ==
  ASSUME JusticeInv, NEW t \in Arrester, Jail(t)
  PROVE  JusticeInv' /\ Evolves
<1> DEFINE c == arrest[t].who
<1>1. TablesInv' /\ Evolves /\ TablesInv /\ ZeroIsBeingExpired'
  BY Quiet DEF Jail
<1>2. c \in Character
  BY FrameIs DEF Jail, FrameFits
<1>3. jailed' \in [Character -> Sentence]
  BY <1>2 DEF Jail, JusticeInv, RestInv, Sentence
<1>4. LocInv'
  <2>1. CASE loc' = [loc EXCEPT !.mem[c] = "serving"]
    <3>1. loc = [at |-> loc.at, mem |-> loc.mem, todo |-> loc.todo]
      BY DEF JusticeInv, LocInv
    <3>2. loc' = [at |-> loc.at, mem |-> [loc.mem EXCEPT ![c] = "serving"],
                  todo |-> loc.todo]
      BY <2>1, <3>1
    <3>3. loc.at = "walk" => [loc.mem EXCEPT ![c] = "serving"] \in [Character -> Sentence]
      BY <1>2 DEF JusticeInv, LocInv, Sentence
    <3> QED BY <3>2, <3>3 DEF JusticeInv, LocInv
  <2> QED BY <1>1, <2>1, Persist DEF Jail
<1>5. FramesInv' /\ HookInv' /\ LogInv'
  BY <1>1, ReturnKeeps DEF Jail
<1> QED BY <1>1, <1>3, <1>4, <1>5, Assemble DEF Jail

LEMMA FirstActive ==
  ASSUME TablesInv, NEW c
  PROVE  First(ActiveRows(c)) \in 0 .. Len(wanted) /\ First(Chased(c)) \in 0 .. Len(wanted)
         /\ (Chased(c) # {} => First(Chased(c)) \in Chased(c))
<1>1. Len(wanted) \in Nat /\ ActiveRows(c) \subseteq 1 .. Len(wanted)
      /\ Chased(c) \subseteq 1 .. Len(wanted)
  BY Tables DEF ActiveRows, Chased
<1>2. ActiveRows(c) \subseteq Nat \ {0} /\ Chased(c) \subseteq Nat \ {0}
  BY <1>1
<1> QED BY <1>1, <1>2, FirstIsIn

LEMMA TriggerWantedStep ==
  ASSUME JusticeInv, TriggerWanted
  PROVE  JusticeInv' /\ Evolves
<1> DEFINE i == First(ActiveRows(hook.who))
<1>1. TablesInv' /\ Evolves /\ TablesInv /\ ZeroIsBeingExpired' /\ wanted' = wanted
  BY Quiet DEF TriggerWanted
<1>2. i \in 0 .. Len(wanted) /\ i \in Nat
  BY <1>1, FirstActive, Tables
<1>3. HookInv'
  <2>1. hook = [at |-> hook.at, who |-> hook.who, pay |-> hook.pay, row |-> hook.row]
        /\ hook.who \in Character /\ hook.pay \in Nat
    BY DEF JusticeInv, HookInv, TriggerWanted
  <2>2. CASE hook' = [hook EXCEPT !.at = "save", !.row = i]
    <3> HIDE DEF i
    <3>1. [hook EXCEPT !.at = "save"]
            = [at |-> "save", who |-> hook.who, pay |-> hook.pay, row |-> hook.row]
      BY <2>1
    <3>2. hook' = [[hook EXCEPT !.at = "save"] EXCEPT !.row = i]
      BY <2>2
    <3>3. hook' = [at |-> "save", who |-> hook.who, pay |-> hook.pay, row |-> i]
      BY <3>1, <3>2
    <3> QED BY <1>1, <1>2, <2>1, <3>3 DEF HookInv
  <2>3. CASE hook' = NoHook
    BY <1>1, <2>3, Tables DEF HookInv, NoHook
  <2> QED BY <2>2, <2>3 DEF TriggerWanted
<1> QED BY <1>1, <1>3, Assemble DEF TriggerWanted

(* A webhook handler that calls execute_arrest.                            *)
LEMMA HookArrestKeeps ==
  ASSUME JusticeInv, TablesInv', Evolves, NEW c \in Character, HookArrest(c)
  PROVE  HookInv' /\ FramesInv'
<1>1. FramesInv'
  BY CallKeeps DEF HookArrest, Arrester
<1>2. [NoHook EXCEPT !.at = "arrest"]
        = [at |-> "arrest", who |-> Nobody, pay |-> 0, row |-> 0]
  BY DEF NoHook
<1>3. hook' = [[NoHook EXCEPT !.at = "arrest"] EXCEPT !.who = c]
  BY DEF HookArrest
<1>4. hook' = [at |-> "arrest", who |-> c, pay |-> 0, row |-> 0]
  BY <1>2, <1>3
<1>5. Len(wanted') \in Nat
  BY Elements DEF TablesInv
<1> QED BY <1>1, <1>4, <1>5 DEF HookInv

LEMMA PullOverStep ==
  ASSUME JusticeInv, NEW c \in Character, PullOver(c)
  PROVE  JusticeInv' /\ Evolves
<1>1. TablesInv' /\ Evolves /\ TablesInv /\ ZeroIsBeingExpired'
  BY Quiet DEF PullOver, HookArrest
<1> QED BY <1>1, HookArrestKeeps, Assemble DEF PullOver, HookArrest

LEMMA OwnTeleportStep ==
  ASSUME JusticeInv, NEW c \in Character, OwnTeleport(c)
  PROVE  JusticeInv' /\ Evolves
<1>1. \E k \in Bounded : Spend(k)
  BY DEF OwnTeleport, Bounded
<1>2. /\ TablesInv' /\ Evolves /\ TablesInv /\ ZeroIsBeingExpired'
      /\ spent' \in [Bounded -> Nat]
  BY <1>1, Quiet DEF OwnTeleport, HookArrest
<1> QED BY <1>2, HookArrestKeeps, Assemble DEF OwnTeleport, HookArrest

LEMMA TeleportEventStep ==
  ASSUME JusticeInv, NEW e \in moved, TeleportEvent(e)
  PROVE  JusticeInv' /\ Evolves
<1>1. /\ TablesInv' /\ Evolves /\ TablesInv /\ ZeroIsBeingExpired' /\ wanted' = wanted
      /\ moved' = moved \ {e} /\ spent' = spent
  BY Quiet DEF TeleportEvent, HookArrest
<1>2. e.who \in Character
  BY DEF JusticeInv, MovedInv
<1>3. MovedInv'
  BY <1>1 DEF JusticeInv, MovedInv, Punished
<1>4. CASE HookArrest(e.who)
  BY <1>1, <1>2, <1>3, <1>4, HookArrestKeeps, Assemble DEF HookArrest
<1>5. CASE UNCHANGED <<rows, jailed, tick, arrest, hook, log, loc, decay, owed>>
  BY <1>1, <1>3, <1>5, Assemble
<1> QED BY <1>4, <1>5 DEF TeleportEvent

LEMMA SetWantedStep ==
  ASSUME JusticeInv, NEW c \in Character, SetWanted(c)
  PROVE  JusticeInv' /\ Evolves
<1>1. \E k \in Bounded : Spend(k)
  BY DEF SetWanted, Bounded
<1>2. /\ TablesInv' /\ Evolves /\ TablesInv /\ ZeroIsBeingExpired' /\ wanted' = wanted
      /\ spent' \in [Bounded -> Nat]
  BY <1>1, Quiet DEF SetWanted
<1>3. [NoLog EXCEPT !.at = "lookup"]
        = [at |-> "lookup", who |-> Nobody, row |-> 0, left |-> 0]
  BY DEF NoLog
<1>4. log' = [[NoLog EXCEPT !.at = "lookup"] EXCEPT !.who = c]
  BY DEF SetWanted
<1>5. log' = [at |-> "lookup", who |-> c, row |-> 0, left |-> 0]
  BY <1>3, <1>4
<1>6. LogInv'
  BY <1>2, <1>5, Tables DEF LogInv
<1> QED BY <1>2, <1>6, Assemble DEF SetWanted

LEMMA LookupWantedStep ==
  ASSUME JusticeInv, LookupWanted
  PROVE  JusticeInv' /\ Evolves
<1> DEFINE i == First(ActiveRows(log.who))
<1>1. TablesInv' /\ Evolves /\ TablesInv /\ ZeroIsBeingExpired' /\ wanted' = wanted
  BY Quiet DEF LookupWanted
<1>2. i \in 0 .. Len(wanted) /\ i \in Nat
  BY <1>1, FirstActive, Tables
<1>3. log = [at |-> log.at, who |-> log.who, row |-> log.row, left |-> log.left]
      /\ log.who \in Character /\ log.left \in Nat
  BY DEF JusticeInv, LogInv, LookupWanted
<1>4. log' = [[log EXCEPT !.at = "save"] EXCEPT !.row = i]
  BY DEF LookupWanted
<1> HIDE DEF i
<1>5. log' = [at |-> "save", who |-> log.who, row |-> i, left |-> log.left]
  BY <1>3, <1>4
<1>6. LogInv'
  BY <1>1, <1>2, <1>3, <1>5 DEF LogInv
<1> QED BY <1>1, <1>6, Assemble DEF LookupWanted

LEMMA LogoutStep ==
  ASSUME JusticeInv, NEW c \in Character, Logout(c)
  PROVE  JusticeInv' /\ Evolves
<1> DEFINE i == First(Chased(c))
<1>1. \E k \in Bounded : Spend(k)
  BY DEF Logout, Bounded
<1>2. /\ TablesInv' /\ Evolves /\ TablesInv /\ ZeroIsBeingExpired' /\ wanted' = wanted
      /\ owed' = owed /\ spent' \in [Bounded -> Nat]
  BY <1>1, Quiet DEF Logout
<1>3. i \in Chased(c)
  BY <1>2, FirstActive DEF Logout
<1>4. /\ i \in 1 .. Len(wanted) /\ wanted[i].active /\ wanted[i].left > 0
      /\ wanted[i].left \in Nat /\ wanted[i].left >= owed[i] /\ i \in Nat /\ i # 0
  BY <1>2, <1>3, Tables DEF Chased, ActiveRows, Pursued, TablesInv, WantedRow
<1>5. log' = [at |-> "logout", who |-> c, row |-> i, left |-> wanted[i].left]
  BY DEF Logout
<1> HIDE DEF i
<1>6. LogInv'
  <2>1. log'.row = i /\ log'.left = wanted[i].left /\ log'.who = c
    BY <1>5
  <2>2. log' \in [at : {"idle", "lookup", "save", "logout"},
                  who : Character \cup {Nobody}, row : Nat, left : Nat]
    BY <1>4, <1>5
  <2>3. Len(wanted') = Len(wanted) /\ Len(wanted) \in Nat
    BY <1>2, Tables
  <2> QED BY <1>2, <1>4, <2>1, <2>2, <2>3 DEF LogInv
<1>7. FramesInv'
  <2>1. CASE Call("log", c)
    BY <1>2, <2>1, CallKeeps DEF Arrester
  <2>2. CASE Frame("log", [NoFrame EXCEPT !.at = "failed", !.who = c])
    BY <1>2, <2>2, FrameBegins DEF Arrester
  <2> QED BY <2>1, <2>2 DEF Logout
<1> QED BY <1>2, <1>6, <1>7, Assemble DEF Logout

LEMMA LocReadStep ==
  ASSUME JusticeInv, LocRead
  PROVE  JusticeInv' /\ Evolves
<1>1. TablesInv' /\ Evolves /\ TablesInv /\ ZeroIsBeingExpired'
  BY Quiet DEF LocRead
<1>2. LocInv'
  BY DEF LocRead, LocInv, JusticeInv, RestInv
<1> QED BY <1>1, <1>2, Assemble DEF LocRead

LEMMA LocCheckStep ==
  ASSUME JusticeInv, NEW c \in Character, LocCheck(c)
  PROVE  JusticeInv' /\ Evolves
<1>1. spent' = spent \/ \E k \in Bounded : Spend(k)
  BY DEF LocCheck, Bounded
<1>2. /\ TablesInv' /\ Evolves /\ TablesInv /\ ZeroIsBeingExpired' /\ wanted' = wanted
      /\ spent' \in [Bounded -> Nat]
  BY <1>1, Quiet DEF LocCheck
<1>3. LocInv'
  <2> DEFINE m == [loc.mem EXCEPT ![c] = Release(@)]
  <2>1. loc = [at |-> loc.at, mem |-> loc.mem, todo |-> loc.todo]
        /\ loc.todo \subseteq Character /\ loc.mem \in [Character -> Sentence]
    BY DEF JusticeInv, LocInv, LocCheck
  <2>2. m \in [Character -> Sentence]
    BY <2>1 DEF Release, Sentence
  <2>3. loc' = [[loc EXCEPT !.todo = @ \ {c}] EXCEPT !.mem = m]
    BY <2>1 DEF LocCheck
  <2> HIDE DEF m
  <2>4. loc' = [at |-> loc.at, mem |-> m, todo |-> loc.todo \ {c}]
    BY <2>1, <2>3
  <2> QED BY <2>1, <2>2, <2>4 DEF LocInv
<1>4. MovedInv'
  <2>1. moved' = moved \/ moved' = moved \cup {[who |-> c, upto |-> 0]}
    BY DEF LocCheck
  <2>2. Punished(c, 0) /\ 0 \in 0 .. Len(wanted)
    BY <1>2, Tables DEF Punished
  <2> QED BY <1>2, <2>1, <2>2 DEF JusticeInv, MovedInv, Punished
<1>5. arrest' = arrest \/ FramesInv'
  BY <1>2, CallKeeps DEF LocCheck, Arrester
<1> QED BY <1>2, <1>3, <1>4, <1>5, Assemble DEF LocCheck

LEMMA LocWriteStep ==
  ASSUME JusticeInv, LocWrite
  PROVE  JusticeInv' /\ Evolves
<1>1. TablesInv' /\ Evolves /\ TablesInv /\ ZeroIsBeingExpired'
  BY Quiet DEF LocWrite
<1>2. jailed' \in [Character -> Sentence]
  BY DEF LocWrite, JusticeInv, LocInv
<1>3. LocInv'
  BY DEF LocWrite, LocInv, NoLoc
<1> QED BY <1>1, <1>2, <1>3, Assemble DEF LocWrite

LEMMA DecayReadStep ==
  ASSUME JusticeInv, DecayRead
  PROVE  JusticeInv' /\ Evolves
<1>1. TablesInv' /\ Evolves /\ TablesInv /\ ZeroIsBeingExpired' /\ record' = record
  BY Quiet DEF DecayRead
<1>2. PICK S \in SUBSET {r \in DOMAIN record : record[r].active /\ record[r].conf > 0} :
        decay' = [r \in S |-> record[r].conf]
  BY DEF DecayRead
<1>3. \A r \in S : /\ r \in 1 .. Len(record) /\ record[r].conf \in Nat \ {0}
                   /\ record[r].conf <= record[r].amount
  BY <1>1, Tables DEF TablesInv, RecordRow
<1>4. DecayInv'
  BY <1>1, <1>2, <1>3 DEF DecayInv
<1> QED BY <1>1, <1>4, Assemble DEF DecayRead

LEMMA SentenceOverStep ==
  ASSUME JusticeInv, NEW c \in Character, SentenceOver(c)
  PROVE  JusticeInv' /\ Evolves
<1>1. TablesInv' /\ Evolves /\ TablesInv /\ ZeroIsBeingExpired'
  BY Quiet DEF SentenceOver
<1>2. jailed' \in [Character -> Sentence]
  BY DEF SentenceOver, JusticeInv, RestInv, Sentence
<1>3. loc' = loc \/ LocInv'
  <2> SUFFICES ASSUME loc.at = "walk", loc' = [loc EXCEPT !.mem[c] = "over"]
               PROVE  LocInv'
    BY DEF SentenceOver
  <2>1. loc = [at |-> loc.at, mem |-> loc.mem, todo |-> loc.todo]
        /\ loc.todo \subseteq Character /\ loc.mem \in [Character -> Sentence]
    BY DEF JusticeInv, LocInv
  <2>2. loc' = [at |-> loc.at, mem |-> [loc.mem EXCEPT ![c] = "over"], todo |-> loc.todo]
    BY <2>1
  <2>3. [loc.mem EXCEPT ![c] = "over"] \in [Character -> Sentence]
    BY <2>1 DEF Sentence
  <2> QED BY <2>1, <2>2, <2>3 DEF LocInv
<1> QED BY <1>1, <1>2, <1>3, Assemble DEF SentenceOver

LEMMA CrashStep ==
  ASSUME JusticeInv, Crash
  PROVE  JusticeInv' /\ Evolves
<1>1. TablesInv' /\ Evolves /\ TablesInv
  BY Still DEF Crash, JusticeInv
<1>2. spent' \in [Bounded -> Nat] /\ spent'["crash"] # 0
  <2>1. spent \in [Bounded -> Nat] /\ "crash" \in Bounded
    BY DEF JusticeInv, RestInv, Bounded
  <2>2. spent' = [spent EXCEPT !["crash"] = spent["crash"] + 1]
    BY DEF Crash, Spend
  <2> QED BY <2>1, <2>2
<1>3. ZeroIsBeingExpired'
  BY <1>2 DEF ZeroIsBeingExpired
<1>4. Len(wanted') \in Nat /\ Len(record') \in Nat
  BY Elements DEF Crash, TablesInv
<1>5. TicksInv'
  BY <1>4 DEF Crash, TicksInv, TickFits, NoTick
<1>6. FramesInv'
  BY <1>4 DEF Crash, FramesInv, FrameFits, FrameType, NoFrame
<1>7. HookInv' /\ LogInv' /\ LocInv' /\ DecayInv'
  BY <1>4 DEF Crash, HookInv, LogInv, LocInv, DecayInv, NoHook, NoLog, NoLoc
<1> QED BY <1>1, <1>2, <1>3, <1>5, <1>6, <1>7, Assemble DEF Crash

-----------------------------------------------------------------------------
(* Steps that write wanted rows.                                           *)
LEMMA CreateEvolves ==
  ASSUME JusticeInv, NEW c \in Character, CreateWanted(c),
         UNCHANGED <<record, tick, spent>>
  PROVE  TablesInv' /\ Evolves /\ ZeroIsBeingExpired'
<1> DEFINE w == [who |-> c, left |-> Initial, active |-> TRUE]
<1>1. TablesInv /\ Len(wanted) \in Nat /\ w \in WantedRow /\ Initial \in 0 .. Initial
      /\ owed \in Seq(0 .. Initial) /\ Len(owed) = Len(wanted) /\ wanted \in Seq(WantedRow)
  BY Tables, Numbers DEF JusticeInv, TablesInv, WantedRow
<1>2. wanted' = Append(wanted, w) /\ owed' = Append(owed, Initial)
  BY DEF CreateWanted
<1>3. w.left = Initial /\ w.active
  OBVIOUS
<1> HIDE DEF w
<1>4. /\ wanted' \in Seq(WantedRow) /\ Len(wanted') = Len(wanted) + 1
      /\ wanted'[Len(wanted) + 1] = w
      /\ \A i \in 1 .. Len(wanted) : wanted'[i] = wanted[i]
  BY <1>1, <1>2, AppendProperties
<1>5. /\ owed' \in Seq(0 .. Initial) /\ Len(owed') = Len(wanted) + 1
      /\ owed'[Len(wanted) + 1] = Initial
      /\ \A i \in 1 .. Len(wanted) : owed'[i] = owed[i]
  BY <1>1, <1>2, AppendProperties
<1>6. \A i \in 1 .. Len(wanted') : i \in 1 .. Len(wanted) \/ i = Len(wanted) + 1
  BY <1>1, <1>4
<1>7. \A i \in 1 .. Len(wanted') : wanted'[i].active => wanted'[i].left >= owed'[i]
  BY <1>1, <1>3, <1>4, <1>5, <1>6, Numbers DEF TablesInv
<1>8. TablesInv'
  BY <1>1, <1>4, <1>5, <1>7 DEF TablesInv
<1>9. \A i \in 1 .. Len(wanted) : owed[i] <= owed[i]
  BY <1>1, Tables, Numbers
<1>10. /\ Len(record) <= Len(record)
       /\ \A r \in 1 .. Len(record) : record[r].amount >= record[r].amount
  BY <1>1, Tables DEF RecordRow
<1>11. Evolves
  BY <1>1, <1>4, <1>5, <1>9, <1>10 DEF Evolves
<1>12. DOMAIN wanted = 1 .. Len(wanted) /\ DOMAIN wanted' = 1 .. Len(wanted')
  BY <1>1, <1>4, Elements
<1>13. \A i \in DOMAIN wanted' : wanted'[i].left = 0 => i \in DOMAIN wanted
  BY <1>3, <1>4, <1>6, <1>12, Numbers
<1>14. ZeroIsBeingExpired'
  BY <1>4, <1>12, <1>13 DEF JusticeInv, ZeroIsBeingExpired, Gone
<1> QED BY <1>8, <1>11, <1>14

LEMMA RefreshEvolves ==
  ASSUME JusticeInv, NEW i \in 1 .. Len(wanted), RefreshWanted(i),
         UNCHANGED <<record, tick, spent>>
  PROVE  TablesInv' /\ Evolves /\ ZeroIsBeingExpired'
<1> DEFINE w == [wanted[i] EXCEPT !.left = Initial]
           o == IF Held(i) THEN 0 ELSE Initial
<1>1. /\ TablesInv /\ Len(wanted) \in Nat /\ wanted[i] \in WantedRow
      /\ DOMAIN wanted = 1 .. Len(wanted) /\ DOMAIN owed = 1 .. Len(wanted)
      /\ wanted \in Seq(WantedRow) /\ owed \in Seq(0 .. Initial)
  BY Tables DEF JusticeInv, TablesInv
<1>2. wanted' = [wanted EXCEPT ![i] = w] /\ owed' = [owed EXCEPT ![i] = o]
  BY DEF RefreshWanted
<1>3. /\ w \in WantedRow /\ w.who = wanted[i].who /\ w.active = wanted[i].active
      /\ w.left = Initial
  BY <1>1, Numbers DEF WantedRow
<1>4. o \in 0 .. Initial /\ o <= Initial /\ (o = 0 \/ ~Held(i))
  BY Numbers
<1> HIDE DEF w, o
<1>5. /\ wanted' \in Seq(WantedRow) /\ owed' \in Seq(0 .. Initial)
      /\ Len(wanted') = Len(wanted) /\ Len(owed') = Len(wanted)
  BY <1>1, <1>2, <1>3, <1>4 DEF TablesInv
<1>6. \A j \in 1 .. Len(wanted) : j # i => wanted'[j] = wanted[j] /\ owed'[j] = owed[j]
  BY <1>1, <1>2
<1>7. wanted'[i] = w /\ owed'[i] = o
  BY <1>1, <1>2
<1>8. \A j \in 1 .. Len(wanted') : wanted'[j].active => wanted'[j].left >= owed'[j]
  BY <1>1, <1>3, <1>4, <1>5, <1>6, <1>7, Numbers DEF TablesInv
<1>9. TablesInv'
  BY <1>1, <1>5, <1>8 DEF TablesInv
<1>10. \A j \in 1 .. Len(wanted) : owed'[j] <= owed[j] \/ ~Held(j)
  <2> TAKE j \in 1 .. Len(wanted)
  <2>1. owed[j] \in 0 .. Initial
    BY <1>1, Tables
  <2>2. CASE j = i
    BY <1>4, <1>7, <2>1, <2>2, Numbers
  <2>3. CASE j # i
    BY <1>6, <2>1, <2>3, Numbers
  <2> QED BY <2>2, <2>3
<1>11. /\ Len(record) <= Len(record)
       /\ \A r \in 1 .. Len(record) : record[r].amount >= record[r].amount
  BY <1>1, Tables DEF RecordRow
<1>12. \A j \in 1 .. Len(wanted) : /\ wanted'[j].who = wanted[j].who
                                   /\ wanted'[j].active => wanted[j].active
  BY <1>3, <1>6, <1>7
<1>13. Evolves
  BY <1>1, <1>5, <1>10, <1>11, <1>12 DEF Evolves
<1>14. DOMAIN wanted' = DOMAIN wanted
  BY <1>1, <1>5, Elements
<1>15. \A j \in DOMAIN wanted' : wanted'[j].left = 0 => wanted'[j] = wanted[j]
  BY <1>1, <1>3, <1>6, <1>7, <1>14, Numbers
<1>16. ZeroIsBeingExpired'
  BY <1>14, <1>15 DEF JusticeInv, ZeroIsBeingExpired, Gone
<1> QED BY <1>9, <1>13, <1>16

LEMMA SaveEvolves ==
  ASSUME JusticeInv, NEW c \in Character, NEW i \in 0 .. Len(wanted), SaveWanted(c, i),
         UNCHANGED <<record, tick, spent>>
  PROVE  TablesInv' /\ Evolves /\ ZeroIsBeingExpired'
<1>1. Len(wanted) \in Nat
  BY Tables DEF JusticeInv
<1> QED BY <1>1, CreateEvolves, RefreshEvolves DEF SaveWanted

LEMMA SaveCrimeStep ==
  ASSUME JusticeInv, SaveCrime
  PROVE  JusticeInv' /\ Evolves
<1>1. hook.who \in Character /\ hook.row \in 0 .. Len(wanted)
  BY DEF JusticeInv, HookInv, SaveCrime
<1>2. TablesInv' /\ Evolves /\ ZeroIsBeingExpired'
  BY <1>1, SaveEvolves DEF SaveCrime
<1>3. HookInv'
  BY <1>2, Elements DEF SaveCrime, HookInv, NoHook, TablesInv
<1> QED BY <1>2, <1>3, Assemble DEF SaveCrime

LEMMA SaveSetWantedStep ==
  ASSUME JusticeInv, SaveSetWanted
  PROVE  JusticeInv' /\ Evolves
<1>1. log.who \in Character /\ log.row \in 0 .. Len(wanted)
  BY DEF JusticeInv, LogInv, SaveSetWanted
<1>2. TablesInv' /\ Evolves /\ ZeroIsBeingExpired'
  BY <1>1, SaveEvolves DEF SaveSetWanted
<1>3. LogInv'
  BY <1>2, Elements DEF SaveSetWanted, LogInv, NoLog, TablesInv
<1> QED BY <1>2, <1>3, Assemble DEF SaveSetWanted

(* Rows rewritten in place.                                                *)
LEMMA RowsRewritten ==
  ASSUME JusticeInv, UNCHANGED record,
         wanted' = [i \in 1 .. Len(wanted) |-> wanted'[i]],
         owed' = [i \in 1 .. Len(wanted) |-> owed'[i]],
         \A i \in 1 .. Len(wanted) :
            /\ wanted'[i] \in WantedRow /\ wanted'[i].who = wanted[i].who
            /\ wanted'[i].active => wanted[i].active
            /\ owed'[i] \in 0 .. owed[i]
            /\ wanted'[i].active => wanted'[i].left >= owed'[i]
  PROVE  /\ TablesInv' /\ Evolves /\ Len(wanted') = Len(wanted)
         /\ DOMAIN wanted' = 1 .. Len(wanted)
<1>1. /\ TablesInv /\ Len(wanted) \in Nat
      /\ \A i \in 1 .. Len(wanted) : owed[i] \in 0 .. Initial
  BY Tables DEF JusticeInv
<1>2. \A i \in 1 .. Len(wanted) : owed'[i] \in 0 .. Initial /\ owed'[i] <= owed[i]
  BY <1>1, Numbers
<1>3. wanted' \in Seq(WantedRow) /\ Len(wanted') = Len(wanted)
  <2> HIDE DEF WantedRow
  <2> QED BY <1>1, Rewritten
<1>4. owed' \in Seq(0 .. Initial) /\ Len(owed') = Len(wanted)
  <2>1. \A i \in 1 .. Len(wanted) : owed'[i] \in 0 .. Initial
    BY <1>2
  <2> QED BY <1>1, <2>1, Rewritten
<1>5. TablesInv'
  BY <1>1, <1>3, <1>4 DEF TablesInv
<1>6. /\ Len(record) <= Len(record)
      /\ \A r \in 1 .. Len(record) : record[r].amount >= record[r].amount
  BY <1>1, Tables DEF RecordRow
<1>7. Evolves
  BY <1>1, <1>2, <1>3, <1>6 DEF Evolves
<1> QED BY <1>3, <1>5, <1>7

LEMMA ExpiredRow ==
  ASSUME NEW i, wanted[i] \in WantedRow
  PROVE  /\ Expired(i) \in WantedRow /\ Expired(i).who = wanted[i].who
         /\ ~Expired(i).active
<1>1. [wanted[i] EXCEPT !.left = 0]
        = [who |-> wanted[i].who, left |-> 0, active |-> wanted[i].active]
  BY DEF WantedRow
<1>2. Expired(i) = [[wanted[i] EXCEPT !.left = 0] EXCEPT !.active = FALSE]
  BY DEF Expired
<1>3. Expired(i) = [who |-> wanted[i].who, left |-> 0, active |-> FALSE]
  BY <1>1, <1>2
<1> QED BY <1>3 DEF WantedRow

(* Some rows expired, the others as they were.                             *)
LEMMA RowsExpired ==
  ASSUME JusticeInv, UNCHANGED <<record, owed>>, NEW S,
         wanted' = [i \in DOMAIN wanted |-> IF i \in S THEN Expired(i) ELSE wanted[i]]
  PROVE  /\ TablesInv' /\ Evolves /\ Len(wanted') = Len(wanted)
         /\ DOMAIN wanted' = 1 .. Len(wanted)
<1>1. /\ TablesInv /\ DOMAIN wanted = 1 .. Len(wanted) /\ DOMAIN owed = 1 .. Len(wanted)
      /\ \A i \in 1 .. Len(wanted) : wanted[i] \in WantedRow /\ owed[i] \in 0 .. Initial
      /\ owed \in Seq(0 .. Initial)
  BY Tables DEF JusticeInv, TablesInv
<1>2. \A i \in 1 .. Len(wanted) : wanted'[i] = (IF i \in S THEN Expired(i) ELSE wanted[i])
  BY <1>1
<1>3. wanted' = [i \in 1 .. Len(wanted) |-> wanted'[i]]
  BY <1>1
<1>4. owed' = [i \in 1 .. Len(wanted) |-> owed'[i]]
  BY <1>1
<1>5. ASSUME NEW i \in 1 .. Len(wanted)
      PROVE  /\ wanted'[i] \in WantedRow /\ wanted'[i].who = wanted[i].who
             /\ wanted'[i].active => wanted[i].active
             /\ owed'[i] \in 0 .. owed[i]
             /\ wanted'[i].active => wanted'[i].left >= owed'[i]
  <2>1. owed'[i] \in 0 .. owed[i]
    BY <1>1, Numbers
  <2>2. CASE i \in S
    BY <1>1, <1>2, <2>1, <2>2, ExpiredRow
  <2>3. CASE i \notin S
    BY <1>1, <1>2, <2>1, <2>3 DEF TablesInv
  <2> QED BY <2>2, <2>3
<1> QED BY <1>3, <1>4, <1>5, RowsRewritten

LEMMA ExpireWantedStep ==
  ASSUME JusticeInv, NEW t \in Arrester, ExpireWanted(t)
  PROVE  JusticeInv' /\ Evolves
<1> DEFINE c == arrest[t].who
           found == ActiveRows(c)
           f == [arrest[t] EXCEPT !.at = "record", !.upto = Len(wanted)]
<1>1. TablesInv /\ FrameFits(arrest[t]) /\ arrest[t] \in FrameType
      /\ arrest[t].at = "expire" /\ c \in Character
  BY FrameIs DEF JusticeInv, ExpireWanted, FrameFits
<1>2. CASE Raise(t) /\ UNCHANGED wanted
  <2>1. TablesInv' /\ Evolves /\ ZeroIsBeingExpired'
    BY <1>2, Quiet DEF ExpireWanted, rows
  <2> QED BY <1>1, <1>2, <2>1, RaiseKeeps, Assemble DEF ExpireWanted
<1>3. CASE /\ wanted' = [i \in DOMAIN wanted |->
                           IF i \in found THEN Expired(i) ELSE wanted[i]]
           /\ Frame(t, f) /\ UNCHANGED <<hook, log>>
  <2>1. TablesInv' /\ Evolves /\ Len(wanted') = Len(wanted)
        /\ DOMAIN wanted' = 1 .. Len(wanted)
    BY <1>3, RowsExpired DEF ExpireWanted
  <2>2. /\ DOMAIN wanted = 1 .. Len(wanted) /\ Len(wanted) \in Nat
        /\ \A i \in 1 .. Len(wanted) : wanted[i] \in WantedRow
    BY <1>1, Tables
  <2>3. \A i \in 1 .. Len(wanted) :
          /\ i \in found => ~wanted'[i].active
          /\ i \notin found => wanted'[i] = wanted[i]
          /\ wanted'[i].who = wanted[i].who
    BY <1>3, <2>2, ExpiredRow
  <2>4. ZeroIsBeingExpired'
    <3>1. \A i \in DOMAIN wanted' : wanted'[i].active => wanted'[i] = wanted[i]
      BY <2>1, <2>3
    <3>2. tick' = tick /\ spent' = spent
      BY DEF ExpireWanted
    <3> QED BY <2>1, <2>2, <3>1, <3>2 DEF JusticeInv, ZeroIsBeingExpired, Gone
  <2>5. \A i \in 1 .. Len(wanted) : wanted'[i].who = c => ~wanted'[i].active
    BY <2>2, <2>3 DEF ActiveRows
  <2>6. f = [[arrest[t] EXCEPT !.at = "record"] EXCEPT !.upto = Len(wanted)]
    OBVIOUS
  <2>7. arrest'[t] = f
    BY <1>3, FrameIs
  <2> HIDE DEF f
  <2>8. f = [at |-> "record", who |-> c, rec |-> arrest[t].rec, amt |-> arrest[t].amt,
             upto |-> Len(wanted)]
    BY <1>1, <2>6 DEF FrameType
  <2>9. /\ f.at = "record" /\ f.who = c /\ f.rec = arrest[t].rec
        /\ f.amt = arrest[t].amt /\ f.upto = Len(wanted)
    BY <2>8
  <2>10. f \in FrameType
    BY <1>1, <2>2, <2>8 DEF FrameType
  <2>11. FrameFits(arrest[t])'
    <3>1. record' = record
      BY DEF ExpireWanted
    <3> QED BY <1>1, <2>1, <2>2, <2>5, <2>7, <2>9, <2>10, <3>1 DEF FrameFits, Punished
  <2>12. FramesInv'
    BY <1>3, <2>1, <2>11, FramesKeep
  <2> QED BY <1>3, <2>1, <2>4, <2>12, Assemble DEF ExpireWanted
<1> QED BY <1>2, <1>3 DEF ExpireWanted

LEMMA TickExpireStep ==
  ASSUME JusticeInv, NEW t \in Tick, TickExpire(t)
  PROVE  JusticeInv' /\ Evolves
<1>1. TablesInv' /\ Evolves /\ Len(wanted') = Len(wanted)
      /\ DOMAIN wanted' = 1 .. Len(wanted)
  BY RowsExpired DEF TickExpire
<1>2. TablesInv /\ DOMAIN wanted = 1 .. Len(wanted) /\ Len(wanted) \in Nat
      /\ \A i \in 1 .. Len(wanted) : wanted[i] \in WantedRow
  BY Tables DEF JusticeInv
<1>3. tick' = [tick EXCEPT ![t] = NoTick] /\ spent' = spent /\ DOMAIN tick = Tick
  BY DEF TickExpire, JusticeInv, TicksInv
<1>4. tick'[t] = NoTick /\ \A u \in Tick \ {t} : tick'[u] = tick[u]
  BY <1>3
<1>5. TickFits(tick[t])'
  BY <1>1, <1>2, <1>4 DEF TickFits, NoTick
<1>6. TicksInv'
  BY <1>1, <1>3, <1>5, TicksKeep
<1>7. \A i \in 1 .. Len(wanted) : wanted'[i].active => wanted'[i] = wanted[i] /\ i \notin Gone(t)
  BY <1>2, ExpiredRow DEF TickExpire
<1>8. ZeroIsBeingExpired'
  <2> SUFFICES ASSUME spent["crash"] = 0, NEW i \in DOMAIN wanted',
                      wanted'[i].active, wanted'[i].left = 0
               PROVE  \E u \in Tick : tick'[u].at = "expire" /\ i \in Gone(u)'
    BY <1>3 DEF ZeroIsBeingExpired
  <2>1. PICK u \in Tick : tick[u].at = "expire" /\ i \in Gone(u)
    BY <1>1, <1>2, <1>7 DEF JusticeInv, ZeroIsBeingExpired
  <2>2. u # t
    BY <1>1, <1>7, <2>1
  <2> QED BY <1>4, <2>1, <2>2 DEF Gone
<1> QED BY <1>1, <1>6, <1>8, Assemble DEF TickExpire

(* A decay takes one from what the tick holds, or nothing.                 *)
LEMMA LeftBounds ==
  ASSUME NEW t, NEW i, NEW slow, NEW near, tick[t].snap[i] \in Nat
  PROVE  /\ Left(t, i, slow, near) \in Nat
         /\ Left(t, i, slow, near) >= tick[t].snap[i] - 1
BY DEF Left, Greatest, EscapeFloor

LEMMA TickWriteStep ==
  ASSUME JusticeInv, NEW t \in Tick, NEW slow, NEW near, TickWrite(t, slow, near)
  PROVE  JusticeInv' /\ Evolves
<1> DEFINE snap == tick[t].snap
           left == [i \in DOMAIN snap |-> Left(t, i, slow, near)]
           k == IF \E i \in DOMAIN snap : left[i] = 0
                THEN [at |-> "expire", snap |-> left, todo |-> {}] ELSE NoTick
<1>1. /\ TablesInv /\ DOMAIN wanted = 1 .. Len(wanted) /\ DOMAIN owed = 1 .. Len(wanted)
      /\ Len(wanted) \in Nat
      /\ \A i \in 1 .. Len(wanted) : wanted[i] \in WantedRow /\ owed[i] \in 0 .. Initial
  BY Tables DEF JusticeInv
<1>2. TickFits(tick[t]) /\ DOMAIN tick = Tick
  BY DEF JusticeInv, TicksInv
<1>3. /\ wanted' = [i \in DOMAIN wanted |->
                      IF i \in DOMAIN snap THEN [wanted[i] EXCEPT !.left = left[i]]
                      ELSE wanted[i]]
      /\ tick' = [tick EXCEPT ![t] = k]
      /\ owed' = [i \in DOMAIN owed |->
                    IF i \in DOMAIN snap /\ left[i] < snap[i]
                    THEN Greatest(0, owed[i] - 1) ELSE owed[i]]
      /\ record' = record /\ spent' = spent /\ tick[t].at = "walk"
  BY DEF TickWrite
<1>4. \A i \in DOMAIN snap : /\ i \in 1 .. Len(wanted) /\ snap[i] \in Nat
                             /\ snap[i] >= owed[i]
  BY <1>2 DEF TickFits
<1>5. \A i \in DOMAIN snap : left[i] \in Nat /\ left[i] >= snap[i] - 1
  BY <1>4, LeftBounds
<1>6. DOMAIN left = DOMAIN snap /\ left = [i \in DOMAIN left |-> left[i]]
  OBVIOUS
<1> HIDE DEF left
<1>7. ASSUME NEW i \in 1 .. Len(wanted)
      PROVE  /\ owed'[i] \in 0 .. owed[i]
             /\ i \in DOMAIN snap => left[i] >= owed'[i]
             /\ i \notin DOMAIN snap => owed'[i] = owed[i]
  <2>1. owed'[i] = IF i \in DOMAIN snap /\ left[i] < snap[i]
                   THEN Greatest(0, owed[i] - 1) ELSE owed[i]
    BY <1>1, <1>3
  <2>2. owed[i] \in Nat
    BY <1>1, Numbers
  <2>3. CASE i \in DOMAIN snap
    <3>1. snap[i] \in Nat /\ snap[i] >= owed[i] /\ left[i] \in Nat /\ left[i] >= snap[i] - 1
      BY <1>4, <1>5, <2>3
    <3>2. CASE left[i] < snap[i]
      BY <2>1, <2>2, <2>3, <3>1, <3>2 DEF Greatest
    <3>3. CASE ~(left[i] < snap[i])
      <4>1. owed'[i] = owed[i]
        BY <2>1, <3>3
      <4> QED BY <2>2, <2>3, <3>1, <3>3, <4>1
    <3> QED BY <3>2, <3>3
  <2>4. CASE i \notin DOMAIN snap
    BY <2>1, <2>2, <2>4
  <2> QED BY <2>3, <2>4
<1>8. ASSUME NEW i \in 1 .. Len(wanted)
      PROVE  /\ wanted'[i] \in WantedRow /\ wanted'[i].who = wanted[i].who
             /\ wanted'[i].active = wanted[i].active
             /\ i \in DOMAIN snap => wanted'[i].left = left[i]
             /\ i \notin DOMAIN snap => wanted'[i] = wanted[i]
  <2>1. CASE i \in DOMAIN snap
    <3>1. wanted'[i] = [wanted[i] EXCEPT !.left = left[i]]
      BY <1>1, <1>3, <2>1
    <3>2. wanted'[i] = [who |-> wanted[i].who, left |-> left[i], active |-> wanted[i].active]
      BY <1>1, <3>1 DEF WantedRow
    <3> QED BY <1>1, <1>5, <2>1, <3>2 DEF WantedRow
  <2>2. CASE i \notin DOMAIN snap
    BY <1>1, <1>3, <2>2
  <2> QED BY <2>1, <2>2
<1>9. wanted' = [i \in 1 .. Len(wanted) |-> wanted'[i]]
      /\ owed' = [i \in 1 .. Len(wanted) |-> owed'[i]]
  BY <1>1, <1>3
<1>10. \A i \in 1 .. Len(wanted) : wanted'[i].active => wanted'[i].left >= owed'[i]
  BY <1>1, <1>7, <1>8 DEF TablesInv
<1>11. TablesInv' /\ Evolves /\ Len(wanted') = Len(wanted)
       /\ DOMAIN wanted' = 1 .. Len(wanted)
  BY <1>3, <1>7, <1>8, <1>9, <1>10, RowsRewritten
<1>12. tick'[t] = k /\ \A u \in Tick \ {t} : tick'[u] = tick[u]
  BY <1>2, <1>3
<1>13. TickFits(tick[t])'
  <2>1. CASE \E i \in DOMAIN snap : left[i] = 0
    <3>1. tick'[t] = [at |-> "expire", snap |-> left, todo |-> {}]
      BY <1>12, <2>1
    <3>2. \A i \in DOMAIN left : i \in 1 .. Len(wanted) /\ left[i] \in Nat
                                 /\ left[i] >= owed'[i]
      BY <1>4, <1>5, <1>6, <1>7
    <3> QED BY <1>6, <1>11, <3>1, <3>2 DEF TickFits
  <2>2. CASE ~(\E i \in DOMAIN snap : left[i] = 0)
    <3>1. tick'[t] = NoTick
      BY <1>12, <2>2
    <3> QED BY <1>1, <1>11, <3>1 DEF TickFits, NoTick
  <2> QED BY <2>1, <2>2
<1>14. TicksInv'
  BY <1>3, <1>11, <1>13, TicksKeep
<1>15. ZeroIsBeingExpired'
  <2> SUFFICES ASSUME spent["crash"] = 0, NEW i \in DOMAIN wanted',
                      wanted'[i].active, wanted'[i].left = 0
               PROVE  \E u \in Tick : tick'[u].at = "expire" /\ i \in Gone(u)'
    BY <1>3 DEF ZeroIsBeingExpired
  <2>1. i \in 1 .. Len(wanted)
    BY <1>11
  <2>2. CASE i \in DOMAIN snap
    <3>1. left[i] = 0
      BY <1>8, <2>1, <2>2
    <3>2. tick'[t] = [at |-> "expire", snap |-> left, todo |-> {}]
      BY <1>12, <2>2, <3>1
    <3> QED BY <1>6, <2>2, <3>1, <3>2 DEF Gone
  <2>3. CASE i \notin DOMAIN snap
    <3>1. wanted[i].active /\ wanted[i].left = 0
      BY <1>8, <2>1, <2>3
    <3>2. PICK u \in Tick : tick[u].at = "expire" /\ i \in Gone(u)
      BY <1>1, <2>1, <3>1 DEF JusticeInv, ZeroIsBeingExpired
    <3>3. u # t
      BY <1>3, <3>2
    <3> QED BY <1>12, <3>2, <3>3 DEF Gone
  <2> QED BY <2>2, <2>3
<1> QED BY <1>11, <1>14, <1>15, Assemble DEF TickWrite

LEMMA LogoutHeatStep ==
  ASSUME JusticeInv, LogoutHeat
  PROVE  JusticeInv' /\ Evolves
<1> DEFINE i == log.row
           n == Least(5 * Initial, log.left + Heat)
<1>1. /\ TablesInv /\ DOMAIN wanted = 1 .. Len(wanted) /\ DOMAIN owed = 1 .. Len(wanted)
      /\ Len(wanted) \in Nat
      /\ \A j \in 1 .. Len(wanted) : wanted[j] \in WantedRow /\ owed[j] \in 0 .. Initial
      /\ wanted \in Seq(WantedRow) /\ owed \in Seq(0 .. Initial)
  BY Tables DEF JusticeInv, TablesInv
<1>2. /\ i \in 1 .. Len(wanted) /\ log.left \in Nat /\ log.left > 0 /\ log.left >= owed[i]
  BY <1>1 DEF JusticeInv, LogInv, LogoutHeat
<1>3. /\ wanted' = [wanted EXCEPT ![i].left = n] /\ owed' = owed /\ record' = record
      /\ spent' = spent /\ tick' = tick
  BY DEF LogoutHeat
<1>4. n \in Nat /\ n > 0 /\ n >= owed[i]
  <2>1. owed[i] \in 0 .. Initial
    BY <1>1, <1>2
  <2>2. 5 * Initial \in Nat /\ 5 * Initial >= Initial
    BY Numbers
  <2> QED BY <1>2, <2>1, <2>2, Numbers DEF Least
<1> HIDE DEF n, i
<1>5. ASSUME NEW j \in 1 .. Len(wanted)
      PROVE  /\ wanted'[j] \in WantedRow /\ wanted'[j].who = wanted[j].who
             /\ wanted'[j].active => wanted[j].active
             /\ wanted'[j].left = 0 => wanted'[j] = wanted[j]
             /\ owed'[j] \in 0 .. owed[j]
             /\ wanted'[j].active => wanted'[j].left >= owed'[j]
  <2>1. owed'[j] \in 0 .. owed[j]
    BY <1>1, <1>3, Numbers
  <2>2. CASE j = i
    <3>1. wanted'[j] = [wanted[j] EXCEPT !.left = n]
      BY <1>1, <1>3, <2>2
    <3>2. wanted'[j] = [who |-> wanted[j].who, left |-> n, active |-> wanted[j].active]
      BY <1>1, <3>1 DEF WantedRow
    <3> QED BY <1>1, <1>3, <1>4, <2>1, <2>2, <3>2 DEF WantedRow
  <2>3. CASE j # i
    BY <1>1, <1>3, <2>1, <2>3 DEF TablesInv
  <2> QED BY <2>2, <2>3
<1>6. wanted' = [j \in 1 .. Len(wanted) |-> wanted'[j]]
      /\ owed' = [j \in 1 .. Len(wanted) |-> owed'[j]]
  <2>1. owed' = [j \in 1 .. Len(wanted) |-> owed'[j]]
    BY <1>1, <1>3
  <2>2. wanted' = [j \in DOMAIN wanted' |-> wanted'[j]] /\ DOMAIN wanted' = DOMAIN wanted
    BY <1>1, <1>3
  <2> QED BY <1>1, <2>1, <2>2
<1>7. TablesInv' /\ Evolves /\ Len(wanted') = Len(wanted)
      /\ DOMAIN wanted' = 1 .. Len(wanted)
  BY <1>3, <1>5, <1>6, RowsRewritten
<1>8. ZeroIsBeingExpired'
  BY <1>1, <1>3, <1>5, <1>7 DEF JusticeInv, ZeroIsBeingExpired, Gone
<1>9. FramesInv' /\ LogInv'
  <2>1. Frame("log", NoFrame) /\ "log" \in Arrester /\ log' = NoLog
    BY DEF LogoutHeat, Arrester
  <2>2. Len(wanted') \in Nat /\ Len(record') \in Nat
    BY <1>7, Elements DEF TablesInv
  <2>3. FrameFits(arrest["log"])'
    <3>1. arrest'["log"] = NoFrame
      BY <2>1, FrameIs
    <3> QED BY <2>2, <3>1 DEF FrameFits, FrameType, NoFrame
  <2>4. FramesInv'
    BY <1>7, <2>1, <2>3, FramesKeep
  <2> QED BY <2>1, <2>2, <2>4 DEF LogInv, NoLog
<1> QED BY <1>7, <1>8, <1>9, Assemble DEF LogoutHeat

-----------------------------------------------------------------------------
(* Steps that write criminal records.                                      *)
LEMMA RecordsRewritten ==
  ASSUME JusticeInv, UNCHANGED <<wanted, owed, tick>>,
         spent' = spent \/ \E k \in Bounded : Spend(k),
         record' \in Seq(RecordRow), Len(record) <= Len(record'),
         \A r \in 1 .. Len(record) : /\ record'[r].active => record[r].active
                                     /\ record'[r].amount >= record[r].amount,
         \A r \in 1 .. Len(record') : record'[r].conf <= record'[r].amount
  PROVE  /\ TablesInv' /\ Evolves /\ ZeroIsBeingExpired'
         /\ spent' \in [Bounded -> Nat]
<1>1. spent' \in [Bounded -> Nat] /\ (spent'["crash"] = 0 => spent["crash"] = 0)
  BY Spent DEF JusticeInv, RestInv
<1>2. TablesInv /\ Len(wanted) \in Nat
      /\ \A i \in 1 .. Len(wanted) : owed[i] \in 0 .. Initial
  BY Tables DEF JusticeInv
<1>3. TablesInv'
  BY <1>2 DEF TablesInv
<1>4. Len(wanted) <= Len(wanted) /\ \A i \in 1 .. Len(wanted) : owed[i] <= owed[i]
  BY <1>2, Numbers
<1>5. Evolves
  BY <1>4 DEF Evolves
<1>6. ZeroIsBeingExpired'
  BY <1>1, ZeroStays
<1> QED BY <1>1, <1>3, <1>5, <1>6

LEMMA EnsureKeeps ==
  ASSUME TablesInv, NEW c \in Character, EnsureRecord(c)
  PROVE  /\ record' \in Seq(RecordRow) /\ Len(record) <= Len(record')
         /\ \A r \in 1 .. Len(record) : /\ record'[r].active => record[r].active
                                        /\ record'[r].amount >= record[r].amount
         /\ \A r \in 1 .. Len(record') : record'[r].conf <= record'[r].amount
<1> DEFINE x == [who |-> c, amount |-> 0, conf |-> 0, active |-> TRUE]
<1>1. /\ record \in Seq(RecordRow) /\ Len(record) \in Nat
      /\ \A r \in 1 .. Len(record) : /\ record[r] \in RecordRow /\ record[r].amount \in Nat
                                     /\ record[r].conf <= record[r].amount
  BY Tables DEF TablesInv, RecordRow
<1>2. x \in RecordRow /\ x.conf <= x.amount
  BY DEF RecordRow
<1>3. record' = record \/ record' = Append(record, x)
  BY DEF EnsureRecord
<1>4. \A r \in 1 .. Len(record) : record[r].amount >= record[r].amount
  BY <1>1
<1> HIDE DEF x
<1>5. CASE record' = record
  BY <1>1, <1>4, <1>5
<1>6. CASE record' = Append(record, x)
  <2>1. /\ record' \in Seq(RecordRow) /\ Len(record') = Len(record) + 1
        /\ record'[Len(record) + 1] = x
        /\ \A r \in 1 .. Len(record) : record'[r] = record[r]
    BY <1>1, <1>2, <1>6, AppendProperties
  <2>2. \A r \in 1 .. Len(record') : r \in 1 .. Len(record) \/ r = Len(record) + 1
    BY <1>1, <2>1
  <2> QED BY <1>1, <1>2, <1>4, <2>1, <2>2
<1> QED BY <1>3, <1>5, <1>6

LEMMA DeliverStep ==
  ASSUME JusticeInv, NEW c \in Character, NEW p \in Payments, Deliver(c, p)
  PROVE  JusticeInv' /\ Evolves
<1>1. \E k \in Bounded : Spend(k)
  BY DEF Deliver, Bounded
<1>2. /\ TablesInv' /\ Evolves /\ ZeroIsBeingExpired'
      /\ spent' \in [Bounded -> Nat]
  BY <1>1, EnsureKeeps, RecordsRewritten DEF Deliver, JusticeInv
<1>3. HookInv'
  <2>1. hook' = [at |-> "accumulate", who |-> c, pay |-> p, row |-> 0] /\ p \in Nat
    BY Numbers DEF Deliver
  <2>2. Len(wanted') \in Nat
    BY <1>2, Elements DEF TablesInv
  <2> QED BY <2>1, <2>2 DEF HookInv
<1> QED BY <1>2, <1>3, Assemble DEF Deliver

LEMMA IncriminateStep ==
  ASSUME JusticeInv, NEW c \in Character, Incriminate(c)
  PROVE  JusticeInv' /\ Evolves
<1>1. \E k \in Bounded : Spend(k)
  BY DEF Incriminate, Bounded
<1>2. /\ TablesInv' /\ Evolves /\ ZeroIsBeingExpired'
      /\ spent' \in [Bounded -> Nat]
  BY <1>1, EnsureKeeps, RecordsRewritten DEF Incriminate, JusticeInv
<1> QED BY <1>2, Assemble DEF Incriminate

LEMMA AccumulateStep ==
  ASSUME JusticeInv, Accumulate
  PROVE  JusticeInv' /\ Evolves
<1> DEFINE S == ActiveRecords(hook.who)
           g(r) == [record[r] EXCEPT !.amount = @ + hook.pay, !.conf = @ + hook.pay]
<1>1. /\ TablesInv /\ DOMAIN record = 1 .. Len(record) /\ Len(record) \in Nat
      /\ \A r \in 1 .. Len(record) : /\ record[r] \in RecordRow
                                     /\ record[r].conf <= record[r].amount
  BY Tables DEF JusticeInv, TablesInv
<1>2. hook.pay \in Nat /\ hook.who \in Character
      /\ hook = [at |-> hook.at, who |-> hook.who, pay |-> hook.pay, row |-> hook.row]
      /\ hook.row \in 0 .. Len(wanted) /\ hook.row \in Nat
  BY DEF JusticeInv, HookInv, Accumulate
<1>3. record' = [r \in 1 .. Len(record) |-> IF r \in S THEN g(r) ELSE record[r]]
  BY <1>1 DEF Accumulate
<1>4. ASSUME NEW r \in 1 .. Len(record)
      PROVE  /\ record'[r] \in RecordRow /\ record'[r].active = record[r].active
             /\ record'[r].amount >= record[r].amount
             /\ record'[r].conf <= record'[r].amount
  <2>1. record[r] \in RecordRow /\ record[r].amount \in Nat /\ record[r].conf \in Nat
        /\ record[r].conf <= record[r].amount
    BY <1>1 DEF RecordRow
  <2>2. CASE r \in S
    <3>1. record'[r] = g(r)
      BY <1>3, <2>2
    <3>2. g(r) = [[record[r] EXCEPT !.amount = @ + hook.pay]
                    EXCEPT !.conf = record[r].conf + hook.pay]
      BY <2>1 DEF RecordRow
    <3>3. [record[r] EXCEPT !.amount = @ + hook.pay]
            = [who |-> record[r].who, amount |-> record[r].amount + hook.pay,
               conf |-> record[r].conf, active |-> record[r].active]
      BY <2>1 DEF RecordRow
    <3> HIDE DEF g
    <3>4. record'[r] = [who |-> record[r].who, amount |-> record[r].amount + hook.pay,
                        conf |-> record[r].conf + hook.pay, active |-> record[r].active]
      BY <3>1, <3>2, <3>3
    <3>5. /\ record'[r].active = record[r].active
          /\ record'[r].amount = record[r].amount + hook.pay
          /\ record'[r].conf = record[r].conf + hook.pay
      BY <3>4
    <3>6. record'[r] \in RecordRow
      BY <1>2, <2>1, <3>4 DEF RecordRow
    <3> QED BY <1>2, <2>1, <3>5, <3>6
  <2>3. CASE r \notin S
    <3>1. record'[r] = record[r]
      BY <1>3, <2>3
    <3> QED BY <2>1, <3>1
  <2> QED BY <2>2, <2>3
<1>5. record' \in Seq(RecordRow) /\ Len(record') = Len(record)
  <2>1. record' = [r \in 1 .. Len(record) |-> record'[r]]
    BY <1>3
  <2> HIDE DEF RecordRow
  <2> QED BY <1>1, <1>4, <2>1, Rewritten
<1>6. /\ TablesInv' /\ Evolves /\ ZeroIsBeingExpired'
      /\ spent' \in [Bounded -> Nat]
  <2>1. Len(record) <= Len(record')
    BY <1>1, <1>5
  <2>2. UNCHANGED <<wanted, owed, tick>> /\ spent' = spent
    BY DEF Accumulate
  <2> QED BY <1>4, <1>5, <2>1, <2>2, RecordsRewritten
<1>7. HookInv'
  <2>1. wanted' = wanted
    BY DEF Accumulate
  <2>2. CASE hook' = [hook EXCEPT !.at = "wanted"]
    <3>1. hook' = [at |-> "wanted", who |-> hook.who, pay |-> hook.pay, row |-> hook.row]
      BY <1>2, <2>2
    <3> QED BY <1>2, <2>1, <3>1 DEF HookInv
  <2>3. CASE hook' = NoHook
    <3>1. Len(wanted) \in Nat
      BY <1>1, Tables
    <3> QED BY <2>1, <2>3, <3>1 DEF HookInv, NoHook
  <2> QED BY <2>2, <2>3 DEF Accumulate
<1> QED BY <1>6, <1>7, Assemble DEF Accumulate

LEMMA DecayWriteStep ==
  ASSUME JusticeInv, DecayWrite
  PROVE  JusticeInv' /\ Evolves
<1>1. /\ TablesInv /\ DOMAIN record = 1 .. Len(record) /\ Len(record) \in Nat
      /\ \A r \in 1 .. Len(record) : /\ record[r] \in RecordRow
                                     /\ record[r].conf <= record[r].amount
  BY Tables DEF JusticeInv, TablesInv
<1>2. record' = [r \in 1 .. Len(record) |->
                   IF r \in DOMAIN decay
                   THEN [record[r] EXCEPT !.conf = Decayed(decay[r])] ELSE record[r]]
  BY <1>1 DEF DecayWrite
<1>3. ASSUME NEW r \in 1 .. Len(record)
      PROVE  /\ record'[r] \in RecordRow /\ record'[r].active = record[r].active
             /\ record'[r].amount >= record[r].amount
             /\ record'[r].conf <= record'[r].amount
  <2>1. record[r] \in RecordRow /\ record[r].amount \in Nat
        /\ record[r].conf <= record[r].amount
    BY <1>1 DEF RecordRow
  <2>2. CASE r \in DOMAIN decay
    <3>1. Decayed(decay[r]) \in Nat /\ Decayed(decay[r]) <= record[r].amount
      BY <2>1, <2>2 DEF JusticeInv, DecayInv, Decayed
    <3>2. record'[r] = [record[r] EXCEPT !.conf = Decayed(decay[r])]
      BY <1>2, <2>2
    <3> HIDE DEF Decayed
    <3>3. record'[r] = [who |-> record[r].who, amount |-> record[r].amount,
                        conf |-> Decayed(decay[r]), active |-> record[r].active]
      BY <2>1, <3>2 DEF RecordRow
    <3>4. record'[r] \in RecordRow
      BY <2>1, <3>1, <3>3 DEF RecordRow
    <3> QED BY <2>1, <3>1, <3>3, <3>4
  <2>3. CASE r \notin DOMAIN decay
    <3>1. record'[r] = record[r]
      BY <1>2, <2>3
    <3> QED BY <2>1, <3>1
  <2> QED BY <2>2, <2>3
<1>4. record' \in Seq(RecordRow) /\ Len(record') = Len(record)
  <2>1. record' = [r \in 1 .. Len(record) |-> record'[r]]
    BY <1>2
  <2> HIDE DEF RecordRow
  <2> QED BY <1>1, <1>3, <2>1, Rewritten
<1>5. /\ TablesInv' /\ Evolves /\ ZeroIsBeingExpired'
      /\ spent' \in [Bounded -> Nat]
  <2>1. Len(record) <= Len(record')
    BY <1>1, <1>4
  <2>2. UNCHANGED <<wanted, owed, tick>> /\ spent' = spent
    BY DEF DecayWrite
  <2> QED BY <1>3, <1>4, <2>1, <2>2, RecordsRewritten
<1>6. DecayInv'
  BY DEF DecayWrite, DecayInv
<1> QED BY <1>5, <1>6, Assemble DEF DecayWrite

LEMMA ClosedRow ==
  ASSUME NEW y \in RecordRow
  PROVE  /\ [y EXCEPT !.active = FALSE] \in RecordRow
         /\ [y EXCEPT !.active = FALSE].amount = y.amount
         /\ [y EXCEPT !.active = FALSE].conf = y.conf
         /\ ~[y EXCEPT !.active = FALSE].active
BY DEF RecordRow

LEMMA CloseRecordStep ==
  ASSUME JusticeInv, NEW t \in Arrester, CloseRecord(t)
  PROVE  JusticeInv' /\ Evolves
<1> DEFINE r == arrest[t].rec
           x == [record[r] EXCEPT !.active = FALSE]
           f == [arrest[t] EXCEPT !.at = "teleport"]
<1>1. /\ TablesInv /\ DOMAIN record = 1 .. Len(record) /\ Len(record) \in Nat
      /\ record \in Seq(RecordRow)
      /\ \A q \in 1 .. Len(record) : /\ record[q] \in RecordRow /\ record[q].amount \in Nat
                                     /\ record[q].conf <= record[q].amount
  BY Tables DEF JusticeInv, TablesInv, RecordRow
<1>2. FrameFits(arrest[t]) /\ arrest[t] \in FrameType /\ arrest[t].at = "close"
      /\ r \in 0 .. Len(record)
  BY FrameIs DEF CloseRecord, FrameFits
<1>3. record' = (IF r = 0 THEN record ELSE [record EXCEPT ![r] = x])
  BY DEF CloseRecord
<1>4. r # 0 => /\ x \in RecordRow /\ x.amount = record[r].amount /\ ~x.active
               /\ x.conf = record[r].conf
  <2> SUFFICES ASSUME r # 0 PROVE /\ x \in RecordRow /\ x.amount = record[r].amount
                                  /\ ~x.active /\ x.conf = record[r].conf
    OBVIOUS
  <2>1. record[r] \in RecordRow
    BY <1>1, <1>2
  <2> QED BY <2>1, ClosedRow
<1> HIDE DEF x
<1>5. /\ record' \in Seq(RecordRow) /\ Len(record') = Len(record)
      /\ \A q \in 1 .. Len(record) : q # r => record'[q] = record[q]
      /\ r # 0 => record'[r] = x
  BY <1>1, <1>2, <1>3, <1>4
<1>6. ASSUME NEW q \in 1 .. Len(record)
      PROVE  /\ record'[q].active => record[q].active
             /\ record'[q].amount >= record[q].amount
             /\ record'[q].conf <= record'[q].amount
  <2>1. CASE q = r
    <3>1. record'[q] = x /\ x.amount = record[q].amount /\ x.conf = record[q].conf
          /\ ~x.active
      BY <1>2, <1>4, <1>5, <2>1
    <3> QED BY <1>1, <3>1
  <2>2. CASE q # r
    BY <1>1, <1>5, <2>2
  <2> QED BY <2>1, <2>2
<1>7. TablesInv' /\ Evolves /\ ZeroIsBeingExpired'
  <2>1. Len(record) <= Len(record')
    BY <1>1, <1>5
  <2>2. UNCHANGED <<wanted, owed, tick>> /\ spent' = spent
    BY DEF CloseRecord
  <2> QED BY <1>5, <1>6, <2>1, <2>2, RecordsRewritten
<1>8. CASE Frame(t, f) /\ UNCHANGED <<hook, log>>
  <2>1. arrest'[t] = f
    BY <1>8, FrameIs
  <2>2. f = [at |-> "teleport", who |-> arrest[t].who, rec |-> r, amt |-> arrest[t].amt,
             upto |-> arrest[t].upto]
    BY <1>2 DEF FrameType
  <2> HIDE DEF f
  <2>3. /\ f.at = "teleport" /\ f.who = arrest[t].who /\ f.rec = r
        /\ f.amt = arrest[t].amt /\ f.upto = arrest[t].upto
    BY <2>2
  <2>4. f \in FrameType
    BY <1>2, <2>2 DEF FrameType
  <2>5. r # 0 => f.amt <= record'[r].amount /\ ~record'[r].active
    BY <1>2, <1>4, <1>5, <2>3 DEF FrameFits
  <2>6. wanted' = wanted
    BY DEF CloseRecord
  <2>7. FrameFits(arrest[t])'
    BY <1>2, <1>5, <2>1, <2>3, <2>4, <2>5, <2>6 DEF FrameFits, Punished
  <2>8. FramesInv'
    BY <1>7, <1>8, <2>7, FramesKeep
  <2> QED BY <1>7, <1>8, <2>8, Assemble DEF CloseRecord
<1>9. CASE Raise(t)
  BY <1>2, <1>7, <1>9, RaiseKeeps, Assemble DEF CloseRecord
<1> QED BY <1>8, <1>9 DEF CloseRecord

-----------------------------------------------------------------------------
LEMMA JusticeInit ==
  ASSUME Init
  PROVE  JusticeInv
<1> USE Numbers DEF Init
<1>1. wanted = <<>> /\ record = <<>> /\ owed = <<>>
  OBVIOUS
<1>2. TablesInv
  BY <1>1 DEF TablesInv
<1>3. TicksInv
  BY DEF TicksInv, TickFits, NoTick
<1>4. FramesInv
  BY DEF FramesInv, FrameFits, FrameType, NoFrame
<1>5. HookInv /\ LogInv /\ LocInv /\ DecayInv /\ MovedInv
  BY DEF HookInv, LogInv, LocInv, DecayInv, MovedInv, NoHook, NoLog, NoLoc
<1>6. RestInv
  BY DEF RestInv, Sentence
<1>7. ZeroIsBeingExpired
  BY <1>1 DEF ZeroIsBeingExpired
<1> QED BY <1>2, <1>3, <1>4, <1>5, <1>6, <1>7 DEF JusticeInv

LEMMA JusticeNext ==
  ASSUME JusticeInv, [Next]_vars
  PROVE  JusticeInv' /\ (UNCHANGED vars \/ Evolves)
<1>1. CASE UNCHANGED vars
  <2>1. /\ TablesInv' /\ Evolves /\ ZeroIsBeingExpired'
        /\ spent' \in [Bounded -> Nat]
    BY <1>1, Quiet DEF vars, rows
  <2> QED BY <1>1, <2>1, Assemble DEF vars
<1>2. ASSUME NEW t \in Tick, TickStep(t) PROVE JusticeInv' /\ Evolves
  BY <1>2, TickReadStep, TickExpireStep, TickCaughtStep, TickWriteStep DEF TickStep
<1>3. ASSUME NEW t \in Arrester, ArrestStep(t) PROVE JusticeInv' /\ Evolves
  BY <1>3, ExpireWantedStep, ReadRecordStep, CloseRecordStep, TeleportStep, JailStep
     DEF ArrestStep
<1>4. ASSUME NEW c \in Character,
             \/ \E p \in Payments : Deliver(c, p)
             \/ Incriminate(c) \/ PullOver(c) \/ OwnTeleport(c)
             \/ SetWanted(c) \/ Logout(c) \/ SentenceOver(c)
      PROVE  JusticeInv' /\ Evolves
  BY <1>4, DeliverStep, IncriminateStep, PullOverStep, OwnTeleportStep, SetWantedStep,
     LogoutStep, SentenceOverStep
<1>5. CASE HookStep \/ LogStep
  BY <1>5, AccumulateStep, TriggerWantedStep, SaveCrimeStep, LookupWantedStep,
     SaveSetWantedStep, LogoutHeatStep DEF HookStep, LogStep
<1>6. CASE LocStep
  BY <1>6, LocReadStep, LocCheckStep, LocWriteStep DEF LocStep
<1>7. CASE DecayRead \/ DecayWrite \/ Crash \/ \E e \in moved : TeleportEvent(e)
  BY <1>7, DecayReadStep, DecayWriteStep, CrashStep, TeleportEventStep
<1> QED BY <1>1, <1>2, <1>3, <1>4, <1>5, <1>6, <1>7 DEF Next

(* In every behaviour the tables evolve as described above.                *)
THEOREM JusticeInvariant == Spec => []JusticeInv
<1>1. Init => JusticeInv
  BY JusticeInit
<1>2. JusticeInv /\ [Next]_vars => JusticeInv'
  BY JusticeNext
<1> QED BY <1>1, <1>2, PTL DEF Spec

(* The tables and what the coroutines hold have their types; rows and      *)
(* records that are referred to exist.                                     *)
THEOREM JusticeTypeCorrect == Spec => []TypeOK
<1>1. JusticeInv => TypeOK
  <2> SUFFICES ASSUME JusticeInv PROVE TypeOK
    OBVIOUS
  <2>1. /\ wanted \in Seq(WantedRow) /\ record \in Seq(RecordRow)
        /\ owed \in Seq(0 .. Initial) /\ Len(owed) = Len(wanted)
        /\ DOMAIN wanted = 1 .. Len(wanted) /\ Len(wanted) \in Nat
        /\ DOMAIN record = 1 .. Len(record) /\ Len(record) \in Nat
    BY Tables DEF JusticeInv, TablesInv
  <2>2. \A e \in moved : e.who \in Character /\ e.upto \in Nat
    BY <2>1 DEF JusticeInv, MovedInv
  <2>3. \A t \in Tick : TickOK(tick[t])
    <3> SUFFICES ASSUME NEW t \in Tick PROVE TickOK(tick[t])
      OBVIOUS
    <3>1. TickFits(tick[t])
      BY DEF JusticeInv, TicksInv
    <3> QED BY <2>1, <3>1 DEF TickFits, TickOK
  <2>4. /\ arrest \in [Arrester -> FrameType]
        /\ \A t \in Arrester : arrest[t].at # "none" => arrest[t].who \in Character
        /\ \A t \in Arrester : arrest[t].rec \in DOMAIN record \cup {0}
    <3>1. \A t \in Arrester : FrameFits(arrest[t]) /\ arrest[t] \in FrameType
      BY FrameIs
    <3>2. \A t \in Arrester : arrest[t].rec \in 0 .. Len(record)
      BY <3>1 DEF FrameFits
    <3>3. \A t \in Arrester : arrest[t].rec \in DOMAIN record \cup {0}
      BY <2>1, <3>2
    <3>4. \A t \in Arrester : arrest[t].at # "none" => arrest[t].who \in Character
      BY <3>1 DEF FrameFits
    <3>5. arrest = [t \in Arrester |-> arrest[t]]
      BY DEF JusticeInv, FramesInv
    <3> HIDE DEF FrameType
    <3> QED BY <3>1, <3>3, <3>4, <3>5
  <2>5. hook.at \in {"idle", "accumulate", "wanted", "save", "arrest"}
        /\ hook.row \in DOMAIN wanted \cup {0}
    BY <2>1 DEF JusticeInv, HookInv
  <2>6. log.at \in {"idle", "lookup", "save", "logout"}
        /\ log.row \in DOMAIN wanted \cup {0}
    BY <2>1 DEF JusticeInv, LogInv
  <2>7. /\ jailed \in [Character -> {"no", "serving", "over"}]
        /\ loc.at = "walk" => loc.mem \in [Character -> {"no", "serving", "over"}]
    BY DEF JusticeInv, RestInv, LocInv, Sentence
  <2>8. DOMAIN decay \subseteq DOMAIN record
    BY <2>1 DEF JusticeInv, DecayInv
  <2> QED BY <2>1, <2>2, <2>3, <2>4, <2>5, <2>6, <2>7, <2>8 DEF TypeOK
<1> QED BY <1>1, JusticeInvariant, PTL

(* However the coroutines overlap, a countdown that ends has seen all its  *)
(* decays, unless a refresh met a coroutine that held the row.             *)
THEOREM SentencesAreServed == Spec => []ServedInFull
<1>1. JusticeInv => ServedInFull
  <2> SUFFICES ASSUME JusticeInv, NEW t \in Tick, NEW i \in Gone(t)
               PROVE  owed[i] = 0
    BY DEF ServedInFull
  <2>1. i \in 1 .. Len(wanted) /\ tick[t].snap[i] >= owed[i] /\ tick[t].snap[i] = 0
    BY DEF JusticeInv, TicksInv, TickFits, Gone
  <2>2. owed[i] \in 0 .. Initial
    BY <2>1, Tables DEF JusticeInv
  <2> QED BY <2>1, <2>2, Numbers
<1> QED BY <1>1, JusticeInvariant, PTL

(* Without a restart, an active row at zero is always one that a tick is   *)
(* about to expire.                                                        *)
THEOREM ZeroRowsAreExpired == Spec => []ZeroIsBeingExpired
<1>1. JusticeInv => ZeroIsBeingExpired
  BY DEF JusticeInv
<1> QED BY <1>1, JusticeInvariant, PTL

(* No record holds, and no arrest takes, more than the record took in.     *)
THEOREM ConfiscationsAreCovered == Spec => []ConfiscationCovered
<1>1. JusticeInv => ConfiscationCovered
  BY Tables DEF JusticeInv, TablesInv, FramesInv, FrameFits, ConfiscationCovered
<1> QED BY <1>1, JusticeInvariant, PTL

(* The teleport of an arrest punishes nothing that led to it.              *)
THEOREM ArrestsPunishOnce == Spec => []ArrestTeleportIsFree
<1>1. JusticeInv => ArrestTeleportIsFree
  BY DEF JusticeInv, MovedInv, FramesInv, FrameFits, ArrestTeleportIsFree
<1> QED BY <1>1, JusticeInvariant, PTL

(* No stale write reopens what was closed or lowers an audit total.        *)
THEOREM ClosingIsFinal == Spec => ClosedForGood
<1> DEFINE Keeps ==
      /\ \A i \in DOMAIN wanted :
           wanted'[i].who = wanted[i].who /\ (wanted'[i].active => wanted[i].active)
      /\ \A r \in DOMAIN record :
           /\ record'[r].active => record[r].active
           /\ record'[r].amount >= record[r].amount
<1>1. JusticeInv /\ [Next]_vars => [Keeps]_vars
  <2> SUFFICES ASSUME JusticeInv, [Next]_vars PROVE UNCHANGED vars \/ Keeps
    OBVIOUS
  <2>1. DOMAIN wanted = 1 .. Len(wanted) /\ DOMAIN record = 1 .. Len(record)
    BY Tables DEF JusticeInv
  <2>2. UNCHANGED vars \/ Evolves
    BY JusticeNext
  <2> QED BY <2>1, <2>2 DEF Evolves
<1> QED BY <1>1, JusticeInvariant, PTL DEF Spec, ClosedForGood
=============================================================================
