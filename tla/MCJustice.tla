----------------------------- MODULE MCJustice ------------------------------
(* Instances of Justice: the bounds on what the players do.                *)
EXTENDS Justice, TLC

(* A delivery and a /setwanted of one character, so that two rows, a       *)
(* refresh of a row that expires, and two arrests at once are reached.     *)
ChaseLimit == [crime |-> 1, setwanted |-> 1, logout |-> 0, teleport |-> 0,
               stray |-> 0, crash |-> 1]

(* All the other ways into an arrest, with the passes that run beside them. *)
JailLimit == [crime |-> 1, setwanted |-> 0, logout |-> 1, teleport |-> 1,
              stray |-> 1, crash |-> 0]

(* The ticks are alike. *)
Ticks == Permutations(Tick)
=============================================================================
