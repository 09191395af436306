------------------------------- MODULE MCJobs -------------------------------
(* Jobs on a small instance: one job, two contributors and two coroutines. *)
EXTENDS Jobs, TLC

Symmetry == Permutations(Character) \cup Permutations(Task)
=============================================================================
