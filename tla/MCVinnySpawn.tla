---------------------------- MODULE MCVinnySpawn ----------------------------
(* VinnySpawn on small sets of threads, processes and messages.             *)
EXTENDS VinnySpawn, TLC

(* The IRC threads, the calls of spawn_mod and the messages are alike; the  *)
(* safety runs use this when every one of them may take the signal or none. *)
Symmetry == Permutations(Handlers) \cup Permutations(Procs) \cup Permutations(Messages)
=============================================================================
