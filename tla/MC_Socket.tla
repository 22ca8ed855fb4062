----------------------------- MODULE MC_Socket ------------------------------
(* Model-checking instance of Socket.  Threads and aliases are model values *)
(* given in the .cfg; they are compared only for equality (the CHOOSEs in   *)
(* Socket pick placeholders of idle records), so safety runs use symmetry.  *)
EXTENDS Socket, TLC

MC_Symmetry == Permutations(Threads) \cup Permutations(Aliases)
=============================================================================
