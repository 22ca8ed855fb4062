--------------------------- MODULE MC_ListenAccept ---------------------------
EXTENDS ListenAccept, TLC

MC_Symmetry == Permutations(Conns) \cup Permutations(Threads)
=============================================================================
