------------------------- MODULE MCServerLifecycle -------------------------
EXTENDS ServerLifecycle, TLC
PidSymmetry == Permutations(Pids)
Symmetry == Permutations(Pids) \cup Permutations(Handlers) \cup Permutations(Patchers)
=============================================================================
