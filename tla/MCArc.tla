-------------------------------- MODULE MCArc --------------------------------
EXTENDS Arc, TLC
MCSymmetry == Permutations(Refs) \cup Permutations(Objs) \cup Permutations(Threads)
=============================================================================
