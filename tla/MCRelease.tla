------------------------------ MODULE MCRelease ------------------------------
EXTENDS Release, TLC

Symmetry == Permutations(Preps) \cup Permutations(Threads)
=============================================================================
