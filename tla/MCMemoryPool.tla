----------------------------- MODULE MCMemoryPool -----------------------------
EXTENDS MemoryPool, TLC

\* Threads and heap regions are interchangeable (used for safety runs only).
Symmetry == Permutations(Threads) \cup Permutations(Regions)
=============================================================================
