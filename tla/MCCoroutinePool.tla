--------------------------- MODULE MCCoroutinePool ---------------------------
EXTENDS CoroutinePool, TLC

\* Threads, and blocks, are interchangeable (used for safety runs only).
Symmetry == Permutations(Threads) \cup Permutations(Block)
=============================================================================
