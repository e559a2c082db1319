----------------------------- MODULE MCCoroutine -----------------------------
EXTENDS Coroutine, TLC

\* Threads, and coroutines, are interchangeable (used for safety runs only).
Symmetry == Permutations(Threads) \cup Permutations(Coroutines)
=============================================================================
