------------------------------- MODULE MCLogPoll -------------------------------
(* Model checking LogPoll: threads, and log statements, are interchangeable. *)
EXTENDS LogPoll, TLC

Symmetry == Permutations(Threads) \cup Permutations(Sites)
=============================================================================
