----------------------------- MODULE MCThreads -----------------------------
(* Instances of Threads. *)
EXTENDS Threads, TLC

Symm == Permutations(Threads) \cup Permutations(Cores) \cup Permutations(Buffers)
=============================================================================
