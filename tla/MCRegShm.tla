------------------------------ MODULE MCRegShm ------------------------------
(* Instances of RegShm. *)
EXTENDS RegShm, TLC

Symm == Permutations(Threads) \cup Permutations(Mobjs) \cup Permutations(Vas)
=============================================================================
