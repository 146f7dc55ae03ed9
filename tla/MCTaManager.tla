---------------------------- MODULE MCTaManager ----------------------------
(* Instances of TaManager. *)
EXTENDS TaManager, TLC

CONSTANTS A, B, P

\* A is single-instance, multi-session and kept alive.
SharedFlags == A :> {"single", "multi", "keep"}

\* B, a multi-instance TA, calls itself and A, which is single-instance and takes one
\* session, and A calls the pseudo TA P.
ChainFlags == A :> {"single"} @@ B :> {} @@ P :> {"single", "multi", "keep", "concurrent"}
Chain == {<<B, B>>, <<B, A>>, <<A, P>>}

\* A calls itself.
Self == {<<A, A>>}

Symm == Permutations(Threads) \cup Permutations(Sessions) \cup Permutations(Ctxs)
=============================================================================
