------------------------------ MODULE MCMutex ------------------------------
EXTENDS Mutex, TLC

ThreadSymmetry == Permutations(Threads)
=============================================================================
