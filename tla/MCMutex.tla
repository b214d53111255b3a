------------------------------- MODULE MCMutex -------------------------------
EXTENDS Mutex, TLC

Symmetry == Permutations(Threads)
=============================================================================
