-------------------------- MODULE MCGuestAddrWait --------------------------
EXTENDS GuestAddrWait, TLC

Symmetry == Permutations(Threads)
=============================================================================
