----------------------------- MODULE MCExceptions ---------------------------
(* Exceptions with destructors that throw and catch while unwinding, for TLC. *)
EXTENDS Exceptions, TLC

Symmetry == Permutations(Exceptions) \cup Permutations(Pointers)
=============================================================================
