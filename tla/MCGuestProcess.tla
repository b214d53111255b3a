--------------------------- MODULE MCGuestProcess ---------------------------
(* GuestProcess for TLC: the program's thread and the first worker may make *)
(* two system calls each, the second worker one.                            *)
EXTENDS GuestProcess

MCMaxOps == <<2, 2, 1>>
=============================================================================
