----------------------------- MODULE MCStopToken ----------------------------
(* StopToken with callbacks that destroy the last source, for TLC. *)
EXTENDS StopToken

=============================================================================
