---------------------------- MODULE MCStreamQueue ----------------------------
(* StreamQueue on a small instance; the abstract pool is its promise. *)
EXTENDS StreamQueue

=============================================================================
