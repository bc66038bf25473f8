------------------------------ MODULE MCUpdate ------------------------------
(* A small instance of Update for TLC. *)
EXTENDS Update

CONSTANTS u1, u2, u3

MCUpdates == {u1, u2, u3}
=============================================================================
