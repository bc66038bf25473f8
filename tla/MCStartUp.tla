----------------------------- MODULE MCStartUp -----------------------------
(* A small instance of StartUp for TLC. *)
EXTENDS StartUp

CONSTANTS r1, r2

MCReceivers == {r1, r2}
MCLan == {r2}
=============================================================================
