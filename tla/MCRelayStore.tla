---------------------------- MODULE MCRelayStore ----------------------------
(* A small instance of RelayStore for TLC. *)
EXTENDS RelayStore
=============================================================================
