---------------------------- MODULE MCClientCall ----------------------------
(* Instances of ClientCall for TLC. *)
EXTENDS ClientCall
=============================================================================
