------------------------------- MODULE MCStreams -------------------------------
(* Streams on small instances: every plan and every log of a few events. *)
EXTENDS Streams
=============================================================================
