------------------------------ MODULE MCPolling -----------------------------
(* Instances of Polling for TLC. *)
EXTENDS Polling

(* A session of four intervals, or one without a deadline. *)
MCTotals == {4, Never}
=============================================================================
