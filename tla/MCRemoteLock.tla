---------------------------- MODULE MCRemoteLock ----------------------------
(* Instances of RemoteLock for TLC. *)
EXTENDS RemoteLock, TLC

CONSTANTS a, b

(* The second job's schema is one of the first's. *)
MCReads == [j \in Jobs |-> IF j = 1 THEN {a, b} ELSE {b}]
MCSymmetry == Permutations(Locks)
=============================================================================
