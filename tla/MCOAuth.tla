------------------------------ MODULE MCOAuth ------------------------------
(* Instances of OAuth for TLC: every caller renews under one lock, as the *)
(* documentation asks of a provider's users.                              *)
EXTENDS OAuth

CONSTANT lock

MCLockOf == [c \in Callers |-> lock]
=============================================================================
