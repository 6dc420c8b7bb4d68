--------------------------- MODULE MCPublication ----------------------------
(* Instances of Publication for TLC. *)
EXTENDS Publication

CONSTANTS d1, d2

\* The first file goes into the anchored directory, the second two directories below.
MCDeep == [f \in 1..2 |-> IF f = 1 THEN <<>> ELSE <<d1, d2>>]
\* The second goes one below.
MCFlat == [f \in 1..2 |-> IF f = 1 THEN <<>> ELSE <<d1>>]
=============================================================================
