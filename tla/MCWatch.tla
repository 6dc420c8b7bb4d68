------------------------------- MODULE MCWatch -------------------------------
(* Instances of Watch for TLC: one option file in a directory of its own, and *)
(* one file the schema may refer to, beside it.                               *)
EXTENDS Watch

CONSTANTS project, input, header, child

MCFiles == {project, input, header, child}
MCRoot  == [f \in MCFiles |-> IF f = header THEN "templates" ELSE "schemas"]
=============================================================================
