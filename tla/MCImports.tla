------------------------------ MODULE MCImports ------------------------------
(* A root package, a package with a module, and a module beside it. *)
EXTENDS Imports

CONSTANTS root, pets, dog, shop

MCSorted == <<root, pets, dog, shop>>
MCAbove  == (root :> <<>>) @@ (pets :> <<root>>) @@ (dog :> <<root, pets>>) @@ (shop :> <<root>>)
=============================================================================
