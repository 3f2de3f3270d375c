------------------------------ MODULE MCCorpo ------------------------------
(* Instances of Corpo: blocks of zero to three units.                      *)
EXTENDS Corpo

Tamanhos == 0..3
=============================================================================
