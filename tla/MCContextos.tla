----------------------------- MODULE MCContextos -----------------------------
(* Instances of Contextos.                                                 *)
EXTENDS Contextos, TLC

Simetria == Permutations(Configuracoes) \cup Permutations(Obras)
=============================================================================
