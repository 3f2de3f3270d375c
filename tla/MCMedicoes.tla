----------------------------- MODULE MCMedicoes -----------------------------
(* Instances of Medicoes: requests that are the same at the start.         *)
EXTENDS Medicoes, TLC

Simetria == Permutations(Pedidos)
=============================================================================
