---------------------------- MODULE MCDocumentos ----------------------------
(* Instances of Documentos: the obra is renamed once, or never.            *)
EXTENDS Documentos, TLC

CONSTANTS s1, s2

UmRenome == {<<s1, s2>>}
Simetria == Permutations(Pedidos) \cup Permutations(Rascunhos)
=============================================================================
