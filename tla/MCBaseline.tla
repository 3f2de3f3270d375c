----------------------------- MODULE MCBaseline -----------------------------
(* Instances of Baseline: the batches of the imports.                      *)
EXTENDS Baseline, TLC

CONSTANTS c1, c2

Linha1(c, a, b) == [cod |-> c, x |-> a, y |-> b]
(* One row that differs in either column, and two rows in both orders.     *)
Cruzados == {<<Linha1(c1, 1, 1), Linha1(c2, 1, 1)>>,
             <<Linha1(c2, 1, 1), Linha1(c1, 1, 1)>>}
Misturados == {<<Linha1(c1, 1, 2)>>, <<Linha1(c1, 2, 1)>>} \cup Cruzados

Simetria == Permutations(Importadores) \cup Permutations(Aprovadores)
=============================================================================
