----------------------------- MODULE MCEntradas -----------------------------
EXTENDS Entradas, TLC
CONSTANTS e1, e2, o1, o2

Pedida1 == [e \in Eventos |-> IF e = e1 THEN Nenhum ELSE o1]
=============================================================================
