---------------------------- MODULE Classificacao ----------------------------
(***************************************************************************)
(* What the ingestion promises of each item (a Telegram event or an API    *)
(* task), without requests, keys, queue, retries or crashes: it is         *)
(* accepted once, is given one obra once, and is filed once, under it.     *)
(***************************************************************************)
EXTENDS Naturals

CONSTANTS Itens, Obras, Nenhum

VARIABLES aceitas,  \* how many times each item was accepted
          obraDe,   \* the obra of each item, once it has one
          copias    \* how many times each item is filed under each obra

vars == <<aceitas, obraDe, copias>>

Init ==
    /\ aceitas = [x \in Itens |-> 0]
    /\ obraDe = [x \in Itens |-> Nenhum]
    /\ copias = [x \in Itens |-> [o \in Obras |-> 0]]

(* The item arrives, with its obra or without.                             *)
Aceitar(x, o) ==
    /\ aceitas[x] = 0
    /\ aceitas' = [aceitas EXCEPT ![x] = 1]
    /\ obraDe' = [obraDe EXCEPT ![x] = o]
    /\ UNCHANGED copias

(* Somebody confirms the obra of an item that came without.                *)
Confirmar(x, o) ==
    /\ aceitas[x] = 1 /\ obraDe[x] = Nenhum
    /\ obraDe' = [obraDe EXCEPT ![x] = o]
    /\ UNCHANGED <<aceitas, copias>>

Arquivar(x) ==
    /\ obraDe[x] \in Obras
    /\ \A o \in Obras : copias[x][o] = 0
    /\ copias' = [copias EXCEPT ![x][obraDe[x]] = 1]
    /\ UNCHANGED <<aceitas, obraDe>>

Next ==
    \E x \in Itens :
        \/ \E o \in Obras \cup {Nenhum} : Aceitar(x, o)
        \/ \E o \in Obras : Confirmar(x, o)
        \/ Arquivar(x)

Spec == Init /\ [][Next]_vars
=============================================================================
