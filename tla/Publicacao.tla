----------------------------- MODULE Publicacao -----------------------------
(***************************************************************************)
(* What publication promises, without requests, drafts, locks or crashes:  *)
(* a final key is written once, for a documento that a person decided to   *)
(* approve, and a documento counts as published only under a key of its    *)
(* own.                                                                    *)
(***************************************************************************)
CONSTANTS Docs, Finais, Nenhum

VARIABLES decididos,  \* documentos somebody asked to approve
          dono,       \* the documento written under each final key
          publicado   \* the key under which each documento is published

vars == <<decididos, dono, publicado>>

Init ==
    /\ decididos = {}
    /\ dono = [k \in Finais |-> Nenhum]
    /\ publicado = [d \in Docs |-> Nenhum]

Decidir(d) ==
    /\ decididos' = decididos \cup {d}
    /\ UNCHANGED <<dono, publicado>>

Escrever(d, k) ==
    /\ d \in decididos /\ dono[k] = Nenhum
    /\ dono' = [dono EXCEPT ![k] = d]
    /\ UNCHANGED <<decididos, publicado>>

Confirmar(d, k) ==
    /\ dono[k] = d
    /\ publicado' = [publicado EXCEPT ![d] = k]
    /\ UNCHANGED <<decididos, dono>>

(* A later decision or edit takes the documento back; the object stays.    *)
Reabrir(d) ==
    /\ publicado' = [publicado EXCEPT ![d] = Nenhum]
    /\ \/ UNCHANGED decididos
       \/ decididos' = decididos \cup {d}
    /\ UNCHANGED dono

Next ==
    \E d \in Docs :
        \/ Decidir(d) \/ Reabrir(d)
        \/ \E k \in Finais : Escrever(d, k) \/ Confirmar(d, k)

Spec == Init /\ [][Next]_vars
=============================================================================
