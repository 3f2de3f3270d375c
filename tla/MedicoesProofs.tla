--------------------------- MODULE MedicoesProofs ---------------------------
(***************************************************************************)
(* Proofs about Medicoes, for any periods, items, number of requests and   *)
(* of requests that die.                                                   *)
(***************************************************************************)
EXTENDS Medicoes, TLAPS

(* What each request knows, and what the rows owe to it.                   *)
PedidosCertos ==
    /\ \A p \in Pedidos : pc[p] # "livre" => alvo[p] \in Periodos
    /\ \A p \in Pedidos : medicoes[p] # {} => pc[p] = "registrada"
    /\ \A p \in Pedidos : pc[p] = "lida" /\ visto[p] # "ausente" =>
          periodos[alvo[p]] # "ausente"
    /\ \A p \in Pedidos : pc[p] = "inserindo" =>
          periodos[alvo[p]] # "ausente" \/ reserva[alvo[p]] = p
    /\ \A p \in Pedidos : pc[p] \in {"fechando", "conferida"} =>
          periodos[alvo[p]] # "ausente"
    /\ \A p \in Pedidos : pc[p] = "fechada" => periodos[alvo[p]] = "fechado"

(* The uncommitted row of a period excludes a committed one.               *)
ReservaInedita ==
    \A m \in Periodos : reserva[m] # Nenhum => periodos[m] = "ausente"

(* Items are judged before they are inserted, and the budget only grows.   *)
ItensAceitos ==
    /\ \A p \in Pedidos : pc[p] \in {"criando", "inserindo"} => Aceitaveis(lote[p])
    /\ \A p \in Pedidos : medicoes[p] # {} => Aceitaveis(medicoes[p])

(* A closing goes on only over measurements, which do not go away.         *)
FechamentosCertos ==
    /\ \A p \in Pedidos : pc[p] = "conferida" => Lancadas(alvo[p]) # {}
    /\ \A m \in Periodos : periodos[m] = "fechado" =>
          /\ fechamento[m] \in Pedidos /\ pc[fechamento[m]] = "fechada"
          /\ alvo[fechamento[m]] = m /\ Lancadas(m) # {}

Inv1 ==
    /\ TypeOK /\ ReservaDeQuemCria /\ ReservaInedita /\ LancadaTemPeriodo
    /\ PedidosCertos /\ ItensAceitos /\ FechamentosCertos

-----------------------------------------------------------------------------
(* Every step keeps the types.                                             *)
LEMMA PassoTipos == ASSUME TypeOK, [Next]_vars PROVE TypeOK'
<1> USE DEF TypeOK
<1>1. ASSUME NEW c \in Codigos, ImportarItem(c) PROVE TypeOK'
  BY <1>1 DEF ImportarItem
<1>2. ASSUME NEW p \in Pedidos, NEW m \in Periodos, NEW itens \in SUBSET Item,
             LerPeriodo(p, m, itens)
      PROVE  TypeOK'
  BY <1>2 DEF LerPeriodo, Comecar, Ativos, Concluidos
<1>3. ASSUME NEW p \in Pedidos, NEW m \in Periodos, LerFechamento(p, m)
      PROVE  TypeOK'
  BY <1>3 DEF LerFechamento, Comecar, Ativos, Concluidos
<1>4. ASSUME NEW p \in Pedidos, ValidarItens(p) PROVE TypeOK'
  BY <1>4 DEF ValidarItens, Concluidos
<1>5. ASSUME NEW p \in Pedidos, CriarPeriodo(p) PROVE TypeOK'
  BY <1>5 DEF CriarPeriodo, Concluidos
<1>6. ASSUME NEW p \in Pedidos, Registrar(p) PROVE TypeOK'
  BY <1>6 DEF Registrar, PeriodosCom, Soltar, Concluidos, Situacao
<1>7. ASSUME NEW p \in Pedidos, Conferir(p) PROVE TypeOK'
  BY <1>7 DEF Conferir, Lancadas, Concluidos
<1>8. ASSUME NEW p \in Pedidos, Fechar(p) PROVE TypeOK'
  BY <1>8 DEF Fechar, Concluidos, Situacao
<1>9. ASSUME NEW p \in Pedidos, Cair(p) PROVE TypeOK'
  BY <1>9, MedicoesAssumption DEF Cair, Soltar, Concluidos
<1>10. CASE UNCHANGED vars
  BY <1>10 DEF vars
<1>. QED
  BY <1>1, <1>2, <1>3, <1>4, <1>5, <1>6, <1>7, <1>8, <1>9, <1>10
     DEF Next, Chamar, Prosseguir

-----------------------------------------------------------------------------
(* Every step keeps the agreement of requests and rows.                    *)
LEMMA PassoInv1 == ASSUME Inv1, [Next]_vars PROVE Inv1'
<1>0. TypeOK'
  BY PassoTipos DEF Inv1
<1> DEFINE Linhas == /\ ReservaDeQuemCria /\ ReservaInedita /\ LancadaTemPeriodo
                     /\ PedidosCertos
<1> DEFINE Itens == ItensAceitos /\ FechamentosCertos
<1>1. ASSUME NEW c \in Codigos, ImportarItem(c) PROVE Linhas' /\ Itens'
  <2>1. ReservaDeQuemCria' /\ ReservaInedita' /\ LancadaTemPeriodo'
    BY <1>1, <1>0 DEF Inv1, TypeOK, ImportarItem, ReservaDeQuemCria, ReservaInedita,
       LancadaTemPeriodo, PedidosCertos
  <2>2. PedidosCertos'
    BY <1>1, <1>0 DEF Inv1, TypeOK, ImportarItem, ReservaDeQuemCria, ReservaInedita,
       PedidosCertos
  <2>3. ItensAceitos'
    BY <1>1, <1>0 DEF Inv1, TypeOK, ImportarItem, PedidosCertos, ItensAceitos, Aceitaveis
  <2>4. FechamentosCertos'
    BY <1>1, <1>0 DEF Inv1, TypeOK, ImportarItem, PedidosCertos, ReservaInedita,
       LancadaTemPeriodo, FechamentosCertos, Lancadas
  <2>. QED
    BY <2>1, <2>2, <2>3, <2>4
<1>2. ASSUME NEW p \in Pedidos, NEW m \in Periodos, NEW itens \in SUBSET Item,
             LerPeriodo(p, m, itens)
      PROVE Linhas' /\ Itens'
  <2>1. ReservaDeQuemCria' /\ ReservaInedita' /\ LancadaTemPeriodo'
    BY <1>2, <1>0 DEF Inv1, TypeOK, LerPeriodo, Comecar, Fechado, ReservaDeQuemCria, ReservaInedita,
       LancadaTemPeriodo, PedidosCertos
  <2>2. PedidosCertos'
    BY <1>2, <1>0 DEF Inv1, TypeOK, LerPeriodo, Comecar, Fechado, ReservaDeQuemCria, ReservaInedita,
       PedidosCertos
  <2>3. ItensAceitos'
    BY <1>2, <1>0 DEF Inv1, TypeOK, LerPeriodo, Comecar, Fechado, PedidosCertos, ItensAceitos, Aceitaveis
  <2>4. FechamentosCertos'
    BY <1>2, <1>0 DEF Inv1, TypeOK, LerPeriodo, Comecar, Fechado, PedidosCertos, ReservaInedita,
       LancadaTemPeriodo, FechamentosCertos, Lancadas
  <2>. QED
    BY <2>1, <2>2, <2>3, <2>4
<1>3. ASSUME NEW p \in Pedidos, NEW m \in Periodos, LerFechamento(p, m)
      PROVE Linhas' /\ Itens'
  <2>1. ReservaDeQuemCria' /\ ReservaInedita' /\ LancadaTemPeriodo'
    BY <1>3, <1>0 DEF Inv1, TypeOK, LerFechamento, Comecar, Fechavel, ReservaDeQuemCria, ReservaInedita,
       LancadaTemPeriodo, PedidosCertos
  <2>2. PedidosCertos'
    BY <1>3, <1>0 DEF Inv1, TypeOK, LerFechamento, Comecar, Fechavel, ReservaDeQuemCria, ReservaInedita,
       PedidosCertos
  <2>3. ItensAceitos'
    BY <1>3, <1>0 DEF Inv1, TypeOK, LerFechamento, Comecar, Fechavel, PedidosCertos, ItensAceitos, Aceitaveis
  <2>4. FechamentosCertos'
    BY <1>3, <1>0 DEF Inv1, TypeOK, LerFechamento, Comecar, Fechavel, PedidosCertos, ReservaInedita,
       LancadaTemPeriodo, FechamentosCertos, Lancadas
  <2>. QED
    BY <2>1, <2>2, <2>3, <2>4
<1>4. ASSUME NEW p \in Pedidos, ValidarItens(p) PROVE Linhas' /\ Itens'
  <2>1. ReservaDeQuemCria' /\ ReservaInedita' /\ LancadaTemPeriodo'
    BY <1>4, <1>0 DEF Inv1, TypeOK, ValidarItens, ReservaDeQuemCria, ReservaInedita,
       LancadaTemPeriodo, PedidosCertos
  <2>2. PedidosCertos'
    BY <1>4, <1>0 DEF Inv1, TypeOK, ValidarItens, ReservaDeQuemCria, ReservaInedita,
       PedidosCertos
  <2>3. ItensAceitos'
    BY <1>4, <1>0 DEF Inv1, TypeOK, ValidarItens, PedidosCertos, ItensAceitos, Aceitaveis
  <2>4. FechamentosCertos'
    BY <1>4, <1>0 DEF Inv1, TypeOK, ValidarItens, PedidosCertos, ReservaInedita,
       LancadaTemPeriodo, FechamentosCertos, Lancadas
  <2>. QED
    BY <2>1, <2>2, <2>3, <2>4
<1>5. ASSUME NEW p \in Pedidos, CriarPeriodo(p) PROVE Linhas' /\ Itens'
  <2>1. ReservaDeQuemCria' /\ ReservaInedita' /\ LancadaTemPeriodo'
    BY <1>5, <1>0 DEF Inv1, TypeOK, CriarPeriodo, PeriodoInedito, ReservaDeQuemCria, ReservaInedita,
       LancadaTemPeriodo, PedidosCertos
  <2>2. PedidosCertos'
    BY <1>5, <1>0, MedicoesAssumption DEF Inv1, TypeOK, CriarPeriodo, PeriodoInedito, ReservaDeQuemCria, ReservaInedita,
       PedidosCertos
  <2>3. ItensAceitos'
    BY <1>5, <1>0 DEF Inv1, TypeOK, CriarPeriodo, PeriodoInedito, PedidosCertos, ItensAceitos, Aceitaveis
  <2>4. FechamentosCertos'
    BY <1>5, <1>0 DEF Inv1, TypeOK, CriarPeriodo, PeriodoInedito, PedidosCertos, ReservaInedita,
       LancadaTemPeriodo, FechamentosCertos, Lancadas
  <2>. QED
    BY <2>1, <2>2, <2>3, <2>4
<1>6. ASSUME NEW p \in Pedidos, Registrar(p) PROVE Linhas' /\ Itens'
  <2>1. ReservaDeQuemCria' /\ ReservaInedita' /\ LancadaTemPeriodo'
    BY <1>6, <1>0 DEF Inv1, TypeOK, Registrar, PeriodosCom, Soltar, ReservaDeQuemCria, ReservaInedita,
       LancadaTemPeriodo, PedidosCertos
  <2>2. PedidosCertos'
    BY <1>6, <1>0, MedicoesAssumption DEF Inv1, TypeOK, Registrar, PeriodosCom, Soltar, ReservaDeQuemCria, ReservaInedita,
       PedidosCertos
  <2>3. ItensAceitos'
    BY <1>6, <1>0 DEF Inv1, TypeOK, Registrar, PeriodosCom, Soltar, PedidosCertos, ItensAceitos, Aceitaveis
  <2>4. FechamentosCertos'
    BY <1>6, <1>0 DEF Inv1, TypeOK, Registrar, PeriodosCom, Soltar, PedidosCertos, ReservaInedita,
       LancadaTemPeriodo, FechamentosCertos, Lancadas
  <2>. QED
    BY <2>1, <2>2, <2>3, <2>4
<1>7. ASSUME NEW p \in Pedidos, Conferir(p) PROVE Linhas' /\ Itens'
  <2>1. ReservaDeQuemCria' /\ ReservaInedita' /\ LancadaTemPeriodo'
    BY <1>7, <1>0 DEF Inv1, TypeOK, Conferir, SemBloqueios, ReservaDeQuemCria, ReservaInedita,
       LancadaTemPeriodo, PedidosCertos
  <2>2. PedidosCertos'
    BY <1>7, <1>0 DEF Inv1, TypeOK, Conferir, SemBloqueios, ReservaDeQuemCria, ReservaInedita,
       PedidosCertos
  <2>3. ItensAceitos'
    BY <1>7, <1>0 DEF Inv1, TypeOK, Conferir, SemBloqueios, PedidosCertos, ItensAceitos, Aceitaveis
  <2>4. FechamentosCertos'
    BY <1>7, <1>0 DEF Inv1, TypeOK, Conferir, SemBloqueios, PedidosCertos, ReservaInedita,
       LancadaTemPeriodo, FechamentosCertos, Lancadas
  <2>. QED
    BY <2>1, <2>2, <2>3, <2>4
<1>8. ASSUME NEW p \in Pedidos, Fechar(p) PROVE Linhas' /\ Itens'
  <2>1. ReservaDeQuemCria' /\ ReservaInedita' /\ LancadaTemPeriodo'
    BY <1>8, <1>0 DEF Inv1, TypeOK, Fechar, ReservaDeQuemCria, ReservaInedita,
       LancadaTemPeriodo, PedidosCertos
  <2>2. PedidosCertos'
    BY <1>8, <1>0 DEF Inv1, TypeOK, Fechar, ReservaDeQuemCria, ReservaInedita,
       PedidosCertos
  <2>3. ItensAceitos'
    BY <1>8, <1>0 DEF Inv1, TypeOK, Fechar, PedidosCertos, ItensAceitos, Aceitaveis
  <2>4. FechamentosCertos'
    BY <1>8, <1>0 DEF Inv1, TypeOK, Fechar, PedidosCertos, ReservaInedita,
       LancadaTemPeriodo, FechamentosCertos, Lancadas
  <2>. QED
    BY <2>1, <2>2, <2>3, <2>4
<1>9. ASSUME NEW p \in Pedidos, Cair(p) PROVE Linhas' /\ Itens'
  <2>1. ReservaDeQuemCria' /\ ReservaInedita' /\ LancadaTemPeriodo'
    BY <1>9, <1>0 DEF Inv1, TypeOK, Cair, Soltar, Ativos, Concluidos, ReservaDeQuemCria, ReservaInedita,
       LancadaTemPeriodo, PedidosCertos
  <2>2. PedidosCertos'
    BY <1>9, <1>0 DEF Inv1, TypeOK, Cair, Soltar, Ativos, Concluidos, ReservaDeQuemCria, ReservaInedita,
       PedidosCertos
  <2>3. ItensAceitos'
    BY <1>9, <1>0 DEF Inv1, TypeOK, Cair, Soltar, Ativos, Concluidos, PedidosCertos, ItensAceitos, Aceitaveis
  <2>4. FechamentosCertos'
    BY <1>9, <1>0 DEF Inv1, TypeOK, Cair, Soltar, Ativos, Concluidos, PedidosCertos, ReservaInedita,
       LancadaTemPeriodo, FechamentosCertos, Lancadas
  <2>. QED
    BY <2>1, <2>2, <2>3, <2>4
<1>10. ASSUME UNCHANGED vars PROVE Linhas' /\ Itens'
  BY <1>10 DEF Inv1, TypeOK, ReservaDeQuemCria, ReservaInedita, LancadaTemPeriodo,
     PedidosCertos, ItensAceitos, FechamentosCertos, Lancadas, Aceitaveis, vars
<1>. QED
  BY <1>0, <1>1, <1>2, <1>3, <1>4, <1>5, <1>6, <1>7, <1>8, <1>9, <1>10
     DEF Next, Chamar, Prosseguir, Inv1

(* The rows, the requests and the types agree in every reachable state.    *)
LEMMA Inv1Sempre == Spec => []Inv1
<1>1. Init => Inv1
  BY MedicoesAssumption DEF Init, Inv1, TypeOK, ReservaDeQuemCria, ReservaInedita,
     LancadaTemPeriodo, PedidosCertos, ItensAceitos, FechamentosCertos,
     Concluidos, Situacao
<1>2. Inv1 /\ [Next]_vars => Inv1'
  BY PassoInv1
<1>. QED
  BY <1>1, <1>2, PTL DEF Spec

(* A closed period never reopens, for any interleaving and any deaths: the *)
(* row a late registration would create is refused by the unique index.    *)
THEOREM FechadoParaSempre == Spec => FechadoNaoReabre
<1>1. Inv1 /\ [Next]_vars =>
        [\A m \in Periodos : periodos[m] = "fechado" => periodos'[m] = "fechado"]_vars
  <2> SUFFICES ASSUME Inv1, [Next]_vars, NEW m \in Periodos,
                      periodos[m] = "fechado"
               PROVE  periodos'[m] = "fechado"
    OBVIOUS
  <2>1. ASSUME NEW p \in Pedidos, Registrar(p) PROVE periodos'[m] = "fechado"
    BY <2>1, MedicoesAssumption
       DEF Inv1, TypeOK, ReservaInedita, Registrar, PeriodosCom
  <2>2. ASSUME NEW p \in Pedidos, Fechar(p) PROVE periodos'[m] = "fechado"
    BY <2>2 DEF Inv1, TypeOK, Fechar
  <2>3. CASE UNCHANGED periodos
    BY <2>3
  <2>. QED
    BY <2>1, <2>2, <2>3 DEF Next, Chamar, Prosseguir, ImportarItem, LerPeriodo,
       LerFechamento, ValidarItens, CriarPeriodo, Conferir, Cair, vars
<1>. QED
  BY <1>1, Inv1Sempre, PTL DEF Spec, FechadoNaoReabre

-----------------------------------------------------------------------------
(* Requests in progress together know of each other, and so do closings of *)
(* one period and the requests for it that were in progress then: nothing  *)
(* begins for a period once it is closed.                                  *)
Conhecidos ==
    /\ \A p, q \in Ativos : p # q => q \in juntos[p]
    /\ \A p, q \in Pedidos :
          /\ p # q /\ pc[p] = "fechada" /\ alvo[p] = alvo[q]
          /\ q \in Ativos \/ pc[q] = "fechada"
          => q \in juntos[p] /\ p \in juntos[q]

(* What a closing counted is there, and what it missed was in progress.    *)
ContagemCerta ==
    \A p \in Pedidos : pc[p] \in {"conferida", "fechada"} =>
        /\ conferidas[p] \subseteq Lancadas(alvo[p])
        /\ Lancadas(alvo[p]) \ conferidas[p] \subseteq juntos[p]

Inv2 == Conhecidos /\ ContagemCerta

(* Every step keeps what closings counted and know.                        *)
LEMMA PassoInv2 == ASSUME Inv1, Inv2, [Next]_vars PROVE Inv2'
<1> USE DEF Inv2
<1>1. ASSUME NEW c \in Codigos, ImportarItem(c) PROVE Inv2'
  <2>1. Conhecidos'
    BY <1>1 DEF Inv1, TypeOK, PedidosCertos, Conhecidos, Ativos, Concluidos,
       ImportarItem
  <2>2. ContagemCerta'
    BY <1>1 DEF Inv1, TypeOK, PedidosCertos, Conhecidos, ContagemCerta, Lancadas,
       Ativos, Concluidos, ImportarItem
  <2>. QED
    BY <2>1, <2>2
<1>2. ASSUME NEW p \in Pedidos, NEW m \in Periodos, NEW itens \in SUBSET Item,
             LerPeriodo(p, m, itens)
      PROVE Inv2'
  <2>1. Conhecidos'
    BY <1>2 DEF Inv1, TypeOK, PedidosCertos, Conhecidos, Ativos, Concluidos,
       LerPeriodo, Comecar, Fechado
  <2>2. ContagemCerta'
    BY <1>2 DEF Inv1, TypeOK, PedidosCertos, Conhecidos, ContagemCerta, Lancadas,
       Ativos, Concluidos, LerPeriodo, Comecar, Fechado
  <2>. QED
    BY <2>1, <2>2
<1>3. ASSUME NEW p \in Pedidos, NEW m \in Periodos, LerFechamento(p, m)
      PROVE Inv2'
  <2>1. Conhecidos'
    BY <1>3 DEF Inv1, TypeOK, PedidosCertos, Conhecidos, Ativos, Concluidos,
       LerFechamento, Comecar, Fechavel
  <2>2. ContagemCerta'
    BY <1>3 DEF Inv1, TypeOK, PedidosCertos, Conhecidos, ContagemCerta, Lancadas,
       Ativos, Concluidos, LerFechamento, Comecar, Fechavel
  <2>. QED
    BY <2>1, <2>2
<1>4. ASSUME NEW p \in Pedidos, ValidarItens(p) PROVE Inv2'
  <2>1. Conhecidos'
    BY <1>4 DEF Inv1, TypeOK, PedidosCertos, Conhecidos, Ativos, Concluidos,
       ValidarItens
  <2>2. ContagemCerta'
    BY <1>4 DEF Inv1, TypeOK, PedidosCertos, Conhecidos, ContagemCerta, Lancadas,
       Ativos, Concluidos, ValidarItens
  <2>. QED
    BY <2>1, <2>2
<1>5. ASSUME NEW p \in Pedidos, CriarPeriodo(p) PROVE Inv2'
  <2>1. Conhecidos'
    BY <1>5 DEF Inv1, TypeOK, PedidosCertos, Conhecidos, Ativos, Concluidos,
       CriarPeriodo
  <2>2. ContagemCerta'
    BY <1>5 DEF Inv1, TypeOK, PedidosCertos, Conhecidos, ContagemCerta, Lancadas,
       Ativos, Concluidos, CriarPeriodo
  <2>. QED
    BY <2>1, <2>2
<1>6. ASSUME NEW p \in Pedidos, Registrar(p) PROVE Inv2'
  <2>1. Conhecidos'
    BY <1>6 DEF Inv1, TypeOK, PedidosCertos, Conhecidos, Ativos, Concluidos,
       Registrar
  <2>2. ContagemCerta'
    BY <1>6 DEF Inv1, TypeOK, PedidosCertos, Conhecidos, ContagemCerta, Lancadas,
       Ativos, Concluidos, Registrar
  <2>. QED
    BY <2>1, <2>2
<1>7. ASSUME NEW p \in Pedidos, Conferir(p) PROVE Inv2'
  <2>1. Conhecidos'
    BY <1>7 DEF Inv1, TypeOK, PedidosCertos, Conhecidos, Ativos, Concluidos,
       Conferir
  <2>2. ContagemCerta'
    BY <1>7 DEF Inv1, TypeOK, PedidosCertos, Conhecidos, ContagemCerta, Lancadas,
       Ativos, Concluidos, Conferir
  <2>. QED
    BY <2>1, <2>2
<1>8. ASSUME NEW p \in Pedidos, Fechar(p) PROVE Inv2'
  <2>1. Conhecidos'
    BY <1>8 DEF Inv1, TypeOK, PedidosCertos, Conhecidos, Ativos, Concluidos,
       Fechar
  <2>2. ContagemCerta'
    BY <1>8 DEF Inv1, TypeOK, PedidosCertos, Conhecidos, ContagemCerta, Lancadas,
       Ativos, Concluidos, Fechar
  <2>. QED
    BY <2>1, <2>2
<1>9. ASSUME NEW p \in Pedidos, Cair(p) PROVE Inv2'
  <2>1. Conhecidos'
    BY <1>9 DEF Inv1, TypeOK, PedidosCertos, Conhecidos, Ativos, Concluidos,
       Cair
  <2>2. ContagemCerta'
    BY <1>9 DEF Inv1, TypeOK, PedidosCertos, Conhecidos, ContagemCerta, Lancadas,
       Ativos, Concluidos, Cair
  <2>. QED
    BY <2>1, <2>2
<1>10. ASSUME UNCHANGED vars PROVE Inv2'
  <2>1. Conhecidos'
    BY <1>10 DEF Inv1, TypeOK, PedidosCertos, Conhecidos, Ativos, Concluidos,
       vars
  <2>2. ContagemCerta'
    BY <1>10 DEF Inv1, TypeOK, PedidosCertos, Conhecidos, ContagemCerta, Lancadas,
       Ativos, Concluidos, vars
  <2>. QED
    BY <2>1, <2>2
<1>. QED
  BY <1>1, <1>2, <1>3, <1>4, <1>5, <1>6, <1>7, <1>8, <1>9, <1>10
     DEF Next, Chamar, Prosseguir

(* A closed period is regular, its closing counted every measurement but   *)
(* those of requests in progress along with it, only such closings close   *)
(* it too, and nobody is left waiting for its row: fechar_periodo against  *)
(* registrar_medicao without a lock, for any number of both.               *)
THEOREM FechamentoSempreIntegro == Spec => []FechamentoIntegro
<1>1. Init => Inv2
  BY DEF Init, Inv2, Conhecidos, ContagemCerta, Ativos, Concluidos
<1>2. Inv1 /\ Inv2 /\ [Next]_vars => Inv2'
  BY PassoInv2
<1>3. Inv1 /\ Inv2 => FechamentoIntegro
  <2> SUFFICES ASSUME Inv1, Inv2 PROVE FechamentoIntegro
    OBVIOUS
  <2>1. FechadoRegular
    BY DEF Inv1, ItensAceitos, FechamentosCertos, FechadoRegular, Aceitaveis, Lancadas
  <2>2. FechamentoConfere
    BY DEF Inv1, Inv2, FechamentosCertos, ContagemCerta, FechamentoConfere
  <2>3. FechamentoUnico
    BY DEF Inv2, Conhecidos, FechamentoUnico
  <2>. QED
    BY <2>1, <2>2, <2>3 DEF Inv1, FechamentoIntegro
<1>. QED
  BY <1>1, <1>2, <1>3, Inv1Sempre, PTL DEF Spec
=============================================================================
