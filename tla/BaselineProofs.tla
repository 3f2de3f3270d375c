--------------------------- MODULE BaselineProofs ---------------------------
(***************************************************************************)
(* Proofs about Baseline, for any batches, codes, imports, approvals and   *)
(* edits of the obra, and any number of deaths.                            *)
(***************************************************************************)
EXTENDS Baseline, FiniteSetTheorems, WellFoundedInduction, TLAPS

Itens == [cod : Codigos, x : Valores, y : Valores]
Lidas == SUBSET (Ids \X Linha)
Objetos == [por : Pedidos, orc : Lidas, cron : Lidas]
Metas == [outros : {0, 1}, base : Bases \cup {Nenhum}]
Edicoes == [lida : Metas, nova : [outros : {0, 1}, base : {Nenhum}]]
Editados == [por : Pedidos, outros : {0, 1}]
Requisicoes == [tab : {"orc", "cron"}, lote : Seq(Itens), pend : Pendentes \cup {Nenhum},
                meta : Metas \cup Edicoes \cup {Nenhum}, orc : Lidas, cron : Lidas]
Fases == Concluidos \cup {"importando", "validado", "obraLida", "orcamentoLido",
                          "cronogramaLido", "guardado", "editando"}
Aprovando == {"validado", "obraLida", "orcamentoLido", "cronogramaLido", "guardado"}

(* What each request holds, phase by phase.                                *)
PedidoCerto(p) ==
    /\ pc[p] = "importando" => p \in Importadores
    /\ pc[p] \in Aprovando => p \in Aprovadores
    /\ pc[p] \in Aprovando \ {"validado"} => pedido[p].meta \in Metas
    /\ pc[p] = "editando" => p \in Editores /\ pedido[p].meta \in Edicoes
    /\ IsFiniteSet(pedido[p].orc) /\ IsFiniteSet(pedido[p].cron)

InvT == /\ TypeOK
        /\ obra \in Metas /\ objeto \in Objetos \cup {Nenhum}
        /\ editado \in Editados \cup {Nenhum}
        /\ pedido \in [Pedidos -> Requisicoes]
        /\ \A p \in Pedidos : PedidoCerto(p)

(* Requests in progress at the same time know of each other.               *)
InvJ == \A p \in Pedidos :
            /\ pc[p] = "livre" => juntos[p] = {}
            /\ \A q \in Pedidos : p # q /\ p \in Ativos /\ q \in Ativos => q \in juntos[p]

(* A held row is held by an import in progress that wrote it; the row that *)
(* is about to be sent was seen, or was not, by its own transaction, and a *)
(* new activity is of the import that found none.                          *)
PendenteCerto(p) ==
    LET e == pedido[p].pend IN
    /\ pc[p] # "importando" => e = Nenhum
    /\ e # Nenhum => /\ e.lida = Nenhum => escrita[p][e.id] = Nenhum
                     /\ e.lida # Nenhum => Vista(p, e.id) # Nenhum
                     /\ e.lida = Nenhum /\ e.id.tab = "cron" => e.id.autor = p
InvL == /\ EscritaTravada
        /\ \A i \in Ids : trava[i] # Nenhum => pc[trava[i]] = "importando"
        /\ \A p \in Pedidos : PendenteCerto(p)

(* An activity is in the table, in the transaction of its import or about  *)
(* to be sent by it.                                                       *)
Atividades == {i \in Ids : i.tab = "cron"}
Presente(i) ==
    \/ linhas[i] # Nenhum
    \/ escrita[i.autor][i] # Nenhum
    \/ LET e == pedido[i.autor].pend IN e # Nenhum /\ e.id = i /\ e.lida = Nenhum
InvU == /\ \A p \in Pedidos, i \in Atividades :
              escrita[p][i] # Nenhum => i.autor = p \/ linhas[i] # Nenhum
        /\ \A i, j \in Atividades :
              Presente(i) /\ Presente(j) /\ i.cod = j.cod => i = j \/ j.autor \in juntos[i.autor]

(* While no two imports were in progress together, what a pending row was  *)
(* read as is still the row.                                               *)
Isolados == \A p, q \in Importadores : q \notin juntos[p]
Coerente(l) == l # Nenhum => l.doc = <<l.x, l.y>>
InvC == Isolados =>
            /\ \A i \in Ids : Coerente(linhas[i])
            /\ \A p \in Pedidos, i \in Ids : Coerente(escrita[p][i])
            /\ \A p \in Pedidos :
                  LET e == pedido[p].pend IN
                  e # Nenhum => /\ e.linha.doc = <<e.linha.x, e.linha.y>>
                                /\ e.lida # Nenhum => e.lida = Vista(p, e.id)

(* An approval found rows, and its snapshot is the one of the day unless   *)
(* another approval was in progress along with it.                         *)
AprovacaoCerta(p) ==
    /\ pc[p] \in Aprovando => Pronto
    /\ pc[p] \in {"orcamentoLido", "cronogramaLido", "guardado"} => pedido[p].orc # {}
    /\ pc[p] \in {"cronogramaLido", "guardado"} => pedido[p].cron # {}
    /\ pc[p] = "guardado" =>
          /\ objeto # Nenhum
          /\ \/ /\ objeto.por = p
                /\ objeto.orc = pedido[p].orc /\ objeto.cron = pedido[p].cron
             \/ objeto.por \in juntos[p]
SnapshotCerto ==
    obra.base # Nenhum =>
        /\ objeto # Nenhum
        /\ \/ /\ objeto.por = obra.base.por
              /\ Cardinality(objeto.orc) = obra.base.orc
              /\ Cardinality(objeto.cron) = obra.base.cron
           \/ objeto.por \in juntos[obra.base.por]
           \/ pc[objeto.por] \in {"guardado", "morto"}
InvB == /\ \A p \in Pedidos : AprovacaoCerta(p)
        /\ BaselineCompleto /\ SnapshotCerto

(* An edit alone in its time finds the obra as it read it, and what an     *)
(* approval read of the obra still has the last edit that was alone.       *)
SemOutros(p) == juntos[p] \cap (Aprovadores \cup Editores) = {}
InvE == /\ EdicaoPrevalece
        /\ \A p \in Pedidos :
              /\ pc[p] = "editando" /\ SemOutros(p) => obra = pedido[p].meta.lida
              /\ pc[p] \in Aprovando \ {"validado"} /\ editado # Nenhum /\ SemOutros(editado.por)
                    => pedido[p].meta.outros = editado.outros

LEMMA TipoAtualizada ==
    ASSUME NEW a \in Linha, NEW l \in Linha, NEW n \in Linha
    PROVE  /\ Atualizada(a, l, n) \in Linha
           /\ a = l => Atualizada(a, l, n) = n
BY DEF Atualizada, Linha


LEMMA TipoSemPedido == SemPedido \in Requisicoes /\ IsFiniteSet({})
<1>1. <<>> \in Seq(Itens)  OBVIOUS
<1>2. {} \in Lidas  BY DEF Lidas
<1> QED  BY <1>1, <1>2, FS_EmptySet DEF SemPedido, Requisicoes

(* What a request that ends leaves, variable by variable.                  *)
LEMMA Fim ==
    ASSUME InvT, NEW p \in Pedidos, NEW fim \in Concluidos, Encerrar(p, fim)
    PROVE  /\ trava' \in [Ids -> Importadores \cup {Nenhum}]
           /\ escrita' \in [Pedidos -> [Ids -> Linha \cup {Nenhum}]]
           /\ pc' \in [Pedidos -> Fases]
           /\ pedido' \in [Pedidos -> Requisicoes]
           /\ \A i \in Ids : trava'[i] = IF trava[i] = p THEN Nenhum ELSE trava[i]
           /\ \A q \in Pedidos, i \in Ids :
                 escrita'[q][i] = IF q = p THEN Nenhum ELSE escrita[q][i]
           /\ \A q \in Pedidos : /\ pc'[q] = IF q = p THEN fim ELSE pc[q]
                                 /\ pedido'[q] = IF q = p THEN SemPedido ELSE pedido[q]
<1>1. /\ trava \in [Ids -> Importadores \cup {Nenhum}]
      /\ escrita \in [Pedidos -> [Ids -> Linha \cup {Nenhum}]]
      /\ pc \in [Pedidos -> Fases]
      /\ pedido \in [Pedidos -> Requisicoes]
  BY DEF InvT, TypeOK, Fases
<1>2. /\ trava' = [i \in Ids |-> IF trava[i] = p THEN Nenhum ELSE trava[i]]
      /\ escrita' = [escrita EXCEPT ![p] = [i \in Ids |-> Nenhum]]
      /\ pc' = [pc EXCEPT ![p] = fim]
      /\ pedido' = [pedido EXCEPT ![p] = SemPedido]
  BY DEF Encerrar
<1>3. [i \in Ids |-> Nenhum] \in [Ids -> Linha \cup {Nenhum}]  OBVIOUS
<1>4. fim \in Fases  BY DEF Fases
<1>5. trava' \in [Ids -> Importadores \cup {Nenhum}]  BY <1>1, <1>2
<1>6. escrita' \in [Pedidos -> [Ids -> Linha \cup {Nenhum}]]  BY <1>1, <1>2, <1>3
<1>7. pc' \in [Pedidos -> Fases] /\ pedido' \in [Pedidos -> Requisicoes]
  BY <1>1, <1>2, <1>4, TipoSemPedido
<1>8. \A i \in Ids : trava'[i] = IF trava[i] = p THEN Nenhum ELSE trava[i]  BY <1>2
<1>9. \A q \in Pedidos, i \in Ids : escrita'[q][i] = IF q = p THEN Nenhum ELSE escrita[q][i]
  BY <1>1, <1>2
<1>10. \A q \in Pedidos : /\ pc'[q] = IF q = p THEN fim ELSE pc[q]
                          /\ pedido'[q] = IF q = p THEN SemPedido ELSE pedido[q]
  BY <1>1, <1>2
<1> QED  BY <1>5, <1>6, <1>7, <1>8, <1>9, <1>10

(* What a request that begins does to the history of who met whom.         *)
LEMMA Inicio ==
    ASSUME InvT, NEW p \in Pedidos, Comecar(p)
    PROVE  /\ pc[p] = "livre" /\ p \notin Ativos
           /\ juntos' \in [Pedidos -> SUBSET Pedidos]
           /\ juntos'[p] = Ativos
           /\ \A q \in Pedidos : q # p =>
                 juntos'[q] = IF q \in Ativos THEN juntos[q] \cup {p} ELSE juntos[q]
<1>1. juntos \in [Pedidos -> SUBSET Pedidos] /\ Ativos \in SUBSET Pedidos
  BY DEF InvT, TypeOK, Ativos
<1>2. juntos' = [q \in Pedidos |->
                    IF q = p THEN Ativos
                    ELSE IF q \in Ativos THEN juntos[q] \cup {p} ELSE juntos[q]]
  BY DEF Comecar
<1>3. pc[p] = "livre" /\ p \notin Ativos  BY DEF Comecar, Ativos, Concluidos
<1>4. juntos' \in [Pedidos -> SUBSET Pedidos]  BY <1>1, <1>2
<1>5. juntos'[p] = Ativos  BY <1>2
<1>6. \A q \in Pedidos : q # p =>
         juntos'[q] = IF q \in Ativos THEN juntos[q] \cup {p} ELSE juntos[q]
  BY <1>2
<1> QED  BY <1>3, <1>4, <1>5, <1>6

LEMMA TipoVista ==
    ASSUME InvT, NEW p \in Pedidos, NEW i \in Ids
    PROVE  Vista(p, i) \in Linha \cup {Nenhum}
BY DEF InvT, TypeOK, Vista

LEMMA IdsFinito == IsFiniteSet(Ids)
<1> DEFINE F == {"orc", "cron"} \X (Codigos \X (Importadores \cup {Nenhum}))
           S == [tab : {"orc", "cron"}, cod : Codigos, autor : Importadores \cup {Nenhum}]
<1>1. IsFiniteSet({"orc", "cron"})
  <2>1. IsFiniteSet({"orc"}) /\ IsFiniteSet({"cron"})  BY FS_Singleton
  <2>2. {"orc", "cron"} = {"orc"} \cup {"cron"}  OBVIOUS
  <2> QED  BY <2>1, <2>2, FS_Union
<1>2. IsFiniteSet(Importadores \cup {Nenhum})
  BY FS_AddElement, BaselineAssumption
<1>3. IsFiniteSet(Codigos \X (Importadores \cup {Nenhum}))
  BY <1>2, FS_Product, BaselineAssumption
<1>4. IsFiniteSet(F)  BY <1>1, <1>3, FS_Product
<1> DEFINE f == [t \in F |-> [tab |-> t[1], cod |-> t[2][1], autor |-> t[2][2]]]
<1>5. f \in Surjection(F, S)
  <2>1. f \in [F -> S]  OBVIOUS
  <2>2. ASSUME NEW r \in S PROVE \E t \in F : f[t] = r
    <3> DEFINE t == <<r.tab, <<r.cod, r.autor>>>>
    <3>1. t \in F  OBVIOUS
    <3>2. f[t] = [tab |-> r.tab, cod |-> r.cod, autor |-> r.autor]  BY <3>1
    <3>3. r = [tab |-> r.tab, cod |-> r.cod, autor |-> r.autor]  OBVIOUS
    <3> QED  BY <3>1, <3>2, <3>3
  <2> QED  BY <2>1, <2>2 DEF Surjection
<1>6. IsFiniteSet(S)  BY <1>4, <1>5, FS_Surjection
<1>7. Ids \in SUBSET S  BY DEF Ids
<1> QED  BY <1>6, <1>7, FS_Subset

(* The rows an approval reads.                                             *)
LEMMA TipoLeitura ==
    ASSUME InvT, NEW t \in {"orc", "cron"}
    PROVE  /\ {<<i, linhas[i]>> : i \in Da(t)} \in Lidas
           /\ IsFiniteSet({<<i, linhas[i]>> : i \in Da(t)})
<1>1. Da(t) \in SUBSET Ids  BY DEF Da
<1>2. \A i \in Da(t) : linhas[i] \in Linha  BY DEF Da, InvT, TypeOK
<1>3. {<<i, linhas[i]>> : i \in Da(t)} \in Lidas  BY <1>1, <1>2 DEF Lidas
<1>4. IsFiniteSet(Da(t))  BY <1>1, IdsFinito, FS_Subset
<1> DEFINE f == [i \in Da(t) |-> <<i, linhas[i]>>]
           L == {<<i, linhas[i]>> : i \in Da(t)}
<1>5. f \in Surjection(Da(t), L)  BY DEF Surjection
<1>6. IsFiniteSet(L)  BY <1>4, <1>5, FS_Surjection
<1> QED  BY <1>3, <1>6

-----------------------------------------------------------------------------
(* The types, action by action.                                            *)

LEMMA TipoFim ==
    ASSUME InvT, NEW p \in Pedidos, NEW fim \in Concluidos, Encerrar(p, fim),
           linhas' \in [Ids -> Linha \cup {Nenhum}], obra' \in Metas, objeto' = objeto,
           juntos' = juntos, editado' \in Editados \cup {Nenhum}, quedas' \in Nat
    PROVE  InvT'
<1>1. /\ trava' \in [Ids -> Importadores \cup {Nenhum}]
      /\ escrita' \in [Pedidos -> [Ids -> Linha \cup {Nenhum}]]
      /\ pc' \in [Pedidos -> Fases]
      /\ pedido' \in [Pedidos -> Requisicoes]
      /\ \A q \in Pedidos : /\ pc'[q] = IF q = p THEN fim ELSE pc[q]
                            /\ pedido'[q] = IF q = p THEN SemPedido ELSE pedido[q]
  BY Fim
<1>2. TypeOK'
  <2>1. obra'.outros \in {0, 1}  BY DEF Metas
  <2>2. juntos' \in [Pedidos -> SUBSET Pedidos]  BY DEF InvT, TypeOK
  <2> QED  BY <1>1, <2>1, <2>2 DEF TypeOK, Fases
<1>3. \A q \in Pedidos : PedidoCerto(q)'
  <2> TAKE q \in Pedidos
  <2>1. CASE q = p
    <3>1. pc'[q] \in Concluidos /\ pedido'[q] = SemPedido  BY <1>1, <2>1
    <3>2. IsFiniteSet(pedido'[q].orc) /\ IsFiniteSet(pedido'[q].cron)
      BY <3>1, TipoSemPedido DEF SemPedido
    <3> QED  BY <3>1, <3>2 DEF PedidoCerto, Concluidos, Aprovando
  <2>2. CASE q # p
    <3>1. pc'[q] = pc[q] /\ pedido'[q] = pedido[q]  BY <1>1, <2>2
    <3>2. PedidoCerto(q)  BY DEF InvT
    <3> QED  BY <3>1, <3>2 DEF PedidoCerto
  <2> QED  BY <2>1, <2>2
<1>4. objeto' \in Objetos \cup {Nenhum}  BY DEF InvT
<1> QED  BY <1>1, <1>2, <1>3, <1>4 DEF InvT

(* A request that begins or takes a step has a new phase and new notes.    *)
Passo(p, f, r) ==
    /\ f \in Fases /\ r \in Requisicoes
    /\ pc' = [pc EXCEPT ![p] = f] /\ pedido' = [pedido EXCEPT ![p] = r]
    /\ f = "importando" => p \in Importadores
    /\ f \in Aprovando => p \in Aprovadores
    /\ f \in Aprovando \ {"validado"} => r.meta \in Metas
    /\ f = "editando" => p \in Editores /\ r.meta \in Edicoes
    /\ IsFiniteSet(r.orc) /\ IsFiniteSet(r.cron)
    /\ linhas' = linhas /\ obra' = obra /\ editado' = editado /\ quedas' = quedas
    /\ objeto' \in Objetos \cup {Nenhum}
    /\ juntos' \in [Pedidos -> SUBSET Pedidos]
    /\ trava' \in [Ids -> Importadores \cup {Nenhum}]
    /\ escrita' \in [Pedidos -> [Ids -> Linha \cup {Nenhum}]]

LEMMA TipoPasso ==
    ASSUME InvT, NEW p \in Pedidos, NEW f, NEW r, Passo(p, f, r)
    PROVE  /\ InvT'
           /\ \A q \in Pedidos : /\ pc'[q] = IF q = p THEN f ELSE pc[q]
                                 /\ pedido'[q] = IF q = p THEN r ELSE pedido[q]
<1>1. pc \in [Pedidos -> Fases] /\ pedido \in [Pedidos -> Requisicoes]
  BY DEF InvT, TypeOK, Fases
<1> USE DEF Passo
<1>2. \A q \in Pedidos : /\ pc'[q] = IF q = p THEN f ELSE pc[q]
                         /\ pedido'[q] = IF q = p THEN r ELSE pedido[q]
  BY <1>1
<1>3. pc' \in [Pedidos -> Fases] /\ pedido' \in [Pedidos -> Requisicoes]
  BY <1>1
<1>4. TypeOK'
  <2>1. linhas' \in [Ids -> Linha \cup {Nenhum}] /\ obra'.outros \in {0, 1} /\ quedas' \in Nat
    BY DEF InvT, TypeOK
  <2> QED  BY <1>3, <2>1 DEF TypeOK, Fases
<1>5. \A q \in Pedidos : PedidoCerto(q)'
  <2> TAKE q \in Pedidos
  <2>1. CASE q = p
    <3>1. pc'[q] = f /\ pedido'[q] = r  BY <1>2, <2>1
    <3> QED  BY <2>1, <3>1 DEF PedidoCerto
  <2>2. CASE q # p
    <3>1. pc'[q] = pc[q] /\ pedido'[q] = pedido[q]  BY <1>2, <2>2
    <3>2. PedidoCerto(q)  BY DEF InvT
    <3> QED  BY <3>1, <3>2 DEF PedidoCerto
  <2> QED  BY <2>1, <2>2
<1>6. obra' \in Metas /\ editado' \in Editados \cup {Nenhum}  BY DEF InvT
<1>7. InvT'  BY <1>3, <1>4, <1>5, <1>6 DEF InvT
<1> QED  BY <1>2, <1>7

LEMMA TiposDe ==
    ASSUME InvT, NEW p \in Pedidos
    PROVE  /\ pedido[p] \in Requisicoes /\ pc[p] \in Fases
           /\ linhas \in [Ids -> Linha \cup {Nenhum}]
           /\ trava \in [Ids -> Importadores \cup {Nenhum}]
           /\ escrita \in [Pedidos -> [Ids -> Linha \cup {Nenhum}]]
           /\ pc \in [Pedidos -> Fases] /\ pedido \in [Pedidos -> Requisicoes]
           /\ juntos \in [Pedidos -> SUBSET Pedidos]
           /\ obra \in Metas /\ objeto \in Objetos \cup {Nenhum}
           /\ editado \in Editados \cup {Nenhum} /\ quedas \in Nat
           /\ IsFiniteSet(pedido[p].orc) /\ IsFiniteSet(pedido[p].cron)
<1>1. pc \in [Pedidos -> Fases]  BY DEF InvT, TypeOK, Fases
<1> QED  BY <1>1 DEF InvT, TypeOK, PedidoCerto

LEMMA ImportarFaz ==
    ASSUME InvT, NEW p \in Pedidos, NEW t \in {"orc", "cron"}, NEW l \in Lotes, Importar(p, t, l)
    PROVE  /\ InvT'
           /\ p \in Importadores
           /\ \A q \in Pedidos : q # p => pc'[q] = pc[q] /\ pedido'[q] = pedido[q]
           /\ pc'[p] \in {"recusado", "importando"}
           /\ pedido'[p].pend = Nenhum
<1> DEFINE r == [SemPedido EXCEPT !.tab = t, !.lote = l]
           fase == IF l = <<>> THEN "recusado" ELSE "importando"
<1>1. l \in Seq(Itens)  BY BaselineAssumption DEF Itens
<1>2. r \in Requisicoes /\ IsFiniteSet(r.orc) /\ IsFiniteSet(r.cron) /\ r.pend = Nenhum
  <2>1. SemPedido \in Requisicoes /\ IsFiniteSet({})  BY TipoSemPedido
  <2>2. SemPedido.orc = {} /\ SemPedido.cron = {} /\ SemPedido.pend = Nenhum
    BY DEF SemPedido
  <2>3. r \in Requisicoes /\ r.orc = SemPedido.orc /\ r.cron = SemPedido.cron
        /\ r.pend = SemPedido.pend
    BY <1>1, <2>1 DEF Requisicoes
  <2> QED  BY <2>1, <2>2, <2>3
<1>3. fase \in {"recusado", "importando"} /\ fase \in Fases  BY DEF Fases, Concluidos
<1>4. p \in Importadores /\ pc' = [pc EXCEPT ![p] = fase] /\ pedido' = [pedido EXCEPT ![p] = r]
  BY DEF Importar
<1>5. juntos' \in [Pedidos -> SUBSET Pedidos]  BY Inicio DEF Importar
<1>6. /\ linhas' = linhas /\ trava' = trava /\ escrita' = escrita
      /\ obra' = obra /\ objeto' = objeto /\ quedas' = quedas /\ editado' = editado
  BY DEF Importar
<1>7. fase \notin Aprovando /\ fase # "editando"  BY <1>3 DEF Aprovando
<1> HIDE DEF r, fase
<1>8. /\ InvT'
      /\ \A q \in Pedidos : /\ pc'[q] = IF q = p THEN fase ELSE pc[q]
                            /\ pedido'[q] = IF q = p THEN r ELSE pedido[q]
  <2>1. /\ trava' \in [Ids -> Importadores \cup {Nenhum}]
        /\ escrita' \in [Pedidos -> [Ids -> Linha \cup {Nenhum}]]
        /\ objeto' \in Objetos \cup {Nenhum}
    BY <1>6, TiposDe
  <2>2. /\ fase = "importando" => p \in Importadores
        /\ fase \in Aprovando => p \in Aprovadores
        /\ fase \in Aprovando \ {"validado"} => r.meta \in Metas
        /\ fase = "editando" => p \in Editores /\ r.meta \in Edicoes
    BY <1>4, <1>7
  <2>3. Passo(p, fase, r)  BY <1>2, <1>3, <1>4, <1>5, <1>6, <2>1, <2>2 DEF Passo
  <2> QED  BY <2>3, TipoPasso
<1> QED  BY <1>2, <1>3, <1>4, <1>8

LEMMA LerLinhaFaz ==
    ASSUME InvT, NEW p \in Pedidos, LerLinha(p)
    PROVE  /\ InvT' /\ p \in Importadores
           /\ \A q \in Pedidos : /\ pc'[q] = pc[q]
                                 /\ q # p => pedido'[q] = pedido[q]
           /\ \E i \in Ids, c \in Codigos, n \in Itens :
                 LET ids == Achadas(p, pedido[p].tab, c) IN
                 /\ i.tab = pedido[p].tab /\ i.cod = c
                 /\ IF ids = {} THEN i.tab = "cron" => i.autor = p ELSE i \in ids
                 /\ pedido'[p].pend = [id |-> i, lida |-> IF ids = {} THEN Nenhum ELSE Vista(p, i),
                                       linha |-> Nova(n)]
<1> DEFINE r == pedido[p]
           c == Head(r.lote).cod
           n == Head(r.lote)
           nova == [tab |-> r.tab, cod |-> c,
                    autor |-> IF r.tab = "orc" THEN Nenhum ELSE p]
           ids == Achadas(p, r.tab, c)
<1>1. /\ pc[p] = "importando" /\ r.pend = Nenhum /\ r.lote # <<>>
      /\ linhas' = linhas /\ trava' = trava /\ escrita' = escrita /\ obra' = obra
      /\ objeto' = objeto /\ pc' = pc /\ quedas' = quedas /\ juntos' = juntos
      /\ editado' = editado
  BY DEF LerLinha
<1>2. PICK i \in IF ids = {} THEN {nova} ELSE ids :
         pedido' = [pedido EXCEPT ![p] = [r EXCEPT
             !.lote = Tail(@),
             !.pend = [id |-> i, lida |-> IF ids = {} THEN Nenhum ELSE Vista(p, i),
                       linha |-> Nova(Head(r.lote))]]]
  BY DEF LerLinha
<1>3. r \in Requisicoes /\ IsFiniteSet(r.orc) /\ IsFiniteSet(r.cron)  BY TiposDe
<1>4. p \in Importadores  BY <1>1 DEF InvT, PedidoCerto
<1>5. n \in Itens /\ Tail(r.lote) \in Seq(Itens) /\ c \in Codigos
  <2>1. r.lote \in Seq(Itens)  BY <1>3 DEF Requisicoes
  <2>2. n \in Itens /\ Tail(r.lote) \in Seq(Itens)  BY <1>1, <2>1
  <2> QED  BY <2>2 DEF Itens
<1>6. /\ i \in Ids /\ i.tab = r.tab /\ i.cod = c
      /\ IF ids = {} THEN i.tab = "cron" => i.autor = p ELSE i \in ids
  <2>1. r.tab \in {"orc", "cron"}  BY <1>3 DEF Requisicoes
  <2>2. CASE ids = {}
    <3>1. i = nova  BY <1>2, <2>2
    <3>2. nova \in Ids  BY <1>4, <1>5, <2>1 DEF Ids
    <3>3. nova.tab = r.tab /\ nova.cod = c /\ (nova.tab = "cron" => nova.autor = p)  BY <2>1
    <3> QED  BY <2>2, <3>1, <3>2, <3>3
  <2>3. CASE ids # {}
    <3>1. i \in ids  BY <1>2, <2>3
    <3> QED  BY <2>3, <3>1 DEF Achadas
  <2> QED  BY <2>2, <2>3
<1> DEFINE e == [id |-> i, lida |-> IF ids = {} THEN Nenhum ELSE Vista(p, i),
                 linha |-> Nova(Head(r.lote))]
           s == [r EXCEPT !.lote = Tail(@), !.pend = e]
<1>7. e \in Pendentes
  <2>1. Vista(p, i) \in Linha \cup {Nenhum}  BY <1>6, TipoVista
  <2>2. Nova(n) \in Linha  BY <1>5 DEF Nova, Linha, Itens
  <2> QED  BY <1>6, <2>1, <2>2 DEF Pendentes
<1>8. /\ s \in Requisicoes /\ s.pend = e /\ s.orc = r.orc /\ s.cron = r.cron
  <2> HIDE DEF e
  <2> QED  BY <1>3, <1>5, <1>7 DEF Requisicoes
<1>9. pedido' = [pedido EXCEPT ![p] = s]  BY <1>2
<1> HIDE DEF s, e, ids, c, n, nova
<1>10. Passo(p, "importando", s)
  <2>1. pc' = [pc EXCEPT ![p] = "importando"]
    BY <1>1, TiposDe
  <2>2. "importando" \in Fases /\ "importando" \notin Aprovando  BY DEF Fases, Aprovando
  <2>3. /\ juntos' \in [Pedidos -> SUBSET Pedidos] /\ objeto' \in Objetos \cup {Nenhum}
        /\ trava' \in [Ids -> Importadores \cup {Nenhum}]
        /\ escrita' \in [Pedidos -> [Ids -> Linha \cup {Nenhum}]]
    BY <1>1, TiposDe
  <2> QED  BY <1>1, <1>3, <1>4, <1>8, <1>9, <2>1, <2>2, <2>3 DEF Passo
<1>11. /\ InvT'
       /\ \A q \in Pedidos : pedido'[q] = IF q = p THEN s ELSE pedido[q]
  BY <1>10, TipoPasso
<1>12. pedido'[p].pend = e  BY <1>8, <1>11
<1>13. /\ i \in Ids /\ c \in Codigos /\ n \in Itens
       /\ LET cs == Achadas(p, pedido[p].tab, c) IN
                 /\ i.tab = pedido[p].tab /\ i.cod = c
                 /\ IF cs = {} THEN i.tab = "cron" => i.autor = p ELSE i \in cs
                 /\ pedido'[p].pend = [id |-> i, lida |-> IF cs = {} THEN Nenhum ELSE Vista(p, i),
                                       linha |-> Nova(n)]
  BY <1>5, <1>6, <1>12 DEF e, n, ids
<1> QED  BY <1>1, <1>4, <1>11, <1>13

LEMMA DescarregarFaz ==
    ASSUME InvT, InvL, NEW p \in Pedidos, Descarregar(p)
    PROVE  /\ InvT' /\ p \in Importadores /\ pc[p] = "importando"
           /\ \A q \in Pedidos : /\ pc'[q] = pc[q]
                                 /\ q # p => pedido'[q] = pedido[q] /\ escrita'[q] = escrita[q]
           /\ pedido'[p].pend = Nenhum
           /\ LET e == pedido[p].pend IN
              /\ e # Nenhum /\ e \in Pendentes
              /\ \A i \in Ids : i # e.id => trava'[i] = trava[i] /\ escrita'[p][i] = escrita[p][i]
              /\ IF e.lida = e.linha
                 THEN trava' = trava /\ escrita' = escrita
                 ELSE /\ trava[e.id] \in {Nenhum, p} /\ trava'[e.id] = p
                      /\ e.lida = Nenhum => Vista(p, e.id) = Nenhum
                      /\ e.lida # Nenhum => Vista(p, e.id) # Nenhum
                      /\ escrita'[p][e.id] \in Linha
                      /\ escrita'[p][e.id] = IF e.lida = Nenhum THEN e.linha
                              ELSE Atualizada(Vista(p, e.id), e.lida, e.linha)
<1> DEFINE e == pedido[p].pend
           v == IF e.lida = Nenhum THEN e.linha ELSE Atualizada(Vista(p, e.id), e.lida, e.linha)
<1>1. /\ pc[p] = "importando" /\ e # Nenhum /\ Disponivel(p, e)
      /\ e.lida = Nenhum => Vista(p, e.id) = Nenhum
      /\ pedido' = [pedido EXCEPT ![p].pend = Nenhum]
      /\ IF e.lida = e.linha
         THEN trava' = trava /\ escrita' = escrita
         ELSE trava' = [trava EXCEPT ![e.id] = p] /\ escrita' = [escrita EXCEPT ![p][e.id] = v]
      /\ linhas' = linhas /\ obra' = obra /\ objeto' = objeto /\ pc' = pc
      /\ quedas' = quedas /\ juntos' = juntos /\ editado' = editado
  BY DEF Descarregar
<1>2. pedido[p] \in Requisicoes /\ IsFiniteSet(pedido[p].orc) /\ IsFiniteSet(pedido[p].cron)
  BY TiposDe
<1>3. /\ e \in Pendentes /\ e.id \in Ids /\ e.linha \in Linha /\ e.lida \in Linha \cup {Nenhum}
  BY <1>1, <1>2 DEF Requisicoes, Pendentes
<1>4. p \in Importadores  BY <1>1 DEF InvT, PedidoCerto
<1>5. e.lida # Nenhum => Vista(p, e.id) \in Linha
  BY <1>1, <1>3, TipoVista DEF InvL, PendenteCerto
<1>6. v \in Linha
  <2>1. CASE e.lida = Nenhum  BY <1>3, <2>1
  <2>2. CASE e.lida # Nenhum  BY <1>3, <1>5, <2>2, TipoAtualizada
  <2> QED  BY <2>1, <2>2
<1> HIDE DEF v
<1>7. /\ trava \in [Ids -> Importadores \cup {Nenhum}]
      /\ escrita \in [Pedidos -> [Ids -> Linha \cup {Nenhum}]]
  BY TiposDe
<1>8. /\ trava' \in [Ids -> Importadores \cup {Nenhum}]
      /\ escrita' \in [Pedidos -> [Ids -> Linha \cup {Nenhum}]]
      /\ \A q \in Pedidos : q # p => escrita'[q] = escrita[q]
      /\ \A i \in Ids : i # e.id => trava'[i] = trava[i] /\ escrita'[p][i] = escrita[p][i]
      /\ e.lida # e.linha => trava'[e.id] = p /\ escrita'[p][e.id] = v
  <2>1. CASE e.lida = e.linha  BY <1>1, <1>7, <2>1
  <2>2. CASE e.lida # e.linha
    <3> HIDE DEF e
    <3>1. trava' = [trava EXCEPT ![e.id] = p] /\ escrita' = [escrita EXCEPT ![p][e.id] = v]
      BY <1>1, <2>2
    <3>2. trava' \in [Ids -> Importadores \cup {Nenhum}]  BY <1>3, <1>4, <1>7, <3>1
    <3>3. escrita' = [escrita EXCEPT ![p] = [escrita[p] EXCEPT ![e.id] = v]]  BY <3>1
    <3>4. [escrita[p] EXCEPT ![e.id] = v] \in [Ids -> Linha \cup {Nenhum}]  BY <1>3, <1>6, <1>7
    <3>5. escrita' \in [Pedidos -> [Ids -> Linha \cup {Nenhum}]]  BY <1>7, <3>3, <3>4
    <3>6. \A q \in Pedidos : q # p => escrita'[q] = escrita[q]  BY <1>7, <3>3
    <3>7. escrita'[p] = [escrita[p] EXCEPT ![e.id] = v]  BY <1>7, <3>3
    <3>8. /\ \A i \in Ids : i # e.id => trava'[i] = trava[i] /\ escrita'[p][i] = escrita[p][i]
          /\ trava'[e.id] = p /\ escrita'[p][e.id] = v
      BY <1>3, <1>7, <3>1, <3>7
    <3> QED  BY <3>2, <3>5, <3>6, <3>8
  <2> QED  BY <2>1, <2>2
<1> DEFINE s == [pedido[p] EXCEPT !.pend = Nenhum]
<1>9. /\ s \in Requisicoes /\ s.pend = Nenhum /\ s.orc = pedido[p].orc /\ s.cron = pedido[p].cron
  BY <1>2 DEF Requisicoes
<1>10. pedido' = [pedido EXCEPT ![p] = s]  BY <1>1
<1> HIDE DEF s, e
<1>11. Passo(p, "importando", s)
  <2>1. pc' = [pc EXCEPT ![p] = "importando"]  BY <1>1, TiposDe
  <2>2. "importando" \in Fases /\ "importando" \notin Aprovando  BY DEF Fases, Aprovando
  <2>3. juntos' \in [Pedidos -> SUBSET Pedidos] /\ objeto' \in Objetos \cup {Nenhum}
    BY <1>1, TiposDe
  <2> QED  BY <1>1, <1>2, <1>4, <1>8, <1>9, <1>10, <2>1, <2>2, <2>3 DEF Passo
<1>12. /\ InvT'
       /\ \A q \in Pedidos : pedido'[q] = IF q = p THEN s ELSE pedido[q]
  BY <1>11, TipoPasso
<1>13. e.lida # e.linha => trava[e.id] \in {Nenhum, p}  BY <1>1 DEF Disponivel
<1>14. pedido'[p].pend = Nenhum  BY <1>9, <1>12
<1>15. /\ e # Nenhum /\ e \in Pendentes
       /\ \A i \in Ids : i # e.id => trava'[i] = trava[i] /\ escrita'[p][i] = escrita[p][i]
       /\ IF e.lida = e.linha
          THEN trava' = trava /\ escrita' = escrita
          ELSE /\ trava[e.id] \in {Nenhum, p} /\ trava'[e.id] = p
               /\ e.lida = Nenhum => Vista(p, e.id) = Nenhum
               /\ e.lida # Nenhum => Vista(p, e.id) # Nenhum
               /\ escrita'[p][e.id] \in Linha
               /\ escrita'[p][e.id] = v
  BY <1>1, <1>3, <1>5, <1>6, <1>8, <1>13, NenhumAssumption
<1> QED  BY <1>1, <1>4, <1>8, <1>12, <1>14, <1>15 DEF v, e

(* Imports and edits that end, and every request that dies, leave the obra *)
(* and the object of the day as the commit says.                           *)
Recusa(p) == Colidir(p) \/ Impasse(p)

LEMMA RecusaFaz ==
    ASSUME InvT, NEW p \in Pedidos, Recusa(p)
    PROVE  /\ InvT' /\ Encerrar(p, "recusado")
           /\ pc[p] = "importando"
           /\ linhas' = linhas /\ obra' = obra /\ objeto' = objeto
           /\ juntos' = juntos /\ editado' = editado
<1>1. /\ Encerrar(p, "recusado")
      /\ linhas' = linhas /\ obra' = obra /\ objeto' = objeto
      /\ quedas' = quedas /\ juntos' = juntos /\ editado' = editado
  <2>1. CASE Colidir(p)  BY <2>1 DEF Colidir
  <2>2. CASE Impasse(p)  BY <2>2 DEF Impasse
  <2> QED  BY <2>1, <2>2 DEF Recusa
<1>2. pc[p] = "importando"
  <2>1. CASE Colidir(p)  BY <2>1 DEF Colidir
  <2>2. CASE Impasse(p)  BY <2>2 DEF Impasse, EmImpasse, Circulo, Espera
  <2> QED  BY <2>1, <2>2 DEF Recusa
<1>3. "recusado" \in Concluidos  BY DEF Concluidos
<1>4. InvT'  BY <1>1, <1>3, TipoFim, TiposDe
<1> QED  BY <1>1, <1>2, <1>4

LEMMA CairFaz ==
    ASSUME InvT, NEW p \in Pedidos, Cair(p)
    PROVE  /\ InvT' /\ Encerrar(p, "morto") /\ p \in Ativos
           /\ linhas' = linhas /\ obra' = obra /\ objeto' = objeto
           /\ juntos' = juntos /\ editado' = editado
<1>1. /\ Encerrar(p, "morto") /\ p \in Ativos
      /\ linhas' = linhas /\ obra' = obra /\ objeto' = objeto
      /\ juntos' = juntos /\ editado' = editado
      /\ quedas' \in Nat
  BY TiposDe DEF Cair
<1>2. "morto" \in Concluidos  BY DEF Concluidos
<1>3. InvT'  BY <1>1, <1>2, TipoFim, TiposDe
<1> QED  BY <1>1, <1>3

LEMMA ConfirmarFaz ==
    ASSUME InvT, NEW p \in Pedidos, ConfirmarImportacao(p)
    PROVE  /\ InvT' /\ Encerrar(p, "feito")
           /\ pc[p] = "importando" /\ p \in Importadores /\ pedido[p].pend = Nenhum
           /\ \A i \in Ids : linhas'[i] = Vista(p, i)
           /\ obra' = obra /\ objeto' = objeto /\ juntos' = juntos /\ editado' = editado
<1>1. /\ Encerrar(p, "feito")
      /\ pc[p] = "importando" /\ pedido[p].pend = Nenhum
      /\ linhas' = [i \in Ids |-> Vista(p, i)]
      /\ obra' = obra /\ objeto' = objeto /\ juntos' = juntos /\ editado' = editado
      /\ quedas' = quedas
  BY DEF ConfirmarImportacao
<1>2. p \in Importadores  BY <1>1 DEF InvT, PedidoCerto
<1>3. \A i \in Ids : Vista(p, i) \in Linha \cup {Nenhum}  BY TipoVista
<1>4. linhas' \in [Ids -> Linha \cup {Nenhum}]  BY <1>1, <1>3
<1>5. "feito" \in Concluidos  BY DEF Concluidos
<1>6. obra' \in Metas /\ editado' \in Editados \cup {Nenhum} /\ quedas' \in Nat  BY <1>1, TiposDe
<1>7. InvT'  BY <1>1, <1>4, <1>5, <1>6, TipoFim
<1>8. \A i \in Ids : linhas'[i] = Vista(p, i)  BY <1>1
<1> QED  BY <1>1, <1>2, <1>7, <1>8

LEMMA GravarBaselineFaz ==
    ASSUME InvT, NEW p \in Pedidos, GravarBaseline(p)
    PROVE  /\ InvT' /\ Encerrar(p, "feito")
           /\ pc[p] = "guardado" /\ p \in Aprovadores
           /\ linhas' = linhas /\ objeto' = objeto /\ juntos' = juntos /\ editado' = editado
           /\ obra'.outros = pedido[p].meta.outros
           /\ obra'.base = [por |-> p, orc |-> Cardinality(pedido[p].orc),
                            cron |-> Cardinality(pedido[p].cron)]
           /\ obra'.base # Nenhum
<1> DEFINE b == [por |-> p, orc |-> Cardinality(pedido[p].orc),
                 cron |-> Cardinality(pedido[p].cron)]
           m == pedido[p].meta
<1>1. /\ Encerrar(p, "feito") /\ pc[p] = "guardado"
      /\ linhas' = linhas /\ objeto' = objeto /\ juntos' = juntos /\ editado' = editado
      /\ obra' = ComBaseline(m, b) /\ quedas' = quedas
  BY DEF GravarBaseline
<1>2. p \in Aprovadores /\ m \in Metas
  <2>1. PedidoCerto(p)  BY DEF InvT
  <2> QED  BY <1>1, <2>1 DEF PedidoCerto, Aprovando
<1>3. b \in Bases
  <2>1. Cardinality(pedido[p].orc) \in Nat /\ Cardinality(pedido[p].cron) \in Nat
    BY TiposDe, FS_CardinalityType
  <2> QED  BY <2>1 DEF Bases
<1>4. obra' \in Metas /\ obra'.outros = m.outros /\ obra'.base = b
  <2> HIDE DEF b, m
  <2> QED  BY <1>1, <1>2, <1>3 DEF ComBaseline, Metas
<1>5. "feito" \in Concluidos  BY DEF Concluidos
<1>6. linhas' \in [Ids -> Linha \cup {Nenhum}] /\ editado' \in Editados \cup {Nenhum} /\ quedas' \in Nat
  BY <1>1, TiposDe
<1>7. InvT'  BY <1>1, <1>4, <1>5, <1>6, TipoFim
<1>8. b # Nenhum  BY <1>3, NenhumAssumption
<1> QED  BY <1>1, <1>2, <1>4, <1>7, <1>8

LEMMA GravarObraFaz ==
    ASSUME InvT, NEW p \in Pedidos, GravarObra(p)
    PROVE  /\ InvT' /\ Encerrar(p, "feito")
           /\ pc[p] = "editando" /\ p \in Editores /\ pedido[p].meta \in Edicoes
           /\ linhas' = linhas /\ objeto' = objeto /\ juntos' = juntos
           /\ obra' = IF pedido[p].meta.nova = pedido[p].meta.lida THEN obra
                      ELSE pedido[p].meta.nova
           /\ editado' = [por |-> p, outros |-> pedido[p].meta.nova.outros]
<1> DEFINE m == pedido[p].meta
<1>1. /\ Encerrar(p, "feito") /\ pc[p] = "editando"
      /\ linhas' = linhas /\ objeto' = objeto /\ juntos' = juntos /\ quedas' = quedas
      /\ obra' = IF m.nova = m.lida THEN obra ELSE m.nova
      /\ editado' = [por |-> p, outros |-> m.nova.outros]
  BY DEF GravarObra
<1>2. p \in Editores /\ m \in Edicoes  BY <1>1 DEF InvT, PedidoCerto
<1>3. m.nova \in Metas /\ m.nova.outros \in {0, 1}  BY <1>2 DEF Edicoes, Metas
<1>4. editado' \in Editados /\ obra' \in Metas
  <2> HIDE DEF m
  <2>1. obra \in Metas  BY TiposDe
  <2> QED  BY <1>1, <1>3, <2>1 DEF Editados
<1>5. "feito" \in Concluidos  BY DEF Concluidos
<1>6. linhas' \in [Ids -> Linha \cup {Nenhum}] /\ quedas' \in Nat  BY <1>1, TiposDe
<1>7. InvT'  BY <1>1, <1>4, <1>5, <1>6, TipoFim
<1> QED  BY <1>1, <1>2, <1>7

(* An approval that takes a step, up to the snapshot.                      *)
Avanca(p, de, para) ==
    /\ pc[p] = de /\ p \in Aprovadores
    /\ \A q \in Pedidos : /\ pc'[q] = IF q = p THEN para ELSE pc[q]
                          /\ q # p => pedido'[q] = pedido[q]
    /\ pedido'[p].pend = pedido[p].pend
    /\ linhas' = linhas /\ trava' = trava /\ escrita' = escrita /\ obra' = obra
    /\ juntos' = juntos /\ editado' = editado

LEMMA LerObraFaz ==
    ASSUME InvT, NEW p \in Pedidos, LerObra(p)
    PROVE  /\ InvT' /\ Avanca(p, "validado", "obraLida") /\ objeto' = objeto
           /\ pedido'[p].meta = obra
<1> DEFINE s == [pedido[p] EXCEPT !.meta = obra]
<1>1. /\ pc[p] = "validado" /\ pedido' = [pedido EXCEPT ![p].meta = obra]
      /\ pc' = [pc EXCEPT ![p] = "obraLida"]
      /\ linhas' = linhas /\ trava' = trava /\ escrita' = escrita /\ obra' = obra
      /\ objeto' = objeto /\ quedas' = quedas /\ juntos' = juntos /\ editado' = editado
  BY DEF LerObra
<1>2. pedido[p] \in Requisicoes /\ IsFiniteSet(pedido[p].orc) /\ IsFiniteSet(pedido[p].cron)
      /\ obra \in Metas
  BY TiposDe
<1>3. /\ s \in Requisicoes /\ s.orc = pedido[p].orc /\ s.cron = pedido[p].cron
      /\ s.meta = obra /\ s.pend = pedido[p].pend
  BY <1>2 DEF Requisicoes
<1>4. pedido' = [pedido EXCEPT ![p] = s]  BY <1>1
<1>5. p \in Aprovadores
  <2>1. PedidoCerto(p)  BY DEF InvT
  <2> QED  BY <1>1, <2>1 DEF PedidoCerto, Aprovando
<1> HIDE DEF s
<1>6. Passo(p, "obraLida", s)
  <2>1. "obraLida" \in Fases /\ "obraLida" # "editando" /\ "obraLida" # "importando"  BY DEF Fases
  <2>2. /\ juntos' \in [Pedidos -> SUBSET Pedidos] /\ objeto' \in Objetos \cup {Nenhum}
        /\ trava' \in [Ids -> Importadores \cup {Nenhum}]
        /\ escrita' \in [Pedidos -> [Ids -> Linha \cup {Nenhum}]]
    BY <1>1, TiposDe
  <2> QED  BY <1>1, <1>2, <1>3, <1>4, <1>5, <2>1, <2>2 DEF Passo
<1>7. /\ InvT'
      /\ \A q \in Pedidos : /\ pc'[q] = IF q = p THEN "obraLida" ELSE pc[q]
                            /\ pedido'[q] = IF q = p THEN s ELSE pedido[q]
  BY <1>6, TipoPasso
<1> QED  BY <1>1, <1>3, <1>5, <1>7 DEF Avanca

LEMMA ListarOrcamentoFaz ==
    ASSUME InvT, NEW p \in Pedidos, ListarOrcamento(p)
    PROVE  /\ InvT' /\ Avanca(p, "obraLida", "orcamentoLido") /\ objeto' = objeto
           /\ pedido'[p] = [pedido[p] EXCEPT !.orc = {<<i, linhas[i]>> : i \in Da("orc")}]
<1> DEFINE l == {<<i, linhas[i]>> : i \in Da("orc")}
           s == [pedido[p] EXCEPT !.orc = l]
<1>1. /\ pc[p] = "obraLida" /\ pedido' = [pedido EXCEPT ![p].orc = l]
      /\ pc' = [pc EXCEPT ![p] = "orcamentoLido"]
      /\ linhas' = linhas /\ trava' = trava /\ escrita' = escrita /\ obra' = obra
      /\ objeto' = objeto /\ quedas' = quedas /\ juntos' = juntos /\ editado' = editado
  BY DEF ListarOrcamento
<1>2. pedido[p] \in Requisicoes /\ IsFiniteSet(pedido[p].orc) /\ IsFiniteSet(pedido[p].cron)
  BY TiposDe
<1>3. l \in Lidas /\ IsFiniteSet(l)  BY TipoLeitura
<1> HIDE DEF l
<1>4. /\ s \in Requisicoes /\ s.orc = l /\ s.cron = pedido[p].cron
      /\ s.meta = pedido[p].meta /\ s.pend = pedido[p].pend
  BY <1>2, <1>3 DEF Requisicoes
<1>5. pedido' = [pedido EXCEPT ![p] = s]  BY <1>1
<1>6. p \in Aprovadores /\ pedido[p].meta \in Metas
  <2>1. PedidoCerto(p)  BY DEF InvT
  <2> QED  BY <1>1, <2>1 DEF PedidoCerto, Aprovando
<1>7. Passo(p, "orcamentoLido", s)
  <2> HIDE DEF s
  <2>1. "orcamentoLido" \in Fases /\ "orcamentoLido" # "editando" /\ "orcamentoLido" # "importando"
    BY DEF Fases
  <2>2. /\ juntos' \in [Pedidos -> SUBSET Pedidos] /\ objeto' \in Objetos \cup {Nenhum}
        /\ trava' \in [Ids -> Importadores \cup {Nenhum}]
        /\ escrita' \in [Pedidos -> [Ids -> Linha \cup {Nenhum}]]
    BY <1>1, TiposDe
  <2> QED  BY <1>1, <1>2, <1>3, <1>4, <1>5, <1>6, <2>1, <2>2 DEF Passo
<1>8. /\ InvT'
      /\ \A q \in Pedidos : /\ pc'[q] = IF q = p THEN "orcamentoLido" ELSE pc[q]
                            /\ pedido'[q] = IF q = p THEN s ELSE pedido[q]
  BY <1>7, TipoPasso
<1>9. pedido'[p] = s /\ pedido'[p].pend = pedido[p].pend  BY <1>4, <1>8
<1> QED  BY <1>1, <1>6, <1>8, <1>9 DEF Avanca, l

LEMMA ListarCronogramaFaz ==
    ASSUME InvT, NEW p \in Pedidos, ListarCronograma(p)
    PROVE  /\ InvT' /\ Avanca(p, "orcamentoLido", "cronogramaLido") /\ objeto' = objeto
           /\ pedido'[p] = [pedido[p] EXCEPT !.cron = {<<i, linhas[i]>> : i \in Da("cron")}]
<1> DEFINE l == {<<i, linhas[i]>> : i \in Da("cron")}
           s == [pedido[p] EXCEPT !.cron = l]
<1>1. /\ pc[p] = "orcamentoLido" /\ pedido' = [pedido EXCEPT ![p].cron = l]
      /\ pc' = [pc EXCEPT ![p] = "cronogramaLido"]
      /\ linhas' = linhas /\ trava' = trava /\ escrita' = escrita /\ obra' = obra
      /\ objeto' = objeto /\ quedas' = quedas /\ juntos' = juntos /\ editado' = editado
  BY DEF ListarCronograma
<1>2. pedido[p] \in Requisicoes /\ IsFiniteSet(pedido[p].orc) /\ IsFiniteSet(pedido[p].cron)
  BY TiposDe
<1>3. l \in Lidas /\ IsFiniteSet(l)  BY TipoLeitura
<1> HIDE DEF l
<1>4. /\ s \in Requisicoes /\ s.cron = l /\ s.orc = pedido[p].orc
      /\ s.meta = pedido[p].meta /\ s.pend = pedido[p].pend
  BY <1>2, <1>3 DEF Requisicoes
<1>5. pedido' = [pedido EXCEPT ![p] = s]  BY <1>1
<1>6. p \in Aprovadores /\ pedido[p].meta \in Metas
  <2>1. PedidoCerto(p)  BY DEF InvT
  <2> QED  BY <1>1, <2>1 DEF PedidoCerto, Aprovando
<1>7. Passo(p, "cronogramaLido", s)
  <2> HIDE DEF s
  <2>1. "cronogramaLido" \in Fases /\ "cronogramaLido" # "editando" /\ "cronogramaLido" # "importando"
    BY DEF Fases
  <2>2. /\ juntos' \in [Pedidos -> SUBSET Pedidos] /\ objeto' \in Objetos \cup {Nenhum}
        /\ trava' \in [Ids -> Importadores \cup {Nenhum}]
        /\ escrita' \in [Pedidos -> [Ids -> Linha \cup {Nenhum}]]
    BY <1>1, TiposDe
  <2> QED  BY <1>1, <1>2, <1>3, <1>4, <1>5, <1>6, <2>1, <2>2 DEF Passo
<1>8. /\ InvT'
      /\ \A q \in Pedidos : /\ pc'[q] = IF q = p THEN "cronogramaLido" ELSE pc[q]
                            /\ pedido'[q] = IF q = p THEN s ELSE pedido[q]
  BY <1>7, TipoPasso
<1>9. pedido'[p] = s /\ pedido'[p].pend = pedido[p].pend  BY <1>4, <1>8
<1> QED  BY <1>1, <1>6, <1>8, <1>9 DEF Avanca, l

LEMMA GuardarBaselineFaz ==
    ASSUME InvT, NEW p \in Pedidos, GuardarBaseline(p)
    PROVE  /\ InvT' /\ Avanca(p, "cronogramaLido", "guardado")
           /\ pedido' = pedido
           /\ objeto' = [por |-> p, orc |-> pedido[p].orc, cron |-> pedido[p].cron]
<1> DEFINE o == [por |-> p, orc |-> pedido[p].orc, cron |-> pedido[p].cron]
<1>1. /\ pc[p] = "cronogramaLido" /\ objeto' = o
      /\ pc' = [pc EXCEPT ![p] = "guardado"] /\ pedido' = pedido
      /\ linhas' = linhas /\ trava' = trava /\ escrita' = escrita /\ obra' = obra
      /\ quedas' = quedas /\ juntos' = juntos /\ editado' = editado
  BY DEF GuardarBaseline, ObjetoNovo
<1>2. pedido[p] \in Requisicoes /\ IsFiniteSet(pedido[p].orc) /\ IsFiniteSet(pedido[p].cron)
      /\ pedido \in [Pedidos -> Requisicoes]
  BY TiposDe
<1>3. o \in Objetos  BY <1>2 DEF Requisicoes, Objetos
<1>4. pedido' = [pedido EXCEPT ![p] = pedido[p]]  BY <1>1, <1>2
<1>5. p \in Aprovadores /\ pedido[p].meta \in Metas
  <2>1. PedidoCerto(p)  BY DEF InvT
  <2> QED  BY <1>1, <2>1 DEF PedidoCerto, Aprovando
<1>6. Passo(p, "guardado", pedido[p])
  <2> HIDE DEF o
  <2>1. "guardado" \in Fases /\ "guardado" # "editando" /\ "guardado" # "importando"
    BY DEF Fases
  <2>2. /\ juntos' \in [Pedidos -> SUBSET Pedidos] /\ objeto' \in Objetos \cup {Nenhum}
        /\ trava' \in [Ids -> Importadores \cup {Nenhum}]
        /\ escrita' \in [Pedidos -> [Ids -> Linha \cup {Nenhum}]]
    BY <1>1, <1>3, TiposDe
  <2> QED  BY <1>1, <1>2, <1>4, <1>5, <2>1, <2>2 DEF Passo
<1>7. /\ InvT'
      /\ \A q \in Pedidos : /\ pc'[q] = IF q = p THEN "guardado" ELSE pc[q]
                            /\ pedido'[q] = IF q = p THEN pedido[p] ELSE pedido[q]
  BY <1>6, TipoPasso
<1> QED  BY <1>1, <1>5, <1>7 DEF Avanca

(* A request that begins: nothing of the obra changes but who met whom.    *)
Comeca(p) ==
    /\ Comecar(p)
    /\ \A q \in Pedidos : q # p => pc'[q] = pc[q] /\ pedido'[q] = pedido[q]
    /\ pedido[p].pend = Nenhum /\ pedido'[p].pend = Nenhum
    /\ pc'[p] \in {"recusado", "importando", "validado", "editando"}
    /\ linhas' = linhas /\ trava' = trava /\ escrita' = escrita /\ obra' = obra
    /\ objeto' = objeto /\ editado' = editado

LEMMA ImportarComeca ==
    ASSUME InvT, InvL, NEW p \in Pedidos, NEW t \in {"orc", "cron"}, NEW l \in Lotes,
           Importar(p, t, l)
    PROVE  InvT' /\ Comeca(p) /\ pc'[p] \in {"recusado", "importando"}
<1>1. Comecar(p)  BY DEF Importar
<1>2. pedido[p].pend = Nenhum
  <2>1. pc[p] = "livre" /\ PendenteCerto(p)  BY <1>1, Inicio DEF InvL
  <2> QED  BY <2>1 DEF PendenteCerto
<1>3. /\ linhas' = linhas /\ trava' = trava /\ escrita' = escrita
      /\ obra' = obra /\ objeto' = objeto /\ editado' = editado
  BY DEF Importar
<1>4. /\ InvT'
      /\ \A q \in Pedidos : q # p => pc'[q] = pc[q] /\ pedido'[q] = pedido[q]
      /\ pc'[p] \in {"recusado", "importando"}
      /\ pedido'[p].pend = Nenhum
  BY ImportarFaz
<1> QED  BY <1>1, <1>2, <1>3, <1>4 DEF Comeca

LEMMA ValidarFaz ==
    ASSUME InvT, InvL, NEW p \in Pedidos, Validar(p)
    PROVE  /\ InvT' /\ Comeca(p)
           /\ pc'[p] = IF Pronto THEN "validado" ELSE "recusado"
<1> DEFINE f == IF Pronto THEN "validado" ELSE "recusado"
<1>1. /\ p \in Aprovadores /\ Comecar(p) /\ pc' = [pc EXCEPT ![p] = f]
      /\ linhas' = linhas /\ trava' = trava /\ escrita' = escrita /\ obra' = obra
      /\ objeto' = objeto /\ pedido' = pedido /\ quedas' = quedas /\ editado' = editado
  BY DEF Validar
<1>2. pedido[p] \in Requisicoes /\ IsFiniteSet(pedido[p].orc) /\ IsFiniteSet(pedido[p].cron)
      /\ pedido \in [Pedidos -> Requisicoes]
  BY TiposDe
<1>3. pedido' = [pedido EXCEPT ![p] = pedido[p]]  BY <1>1, <1>2
<1>4. f \in {"validado", "recusado"} /\ f \in Fases  BY DEF Fases, Concluidos
<1> HIDE DEF f
<1>5. f \notin Aprovando \ {"validado"} /\ f # "editando" /\ f # "importando"
  BY <1>4 DEF Aprovando
<1>6. Passo(p, f, pedido[p])
  <2>1. juntos' \in [Pedidos -> SUBSET Pedidos]  BY <1>1, Inicio
  <2>2. /\ objeto' \in Objetos \cup {Nenhum}
        /\ trava' \in [Ids -> Importadores \cup {Nenhum}]
        /\ escrita' \in [Pedidos -> [Ids -> Linha \cup {Nenhum}]]
    BY <1>1, TiposDe
  <2> QED  BY <1>1, <1>2, <1>3, <1>4, <1>5, <2>1, <2>2 DEF Passo
<1>7. /\ InvT'
      /\ \A q \in Pedidos : /\ pc'[q] = IF q = p THEN f ELSE pc[q]
                            /\ pedido'[q] = IF q = p THEN pedido[p] ELSE pedido[q]
  BY <1>6, TipoPasso
<1>8. pedido[p].pend = Nenhum /\ pedido'[p].pend = Nenhum
  <2>1. pc[p] = "livre" /\ PendenteCerto(p)  BY <1>1, Inicio DEF InvL
  <2> QED  BY <1>1, <2>1 DEF PendenteCerto
<1> QED  BY <1>1, <1>4, <1>7, <1>8 DEF Comeca, f

LEMMA EditarObraFaz ==
    ASSUME InvT, InvL, NEW p \in Pedidos, NEW o \in {0, 1}, EditarObra(p, o)
    PROVE  /\ InvT' /\ Comeca(p)
           /\ pc'[p] = "editando" /\ pedido'[p].meta.lida = obra
<1> DEFINE m == [lida |-> obra, nova |-> [outros |-> o, base |-> Nenhum]]
           s == [pedido[p] EXCEPT !.meta = m]
<1>1. /\ p \in Editores /\ Comecar(p) /\ pc' = [pc EXCEPT ![p] = "editando"]
      /\ pedido' = [pedido EXCEPT ![p].meta = m]
      /\ linhas' = linhas /\ trava' = trava /\ escrita' = escrita /\ obra' = obra
      /\ objeto' = objeto /\ quedas' = quedas /\ editado' = editado
  BY DEF EditarObra
<1>2. pedido[p] \in Requisicoes /\ IsFiniteSet(pedido[p].orc) /\ IsFiniteSet(pedido[p].cron)
      /\ obra \in Metas
  BY TiposDe
<1>3. m \in Edicoes /\ m.lida = obra  BY <1>2 DEF Edicoes, Metas
<1> HIDE DEF m
<1>4. /\ s \in Requisicoes /\ s.orc = pedido[p].orc /\ s.cron = pedido[p].cron
      /\ s.meta = m /\ s.pend = pedido[p].pend
  BY <1>2, <1>3 DEF Requisicoes
<1>5. pedido' = [pedido EXCEPT ![p] = s]  BY <1>1
<1> HIDE DEF s
<1>6. Passo(p, "editando", s)
  <2>1. juntos' \in [Pedidos -> SUBSET Pedidos]  BY <1>1, Inicio
  <2>2. /\ objeto' \in Objetos \cup {Nenhum}
        /\ trava' \in [Ids -> Importadores \cup {Nenhum}]
        /\ escrita' \in [Pedidos -> [Ids -> Linha \cup {Nenhum}]]
    BY <1>1, TiposDe
  <2>3. "editando" \in Fases /\ "editando" \notin Aprovando /\ "editando" # "importando"
    BY DEF Fases, Aprovando
  <2> QED  BY <1>1, <1>2, <1>3, <1>4, <1>5, <2>1, <2>2, <2>3 DEF Passo
<1>7. /\ InvT'
      /\ \A q \in Pedidos : /\ pc'[q] = IF q = p THEN "editando" ELSE pc[q]
                            /\ pedido'[q] = IF q = p THEN s ELSE pedido[q]
  BY <1>6, TipoPasso
<1>8. pedido[p].pend = Nenhum /\ pedido'[p].pend = Nenhum
  <2>1. pc[p] = "livre" /\ PendenteCerto(p)  BY <1>1, Inicio DEF InvL
  <2> QED  BY <1>4, <1>7, <2>1 DEF PendenteCerto
<1>9. pedido'[p].meta.lida = obra  BY <1>3, <1>4, <1>7
<1> QED  BY <1>1, <1>7, <1>8, <1>9 DEF Comeca

(* A request that ends: an import that commits makes its rows the rows of  *)
(* the tables, and every other end leaves the tables alone.                *)
Termina(p) ==
    /\ p \in Ativos /\ juntos' = juntos
    /\ \E fim \in Concluidos \ {"livre"} : Encerrar(p, fim)
    /\ \/ linhas' = linhas
       \/ pc[p] = "importando" /\ \A i \in Ids : linhas'[i] = Vista(p, i)
Avancando(p) == \E de, para \in Aprovando : Avanca(p, de, para)

(* Every step is of one of five kinds, and keeps the types.                *)
LEMMA Especies ==
    ASSUME InvT, InvL, NEW p \in Pedidos, Chamar(p) \/ Prosseguir(p) \/ Cair(p)
    PROVE  /\ InvT'
           /\ Comeca(p) \/ LerLinha(p) \/ Descarregar(p) \/ Termina(p) \/ Avancando(p)
<1> USE DEF Ativos, Concluidos
<1>1. CASE \E t \in {"orc", "cron"}, l \in Lotes : Importar(p, t, l)
  BY <1>1, ImportarComeca
<1>2. CASE Validar(p)  BY <1>2, ValidarFaz
<1>3. CASE \E o \in {0, 1} : EditarObra(p, o)  BY <1>3, EditarObraFaz
<1>4. CASE LerLinha(p)  BY <1>4, LerLinhaFaz
<1>5. CASE Descarregar(p)  BY <1>5, DescarregarFaz
<1>6. CASE Recusa(p)
  <2>1. /\ InvT' /\ Encerrar(p, "recusado") /\ pc[p] = "importando"
        /\ linhas' = linhas /\ juntos' = juntos
    BY <1>6, RecusaFaz
  <2> QED  BY <2>1 DEF Termina
<1>7. CASE ConfirmarImportacao(p)
  <2>1. /\ InvT' /\ Encerrar(p, "feito") /\ pc[p] = "importando"
        /\ (\A i \in Ids : linhas'[i] = Vista(p, i)) /\ juntos' = juntos
    BY <1>7, ConfirmarFaz
  <2> QED  BY <2>1 DEF Termina
<1>8. CASE LerObra(p)  BY <1>8, LerObraFaz DEF Avancando, Aprovando
<1>9. CASE ListarOrcamento(p)  BY <1>9, ListarOrcamentoFaz DEF Avancando, Aprovando
<1>10. CASE ListarCronograma(p)  BY <1>10, ListarCronogramaFaz DEF Avancando, Aprovando
<1>11. CASE GuardarBaseline(p)  BY <1>11, GuardarBaselineFaz DEF Avancando, Aprovando
<1>12. CASE GravarBaseline(p)
  <2>1. /\ InvT' /\ Encerrar(p, "feito") /\ pc[p] = "guardado"
        /\ linhas' = linhas /\ juntos' = juntos
    BY <1>12, GravarBaselineFaz
  <2> QED  BY <2>1 DEF Termina
<1>13. CASE GravarObra(p)
  <2>1. /\ InvT' /\ Encerrar(p, "feito") /\ pc[p] = "editando"
        /\ linhas' = linhas /\ juntos' = juntos
    BY <1>13, GravarObraFaz
  <2> QED  BY <2>1 DEF Termina
<1>14. CASE Cair(p)
  <2>1. /\ InvT' /\ Encerrar(p, "morto") /\ p \in Ativos
        /\ linhas' = linhas /\ juntos' = juntos
    BY <1>14, CairFaz
  <2> QED  BY <2>1 DEF Termina
<1> QED
  BY <1>1, <1>2, <1>3, <1>4, <1>5, <1>6, <1>7, <1>8, <1>9, <1>10, <1>11, <1>12, <1>13, <1>14
  DEF Chamar, Prosseguir, Recusa

-----------------------------------------------------------------------------
(* Who met whom *)

LEMMA EncontrosPasso ==
    ASSUME InvT, InvJ, NEW p \in Pedidos,
           Comeca(p) \/ LerLinha(p) \/ Descarregar(p) \/ Termina(p) \/ Avancando(p)
    PROVE  /\ InvJ'
           /\ \A q \in Pedidos : juntos[q] \subseteq juntos'[q]
<1>1. CASE Comeca(p)
  <2>1. /\ pc[p] = "livre" /\ p \notin Ativos /\ juntos'[p] = Ativos
        /\ \A q \in Pedidos : q # p =>
              juntos'[q] = IF q \in Ativos THEN juntos[q] \cup {p} ELSE juntos[q]
    BY <1>1, Inicio DEF Comeca
  <2>2. \A q \in Pedidos : q # p => pc'[q] = pc[q]  BY <1>1 DEF Comeca
  <2>3. pc'[p] # "livre"  BY <1>1 DEF Comeca
  <2>4. \A q \in Pedidos : q # p => (q \in Ativos' <=> q \in Ativos)  BY <2>2 DEF Ativos
  <2>5. \A q \in Pedidos : juntos[q] \subseteq juntos'[q]
    <3>1. juntos[p] = {}  BY <2>1 DEF InvJ
    <3> QED  BY <2>1, <3>1
  <2>6. ASSUME NEW a \in Pedidos
        PROVE  /\ pc'[a] = "livre" => juntos'[a] = {}
               /\ \A q \in Pedidos : a # q /\ a \in Ativos' /\ q \in Ativos' => q \in juntos'[a]
    <3>1. CASE a = p  BY <2>1, <2>3, <2>4, <3>1
    <3>2. CASE a # p
      <4>1. pc'[a] = "livre" => juntos'[a] = {}
        <5>1. pc[a] = "livre" => a \notin Ativos /\ juntos[a] = {}  BY DEF InvJ, Ativos, Concluidos
        <5> QED  BY <2>1, <2>2, <3>2, <5>1
      <4>2. ASSUME NEW q \in Pedidos, a # q, a \in Ativos', q \in Ativos'
            PROVE  q \in juntos'[a]
        <5>1. a \in Ativos  BY <2>4, <3>2, <4>2
        <5>2. CASE q = p  BY <2>1, <3>2, <5>1, <5>2
        <5>3. CASE q # p
          <6>1. q \in juntos[a]  BY <2>4, <4>2, <5>1, <5>3 DEF InvJ
          <6> QED  BY <2>5, <6>1
        <5> QED  BY <5>2, <5>3
      <4> QED  BY <4>1, <4>2
    <3> QED  BY <3>1, <3>2
  <2>7. InvJ'  BY <2>6 DEF InvJ
  <2> QED  BY <2>5, <2>7
<1>2. ASSUME LerLinha(p) \/ Descarregar(p) \/ Termina(p) \/ Avancando(p)
      PROVE  /\ InvJ'
             /\ \A q \in Pedidos : juntos[q] \subseteq juntos'[q]
  <2>1. /\ juntos' = juntos
        /\ \A q \in Pedidos : pc'[q] = "livre" => pc[q] = "livre"
        /\ \A q \in Pedidos : q \in Ativos' => q \in Ativos
    <3>1. CASE LerLinha(p)  BY <3>1 DEF LerLinha, Ativos
    <3>2. CASE Descarregar(p)  BY <3>2 DEF Descarregar, Ativos
    <3>3. CASE Termina(p)
      <4>1. PICK fim \in Concluidos \ {"livre"} : Encerrar(p, fim)  BY <3>3 DEF Termina
      <4>2. \A q \in Pedidos : pc'[q] = IF q = p THEN fim ELSE pc[q]  BY <4>1, Fim
      <4>3. juntos' = juntos /\ p \in Ativos  BY <3>3 DEF Termina
      <4> QED  BY <4>1, <4>2, <4>3 DEF Ativos
    <3>4. CASE Avancando(p)
      <4>1. PICK de, para \in Aprovando : Avanca(p, de, para)  BY <3>4 DEF Avancando
      <4> QED  BY <4>1 DEF Avanca, Ativos, Aprovando, Concluidos
    <3> QED  BY <1>2, <3>1, <3>2, <3>3, <3>4
  <2> QED  BY <2>1 DEF InvJ
<1> QED  BY <1>1, <1>2

-----------------------------------------------------------------------------
(* Row locks *)

LEMMA TerminaFaz ==
    ASSUME InvT, NEW p \in Pedidos, Termina(p)
    PROVE  /\ \A i \in Ids : trava'[i] = IF trava[i] = p THEN Nenhum ELSE trava[i]
           /\ \A q \in Pedidos, i \in Ids :
                 escrita'[q][i] = IF q = p THEN Nenhum ELSE escrita[q][i]
           /\ \A q \in Pedidos : q # p => pc'[q] = pc[q] /\ pedido'[q] = pedido[q]
           /\ pc'[p] \in Concluidos \ {"livre"} /\ pedido'[p] = SemPedido
           /\ pedido'[p].pend = Nenhum
           /\ juntos' = juntos
           /\ \A i \in Ids : linhas[i] # Nenhum => linhas'[i] # Nenhum
<1>1. PICK fim \in Concluidos \ {"livre"} : Encerrar(p, fim)  BY DEF Termina
<1>2. /\ \A i \in Ids : trava'[i] = IF trava[i] = p THEN Nenhum ELSE trava[i]
      /\ \A q \in Pedidos, i \in Ids :
            escrita'[q][i] = IF q = p THEN Nenhum ELSE escrita[q][i]
      /\ \A q \in Pedidos : /\ pc'[q] = IF q = p THEN fim ELSE pc[q]
                            /\ pedido'[q] = IF q = p THEN SemPedido ELSE pedido[q]
  BY <1>1, Fim
<1>3. \A i \in Ids : linhas[i] # Nenhum => linhas'[i] # Nenhum
  <2>1. CASE linhas' = linhas  BY <2>1
  <2>2. CASE \A i \in Ids : linhas'[i] = Vista(p, i)  BY <2>2 DEF Vista
  <2> QED  BY <2>1, <2>2 DEF Termina
<1>4. SemPedido.pend = Nenhum  BY DEF SemPedido
<1> QED  BY <1>1, <1>2, <1>3, <1>4 DEF Termina

(* A commit never hides a row that a transaction saw.                      *)
LEMMA PendenteFica ==
    ASSUME InvT, NEW q \in Pedidos, PendenteCerto(q),
           pc'[q] = pc[q], pedido'[q] = pedido[q],
           \A i \in Ids : escrita'[q][i] = escrita[q][i],
           \A i \in Ids : linhas[i] # Nenhum => linhas'[i] # Nenhum
    PROVE  PendenteCerto(q)'
<1> DEFINE e == pedido[q].pend
<1>1. e # Nenhum => e.id \in Ids  BY TiposDe DEF Requisicoes, Pendentes
<1>2. ASSUME e # Nenhum, Vista(q, e.id) # Nenhum PROVE Vista(q, e.id)' # Nenhum
  BY <1>1, <1>2 DEF Vista
<1> QED  BY <1>1, <1>2 DEF PendenteCerto

LEMMA TravasPasso ==
    ASSUME InvT, InvL, InvT', NEW p \in Pedidos,
           Comeca(p) \/ LerLinha(p) \/ Descarregar(p) \/ Termina(p) \/ Avancando(p)
    PROVE  InvL'
<1> DEFINE Presas == \A i \in Ids : trava[i] # Nenhum => pc[trava[i]] = "importando"
<1>0. /\ EscritaTravada /\ Presas
      /\ \A q \in Pedidos : PendenteCerto(q)
  BY DEF InvL
<1>t. /\ \A i \in Ids : trava[i] \in Importadores \cup {Nenhum}
      /\ \A q \in Pedidos, i \in Ids : escrita[q][i] \in Linha \cup {Nenhum}
  BY TiposDe
<1>n. Importadores \subseteq Pedidos /\ Nenhum \notin Pedidos
  BY BaselineAssumption DEF Pedidos
<1>1. CASE Comeca(p)
  <2>1. /\ linhas' = linhas /\ trava' = trava /\ escrita' = escrita
        /\ pedido'[p].pend = Nenhum
        /\ \A q \in Pedidos : q # p => pc'[q] = pc[q] /\ pedido'[q] = pedido[q]
        /\ pc[p] = "livre"
    BY <1>1 DEF Comeca, Comecar
  <2>2. EscritaTravada'  BY <1>0, <2>1 DEF EscritaTravada
  <2>3. Presas'
    <3>1. \A i \in Ids : trava[i] # p  BY <1>0, <1>n, <2>1
    <3> QED  BY <1>0, <1>t, <1>n, <2>1, <3>1
  <2>4. \A q \in Pedidos : PendenteCerto(q)'
    <3> TAKE q \in Pedidos
    <3>1. CASE q = p  BY <2>1, <3>1 DEF PendenteCerto
    <3>2. CASE q # p  BY <1>0, <2>1, <3>2, PendenteFica
    <3> QED  BY <3>1, <3>2
  <2> QED  BY <2>2, <2>3, <2>4 DEF InvL
<1>2. CASE LerLinha(p)
  <2>1. /\ linhas' = linhas /\ trava' = trava /\ escrita' = escrita /\ pc' = pc
        /\ pc[p] = "importando"
    BY <1>2 DEF LerLinha
  <2>2. \A q \in Pedidos : q # p => pedido'[q] = pedido[q]  BY <1>2, LerLinhaFaz
  <2>3. EscritaTravada' /\ Presas'  BY <1>0, <2>1 DEF EscritaTravada
  <2>4. PendenteCerto(p)'
    <3>1. PICK i \in Ids, c \in Codigos, n \in Itens :
             LET ids == Achadas(p, pedido[p].tab, c) IN
             /\ i.tab = pedido[p].tab /\ i.cod = c
             /\ IF ids = {} THEN i.tab = "cron" => i.autor = p ELSE i \in ids
             /\ pedido'[p].pend = [id |-> i, lida |-> IF ids = {} THEN Nenhum ELSE Vista(p, i),
                                   linha |-> Nova(n)]
      BY <1>2, LerLinhaFaz
    <3> DEFINE ids == Achadas(p, pedido[p].tab, c)
               e == pedido'[p].pend
    <3>2. /\ e.id = i /\ e.lida = IF ids = {} THEN Nenhum ELSE Vista(p, i)
      BY <3>1
    <3>3. CASE ids = {}
      <4>1. Vista(p, i) = Nenhum  BY <3>1, <3>3 DEF Achadas
      <4>2. escrita[p][i] = Nenhum  BY <4>1 DEF Vista
      <4>3. e.lida = Nenhum /\ e.id = i /\ (i.tab = "cron" => i.autor = p)  BY <3>1, <3>2, <3>3
      <4> HIDE DEF e, ids
      <4>4. escrita'[p][i] = Nenhum /\ pc'[p] = "importando"  BY <2>1, <4>2
      <4> QED  BY <4>3, <4>4 DEF PendenteCerto, e
    <3>4. CASE ids # {}
      <4>1. Vista(p, i) # Nenhum  BY <3>1, <3>4 DEF Achadas
      <4>2. e.lida # Nenhum /\ e.id = i  BY <3>2, <3>4, <4>1
      <4>3. Vista(p, i)' # Nenhum  BY <2>1, <4>1 DEF Vista
      <4> HIDE DEF e, ids
      <4>4. pc'[p] = "importando"  BY <2>1
      <4> QED  BY <4>2, <4>3, <4>4 DEF PendenteCerto, e
    <3> QED  BY <3>3, <3>4
  <2>5. \A q \in Pedidos : q # p => PendenteCerto(q)'  BY <1>0, <2>1, <2>2, PendenteFica
  <2> QED  BY <2>3, <2>4, <2>5 DEF InvL
<1>3. CASE Descarregar(p)
  <2> DEFINE e == pedido[p].pend
  <2>1. /\ linhas' = linhas /\ pc' = pc  BY <1>3 DEF Descarregar
  <2>2. /\ p \in Importadores /\ pc[p] = "importando"
        /\ \A q \in Pedidos : q # p => pedido'[q] = pedido[q] /\ escrita'[q] = escrita[q]
        /\ pedido'[p].pend = Nenhum
        /\ e \in Pendentes
        /\ \A i \in Ids : i # e.id => trava'[i] = trava[i] /\ escrita'[p][i] = escrita[p][i]
        /\ IF e.lida = e.linha
           THEN trava' = trava /\ escrita' = escrita
           ELSE trava[e.id] \in {Nenhum, p} /\ trava'[e.id] = p
    BY <1>3, DescarregarFaz
  <2> HIDE DEF e
  <2>3. EscritaTravada'
    <3> SUFFICES ASSUME NEW q \in Pedidos, NEW i \in Ids, escrita'[q][i] # Nenhum
                 PROVE  trava'[i] = q
      BY DEF EscritaTravada
    <3>1. escrita[q][i] # Nenhum => trava[i] = q  BY <1>0 DEF EscritaTravada
    <3>2. CASE e.lida = e.linha  BY <2>2, <3>1, <3>2
    <3>3. CASE e.lida # e.linha /\ i # e.id
      <4>1. escrita'[q][i] = escrita[q][i] /\ trava'[i] = trava[i]  BY <2>2, <3>3
      <4> QED  BY <3>1, <4>1
    <3>4. CASE e.lida # e.linha /\ i = e.id
      <4>1. trava[i] \in {Nenhum, p} /\ trava'[i] = p  BY <2>2, <3>4
      <4>2. q = p
        <5>1. ASSUME q # p PROVE FALSE
          <6>1. escrita'[q] = escrita[q]  BY <2>2, <5>1
          <6>2. trava[i] = q  BY <3>1, <6>1
          <6> QED  BY <1>n, <4>1, <5>1, <6>2
        <5> QED  BY <5>1
      <4> QED  BY <4>1, <4>2
    <3> QED  BY <3>2, <3>3, <3>4
  <2>4. Presas'
    <3> SUFFICES ASSUME NEW i \in Ids, trava'[i] # Nenhum PROVE pc[trava'[i]] = "importando"
      BY <2>1
    <3>1. trava'[i] = trava[i] \/ trava'[i] = p  BY <2>2
    <3> QED  BY <1>0, <2>2, <3>1
  <2>5. PendenteCerto(p)'  BY <2>1, <2>2 DEF PendenteCerto
  <2>6. \A q \in Pedidos : q # p => PendenteCerto(q)'  BY <1>0, <2>1, <2>2, PendenteFica
  <2> QED  BY <2>3, <2>4, <2>5, <2>6 DEF InvL
<1>4. CASE Termina(p)
  <2>1. /\ \A i \in Ids : trava'[i] = IF trava[i] = p THEN Nenhum ELSE trava[i]
        /\ \A q \in Pedidos, i \in Ids :
              escrita'[q][i] = IF q = p THEN Nenhum ELSE escrita[q][i]
        /\ \A q \in Pedidos : q # p => pc'[q] = pc[q] /\ pedido'[q] = pedido[q]
        /\ pedido'[p].pend = Nenhum
        /\ \A i \in Ids : linhas[i] # Nenhum => linhas'[i] # Nenhum
    BY <1>4, TerminaFaz
  <2>2. EscritaTravada'
    <3> SUFFICES ASSUME NEW q \in Pedidos, NEW i \in Ids, escrita'[q][i] # Nenhum
                 PROVE  trava'[i] = q
      BY DEF EscritaTravada
    <3>1. q # p /\ escrita[q][i] # Nenhum  BY <2>1
    <3>2. trava[i] = q  BY <1>0, <3>1 DEF EscritaTravada
    <3> QED  BY <2>1, <3>1, <3>2
  <2>3. Presas'
    <3> SUFFICES ASSUME NEW i \in Ids, trava'[i] # Nenhum PROVE pc'[trava'[i]] = "importando"
      OBVIOUS
    <3>1. trava[i] # p /\ trava'[i] = trava[i]  BY <2>1
    <3>2. trava[i] \in Pedidos  BY <1>t, <1>n, <3>1
    <3> QED  BY <1>0, <2>1, <3>1, <3>2
  <2>4. PendenteCerto(p)'  BY <2>1 DEF PendenteCerto
  <2>5. \A q \in Pedidos : q # p => PendenteCerto(q)'  BY <1>0, <2>1, PendenteFica
  <2> QED  BY <2>2, <2>3, <2>4, <2>5 DEF InvL
<1>5. CASE Avancando(p)
  <2>1. PICK de, para \in Aprovando : Avanca(p, de, para)  BY <1>5 DEF Avancando
  <2>2. /\ linhas' = linhas /\ trava' = trava /\ escrita' = escrita
        /\ \A q \in Pedidos : q # p => pc'[q] = pc[q] /\ pedido'[q] = pedido[q]
        /\ pedido'[p].pend = pedido[p].pend
        /\ pc[p] # "importando" /\ pc'[p] # "importando"
    BY <2>1 DEF Avanca, Aprovando
  <2>3. EscritaTravada'  BY <1>0, <2>2 DEF EscritaTravada
  <2>4. Presas'  BY <1>0, <1>t, <1>n, <2>2
  <2>5. PendenteCerto(p)'  BY <1>0, <2>2 DEF PendenteCerto
  <2>6. \A q \in Pedidos : q # p => PendenteCerto(q)'  BY <1>0, <2>2, PendenteFica
  <2> QED  BY <2>3, <2>4, <2>5, <2>6 DEF InvL
<1> QED  BY <1>1, <1>2, <1>3, <1>4, <1>5

-----------------------------------------------------------------------------
(* One activity for a code *)

LEMMA AutorDeAtividade ==
    ASSUME NEW i \in Atividades
    PROVE  i \in Ids /\ i.autor \in Importadores /\ i.autor \in Pedidos
BY DEF Atividades, Ids, Pedidos

(* An activity that is not committed is of an import in progress.          *)
LEMMA PresenteAtivo ==
    ASSUME InvL, NEW i \in Atividades, Presente(i), linhas[i] = Nenhum
    PROVE  i.autor \in Ativos
<1> DEFINE a == i.autor
<1>1. a \in Pedidos /\ i \in Ids  BY AutorDeAtividade
<1>2. CASE escrita[a][i] # Nenhum
  <2>1. trava[i] = a  BY <1>1, <1>2 DEF InvL, EscritaTravada
  <2>2. pc[a] = "importando"  BY <1>1, <2>1, BaselineAssumption DEF InvL
  <2> QED  BY <1>1, <2>2 DEF Ativos, Concluidos
<1>3. CASE pedido[a].pend # Nenhum
  <2>1. pc[a] = "importando"  BY <1>1, <1>3 DEF InvL, PendenteCerto
  <2> QED  BY <1>1, <2>1 DEF Ativos, Concluidos
<1> QED  BY <1>2, <1>3 DEF Presente

(* No step but a select that finds nothing makes an activity present.      *)
LEMMA UnicaFica ==
    ASSUME InvU, \A i \in Atividades : Presente(i)' => Presente(i),
           \A q \in Pedidos : juntos[q] \subseteq juntos'[q],
           \A q \in Pedidos, i \in Atividades :
              escrita'[q][i] # Nenhum => i.autor = q \/ linhas'[i] # Nenhum
    PROVE  InvU'
<1>1. ASSUME NEW i \in Atividades, NEW j \in Atividades,
             Presente(i)', Presente(j)', i.cod = j.cod
      PROVE  i = j \/ j.autor \in juntos'[i.autor]
  <2>1. Presente(i) /\ Presente(j)  BY <1>1
  <2>2. i = j \/ j.autor \in juntos[i.autor]  BY <1>1, <2>1 DEF InvU
  <2>3. i.autor \in Pedidos  BY AutorDeAtividade
  <2> QED  BY <2>2, <2>3
<1>2. Atividades' = Atividades  BY DEF Atividades, Ids
<1> QED  BY <1>1, <1>2 DEF InvU

LEMMA UnicaPasso ==
    ASSUME InvT, InvJ, InvL, InvU, InvT', InvL', NEW p \in Pedidos,
           \A q \in Pedidos : juntos[q] \subseteq juntos'[q],
           Comeca(p) \/ LerLinha(p) \/ Descarregar(p) \/ Termina(p) \/ Avancando(p)
    PROVE  InvU'
<1>0. \A q \in Pedidos, i \in Atividades :
         escrita[q][i] # Nenhum => i.autor = q \/ linhas[i] # Nenhum
  BY DEF InvU
<1>a. \A i \in Atividades : i \in Ids /\ i.autor \in Importadores /\ i.autor \in Pedidos
  BY AutorDeAtividade
<1>1. CASE Comeca(p)
  <2>1. /\ linhas' = linhas /\ escrita' = escrita
        /\ \A q \in Pedidos : q # p => pedido'[q] = pedido[q]
        /\ pedido'[p].pend = pedido[p].pend
    BY <1>1 DEF Comeca
  <2>2. \A i \in Atividades : Presente(i)' => Presente(i)
    BY <1>a, <2>1 DEF Presente
  <2> QED  BY <1>0, <2>1, <2>2, UnicaFica
<1>2. CASE LerLinha(p)
  <2>1. linhas' = linhas /\ escrita' = escrita /\ pc' = pc /\ pc[p] = "importando"
        /\ juntos' = juntos
    BY <1>2 DEF LerLinha
  <2>2. \A q \in Pedidos : q # p => pedido'[q] = pedido[q]  BY <1>2, LerLinhaFaz
  <2>3. PICK n \in Ids, c \in Codigos, l \in Itens :
             LET ids == Achadas(p, pedido[p].tab, c) IN
             /\ n.tab = pedido[p].tab /\ n.cod = c
             /\ IF ids = {} THEN n.tab = "cron" => n.autor = p ELSE n \in ids
             /\ pedido'[p].pend = [id |-> n, lida |-> IF ids = {} THEN Nenhum ELSE Vista(p, n),
                                   linha |-> Nova(l)]
    BY <1>2, LerLinhaFaz
  <2> DEFINE ids == Achadas(p, pedido[p].tab, c)
             e == pedido'[p].pend
  <2>4. e.id = n /\ e.lida = IF ids = {} THEN Nenhum ELSE Vista(p, n)  BY <2>3
  <2>5. ids # {} => e.lida # Nenhum  BY <2>3, <2>4 DEF Achadas
  <2>6. \A i \in Atividades : Presente(i)' => Presente(i) \/ (i = n /\ ids = {} /\ n.autor = p)
    <3> SUFFICES ASSUME NEW i \in Atividades, Presente(i)', ~Presente(i)
                 PROVE  i = n /\ ids = {} /\ n.autor = p
      OBVIOUS
    <3> HIDE DEF e, ids
    <3>1. LET f == pedido'[i.autor].pend IN f # Nenhum /\ f.id = i /\ f.lida = Nenhum
      BY <2>1 DEF Presente
    <3>2. i.autor = p
      <4>1. i.autor # p => pedido'[i.autor] = pedido[i.autor]  BY <1>a, <2>2
      <4> QED  BY <3>1, <4>1 DEF Presente
    <3>3. e.id = i /\ e.lida = Nenhum  BY <3>1, <3>2 DEF e
    <3> QED  BY <2>4, <2>5, <3>2, <3>3
  <2>7. ASSUME NEW i \in Atividades, Presente(i), ids = {}, n \in Atividades,
               n.autor = p, i.cod = n.cod, i # n
        PROVE  i.autor \in juntos[p] /\ p \in juntos[i.autor]
    <3>1. Vista(p, i) = Nenhum
      <4>1. i \in Ids /\ i.tab = pedido[p].tab /\ i.cod = c  BY <2>3, <2>7, <1>a DEF Atividades
      <4> QED  BY <2>7, <4>1 DEF Achadas
    <3>2. linhas[i] = Nenhum  BY <3>1 DEF Vista
    <3>3. i.autor \in Ativos  BY <2>7, <3>2, PresenteAtivo
    <3>4. i.autor # p
      <4>1. ASSUME i.autor = p PROVE i = n
        <5>1. /\ i \in [tab : {"cron"}, cod : Codigos, autor : Importadores]
              /\ n \in [tab : {"cron"}, cod : Codigos, autor : Importadores]
          BY <2>7 DEF Atividades, Ids
        <5> QED  BY <2>7, <4>1, <5>1
      <4> QED  BY <2>7, <4>1
    <3>5. p \in Ativos  BY <2>1 DEF Ativos, Concluidos
    <3> QED  BY <1>a, <3>3, <3>4, <3>5 DEF InvJ
  <2>8. ASSUME NEW i \in Atividades, NEW j \in Atividades,
               Presente(i)', Presente(j)', i.cod = j.cod, i # j
        PROVE  j.autor \in juntos'[i.autor]
    <3> HIDE DEF ids, e
    <3>1. CASE Presente(i) /\ Presente(j)  BY <2>1, <2>8, <3>1 DEF InvU
    <3>2. CASE ~Presente(i)
      <4>1. i = n /\ ids = {} /\ n.autor = p  BY <2>6, <2>8, <3>2
      <4>2. Presente(j)  BY <2>6, <2>8, <4>1
      <4> QED  BY <2>1, <2>7, <2>8, <4>1, <4>2
    <3>3. CASE ~Presente(j)
      <4>1. j = n /\ ids = {} /\ n.autor = p  BY <2>6, <2>8, <3>3
      <4>2. Presente(i)  BY <2>6, <2>8, <4>1
      <4> QED  BY <2>1, <2>7, <2>8, <4>1, <4>2
    <3> QED  BY <3>1, <3>2, <3>3
  <2>9. Atividades' = Atividades  BY DEF Atividades, Ids
  <2> QED  BY <1>0, <2>1, <2>8, <2>9 DEF InvU
<1>3. CASE Descarregar(p)
  <2> DEFINE e == pedido[p].pend
  <2>1. linhas' = linhas  BY <1>3 DEF Descarregar
  <2>2. /\ \A q \in Pedidos : q # p => pedido'[q] = pedido[q] /\ escrita'[q] = escrita[q]
        /\ pedido'[p].pend = Nenhum
        /\ e # Nenhum
        /\ \A i \in Ids : i # e.id => escrita'[p][i] = escrita[p][i]
        /\ e.lida = e.linha => escrita' = escrita
        /\ e.lida # Nenhum /\ e.lida # e.linha => Vista(p, e.id) # Nenhum
    BY <1>3, DescarregarFaz
  <2>3. /\ e.lida = Nenhum /\ e.id.tab = "cron" => e.id.autor = p
    BY <2>2 DEF InvL, PendenteCerto
  <2> HIDE DEF e
  <2>4. \A q \in Pedidos, i \in Atividades :
           escrita'[q][i] # Nenhum => i.autor = q \/ linhas'[i] # Nenhum
    <3> SUFFICES ASSUME NEW q \in Pedidos, NEW i \in Atividades, escrita'[q][i] # Nenhum
                 PROVE  i.autor = q \/ linhas[i] # Nenhum
      BY <2>1
    <3>1. CASE escrita[q][i] # Nenhum  BY <1>0, <3>1
    <3>2. CASE escrita[q][i] = Nenhum
      <4>1. q = p  BY <2>2, <3>2
      <4>2. i = e.id /\ e.lida # e.linha  BY <1>a, <2>2, <3>2, <4>1
      <4>3. CASE e.lida = Nenhum  BY <2>3, <4>1, <4>2, <4>3 DEF Atividades
      <4>4. CASE e.lida # Nenhum
        <5>1. Vista(p, i) # Nenhum  BY <2>2, <4>2, <4>4
        <5> QED  BY <3>2, <4>1, <5>1 DEF Vista
      <4> QED  BY <4>3, <4>4
    <3> QED  BY <3>1, <3>2
  <2>5. \A i \in Atividades : Presente(i)' => Presente(i)
    <3> SUFFICES ASSUME NEW i \in Atividades, Presente(i)' PROVE Presente(i)
      OBVIOUS
    <3>1. CASE linhas'[i] # Nenhum  BY <2>1, <3>1 DEF Presente
    <3>2. CASE i.autor # p
      <4>1. pedido'[i.autor] = pedido[i.autor] /\ escrita'[i.autor] = escrita[i.autor]
        BY <1>a, <2>2, <3>2
      <4> QED  BY <2>1, <4>1 DEF Presente
    <3>3. CASE linhas'[i] = Nenhum /\ i.autor = p
      <4>1. escrita'[p][i] # Nenhum  BY <2>2, <3>3 DEF Presente
      <4>2. CASE escrita[p][i] # Nenhum  BY <3>3, <4>2 DEF Presente
      <4>3. CASE escrita[p][i] = Nenhum
        <5>1. i = e.id /\ e.lida # e.linha  BY <1>a, <2>2, <4>1, <4>3
        <5>2. CASE e.lida = Nenhum  BY <2>2, <3>3, <5>1, <5>2 DEF Presente, e
        <5>3. CASE e.lida # Nenhum
          <6>1. Vista(p, i) # Nenhum  BY <2>2, <5>1, <5>3
          <6> QED  BY <4>3, <6>1 DEF Vista, Presente
        <5> QED  BY <5>2, <5>3
      <4> QED  BY <4>2, <4>3
    <3> QED  BY <3>1, <3>2, <3>3
  <2> QED  BY <2>4, <2>5, UnicaFica
<1>4. CASE Termina(p)
  <2>1. /\ \A q \in Pedidos, i \in Ids :
              escrita'[q][i] = IF q = p THEN Nenhum ELSE escrita[q][i]
        /\ \A q \in Pedidos : q # p => pedido'[q] = pedido[q]
        /\ pedido'[p].pend = Nenhum
        /\ \A i \in Ids : linhas[i] # Nenhum => linhas'[i] # Nenhum
    BY <1>4, TerminaFaz
  <2>2. \A i \in Atividades : linhas'[i] # Nenhum => Presente(i)
    <3> SUFFICES ASSUME NEW i \in Atividades, linhas'[i] # Nenhum PROVE Presente(i)
      OBVIOUS
    <3>1. CASE linhas' = linhas  BY <3>1 DEF Presente
    <3>2. CASE \A k \in Ids : linhas'[k] = Vista(p, k)
      <4>1. Vista(p, i) # Nenhum  BY <1>a, <3>2
      <4>2. CASE escrita[p][i] # Nenhum
        <5>1. i.autor = p \/ linhas[i] # Nenhum  BY <1>0, <4>2
        <5> QED  BY <4>2, <5>1 DEF Presente
      <4>3. CASE escrita[p][i] = Nenhum  BY <4>1, <4>3 DEF Vista, Presente
      <4> QED  BY <4>2, <4>3
    <3> QED  BY <1>4, <3>1, <3>2 DEF Termina
  <2>3. \A i \in Atividades : Presente(i)' => Presente(i)
    <3> SUFFICES ASSUME NEW i \in Atividades, Presente(i)', linhas'[i] = Nenhum PROVE Presente(i)
      BY <2>2
    <3>1. i.autor # p  BY <1>a, <2>1 DEF Presente
    <3> QED  BY <1>a, <2>1, <3>1 DEF Presente
  <2>4. \A q \in Pedidos, i \in Atividades :
           escrita'[q][i] # Nenhum => i.autor = q \/ linhas'[i] # Nenhum
    BY <1>0, <1>a, <2>1
  <2> QED  BY <2>3, <2>4, UnicaFica
<1>5. CASE Avancando(p)
  <2>1. PICK de, para \in Aprovando : Avanca(p, de, para)  BY <1>5 DEF Avancando
  <2>2. /\ linhas' = linhas /\ escrita' = escrita
        /\ \A q \in Pedidos : q # p => pedido'[q] = pedido[q]
        /\ pedido'[p].pend = pedido[p].pend
    BY <2>1 DEF Avanca
  <2>3. \A i \in Atividades : Presente(i)' => Presente(i)
    BY <1>a, <2>2 DEF Presente
  <2> QED  BY <1>0, <2>2, <2>3, UnicaFica
<1> QED  BY <1>1, <1>2, <1>3, <1>4, <1>5

-----------------------------------------------------------------------------
(* metadata_json and the columns *)

Concorda(q) ==
    LET e == pedido[q].pend IN
    e # Nenhum => /\ e.linha.doc = <<e.linha.x, e.linha.y>>
                  /\ e.lida # Nenhum => e.lida = Vista(q, e.id)

(* With imports apart from one another, the one in progress is alone.      *)
LEMMA Sozinho ==
    ASSUME InvT, InvJ, InvL, Isolados, NEW p \in Importadores, pc[p] = "importando",
           NEW q \in Pedidos, q # p
    PROVE  pedido[q].pend = Nenhum
<1>1. SUFFICES ASSUME pedido[q].pend # Nenhum PROVE FALSE
  OBVIOUS
<1>2. pc[q] = "importando"  BY <1>1 DEF InvL, PendenteCerto
<1>3. q \in Importadores  BY <1>2 DEF InvT, PedidoCerto
<1>4. p \in Pedidos /\ p \in Ativos /\ q \in Ativos  BY <1>2 DEF Ativos, Concluidos, Pedidos
<1>5. q \in juntos[p]  BY <1>4 DEF InvJ
<1> QED  BY <1>3, <1>5 DEF Isolados

LEMMA CoerentePasso ==
    ASSUME InvT, InvJ, InvL, InvC, InvT', NEW p \in Pedidos,
           \A q \in Pedidos : juntos[q] \subseteq juntos'[q],
           Comeca(p) \/ LerLinha(p) \/ Descarregar(p) \/ Termina(p) \/ Avancando(p)
    PROVE  InvC'
<1>0. SUFFICES ASSUME Isolados'
               PROVE  /\ \A i \in Ids : Coerente(linhas'[i])
                      /\ \A q \in Pedidos, i \in Ids : Coerente(escrita'[q][i])
                      /\ \A q \in Pedidos : Concorda(q)'
  BY DEF InvC, Concorda, Coerente
<1>i. Isolados
  <2>1. Importadores \subseteq Pedidos  BY DEF Pedidos
  <2> QED  BY <1>0, <2>1 DEF Isolados
<1>c. /\ \A i \in Ids : Coerente(linhas[i])
      /\ \A q \in Pedidos, i \in Ids : Coerente(escrita[q][i])
      /\ \A q \in Pedidos : Concorda(q)
  BY <1>i DEF InvC, Concorda
<1>v. \A q \in Pedidos, i \in Ids : Coerente(Vista(q, i))  BY <1>c DEF Vista
<1>w. ASSUME NEW q \in Pedidos, pedido'[q].pend = pedido[q].pend,
             linhas' = linhas, \A i \in Ids : escrita'[q][i] = escrita[q][i]
      PROVE  Concorda(q)'
  <2> DEFINE e == pedido[q].pend
  <2>1. Concorda(q)  BY <1>c
  <2>2. e # Nenhum => e.id \in Ids  BY TiposDe DEF Requisicoes, Pendentes
  <2>3. e # Nenhum => Vista(q, e.id)' = Vista(q, e.id)  BY <1>w, <2>2 DEF Vista
  <2> QED  BY <1>w, <2>1, <2>3 DEF Concorda
<1>1. CASE Comeca(p)
  <2>1. /\ linhas' = linhas /\ escrita' = escrita
        /\ \A q \in Pedidos : pedido'[q].pend = pedido[q].pend
    BY <1>1 DEF Comeca
  <2> QED  BY <1>c, <1>w, <2>1
<1>2. CASE LerLinha(p)
  <2>1. linhas' = linhas /\ escrita' = escrita  BY <1>2 DEF LerLinha
  <2>2. \A q \in Pedidos : q # p => pedido'[q] = pedido[q]  BY <1>2, LerLinhaFaz
  <2>3. PICK n \in Ids, c \in Codigos, l \in Itens :
             LET ids == Achadas(p, pedido[p].tab, c) IN
             /\ n.tab = pedido[p].tab /\ n.cod = c
             /\ IF ids = {} THEN n.tab = "cron" => n.autor = p ELSE n \in ids
             /\ pedido'[p].pend = [id |-> n, lida |-> IF ids = {} THEN Nenhum ELSE Vista(p, n),
                                   linha |-> Nova(l)]
    BY <1>2, LerLinhaFaz
  <2> DEFINE e == pedido'[p].pend
  <2>4. e.id = n /\ e.lida \in {Nenhum, Vista(p, n)} /\ e.linha = Nova(l)  BY <2>3
  <2>5. e.linha.doc = <<e.linha.x, e.linha.y>>  BY <2>4 DEF Nova
  <2>6. Vista(p, n)' = Vista(p, n)  BY <2>1 DEF Vista
  <2>7. Concorda(p)'
    <3> HIDE DEF e
    <3> QED  BY <2>4, <2>5, <2>6 DEF Concorda, e
  <2> QED  BY <1>c, <1>w, <2>1, <2>2, <2>7
<1>3. CASE Descarregar(p)
  <2> DEFINE e == pedido[p].pend
  <2>1. linhas' = linhas  BY <1>3 DEF Descarregar
  <2>2. /\ p \in Importadores
        /\ \A q \in Pedidos : q # p => pedido'[q] = pedido[q] /\ escrita'[q] = escrita[q]
        /\ pedido'[p].pend = Nenhum
        /\ e # Nenhum /\ e \in Pendentes
        /\ \A i \in Ids : i # e.id => escrita'[p][i] = escrita[p][i]
        /\ e.lida = e.linha => escrita' = escrita
        /\ e.lida # e.linha =>
              /\ e.lida # Nenhum => Vista(p, e.id) # Nenhum
              /\ escrita'[p][e.id] = IF e.lida = Nenhum THEN e.linha
                      ELSE Atualizada(Vista(p, e.id), e.lida, e.linha)
    BY <1>3, DescarregarFaz
  <2>3. Concorda(p)  BY <1>c
  <2>4. e.linha.doc = <<e.linha.x, e.linha.y>> /\ (e.lida # Nenhum => e.lida = Vista(p, e.id))
    BY <2>2, <2>3 DEF Concorda
  <2> HIDE DEF e
  <2>5. e.lida # e.linha => escrita'[p][e.id] = e.linha
    <3>1. CASE e.lida = Nenhum  BY <2>2, <3>1
    <3>2. CASE e.lida # Nenhum /\ e.lida # e.linha
      <4>1. e.lida \in Linha /\ e.linha \in Linha  BY <2>2, <3>2 DEF Pendentes
      <4>2. Atualizada(Vista(p, e.id), e.lida, e.linha) = e.linha
        BY <2>4, <3>2, <4>1, TipoAtualizada
      <4> QED  BY <2>2, <3>2, <4>2
    <3> QED  BY <3>1, <3>2
  <2>6. \A q \in Pedidos, i \in Ids : Coerente(escrita'[q][i])
    <3> SUFFICES ASSUME NEW q \in Pedidos, NEW i \in Ids PROVE Coerente(escrita'[q][i])
      OBVIOUS
    <3>1. CASE escrita'[q][i] = escrita[q][i]  BY <1>c, <3>1
    <3>2. CASE escrita'[q][i] # escrita[q][i]
      <4>1. q = p  BY <2>2, <3>2
      <4>2. i = e.id /\ e.lida # e.linha  BY <2>2, <3>2, <4>1
      <4> QED  BY <2>4, <2>5, <4>1, <4>2 DEF Coerente
    <3> QED  BY <3>1, <3>2
  <2>7. Concorda(p)'  BY <2>2 DEF Concorda
  <2> QED  BY <1>c, <1>w, <2>1, <2>2, <2>6, <2>7
<1>4. CASE Termina(p)
  <2>1. /\ \A q \in Pedidos, i \in Ids :
              escrita'[q][i] = IF q = p THEN Nenhum ELSE escrita[q][i]
        /\ \A q \in Pedidos : q # p => pedido'[q] = pedido[q]
        /\ pedido'[p].pend = Nenhum
    BY <1>4, TerminaFaz
  <2>2. \A q \in Pedidos, i \in Ids : Coerente(escrita'[q][i])
    BY <1>c, <2>1 DEF Coerente
  <2>3. Concorda(p)'  BY <2>1 DEF Concorda
  <2>4. CASE linhas' = linhas
    <3>1. \A q \in Pedidos : q # p => Concorda(q)'  BY <1>w, <2>1, <2>4
    <3> QED  BY <1>c, <2>2, <2>3, <2>4, <3>1
  <2>5. CASE pc[p] = "importando" /\ \A i \in Ids : linhas'[i] = Vista(p, i)
    <3>1. p \in Importadores  BY <2>5 DEF InvT, PedidoCerto
    <3>2. \A q \in Pedidos : q # p => pedido[q].pend = Nenhum  BY <1>i, <2>5, <3>1, Sozinho
    <3>3. \A q \in Pedidos : q # p => Concorda(q)'  BY <2>1, <3>2 DEF Concorda
    <3>4. \A i \in Ids : Coerente(linhas'[i])  BY <1>v, <2>5
    <3> QED  BY <2>2, <2>3, <3>3, <3>4
  <2> QED  BY <1>4, <2>4, <2>5 DEF Termina
<1>5. CASE Avancando(p)
  <2>1. PICK de, para \in Aprovando : Avanca(p, de, para)  BY <1>5 DEF Avancando
  <2>2. /\ linhas' = linhas /\ escrita' = escrita
        /\ \A q \in Pedidos : pedido'[q].pend = pedido[q].pend
    BY <2>1 DEF Avanca
  <2> QED  BY <1>c, <1>w, <2>2
<1> QED  BY <1>1, <1>2, <1>3, <1>4, <1>5

-----------------------------------------------------------------------------
(* The snapshot *)

(* Rows are never deleted, so what an approval counted is still there.     *)
LEMMA ProntoFica ==
    ASSUME Pronto, \A i \in Ids : linhas[i] # Nenhum => linhas'[i] # Nenhum
    PROVE  Pronto'
<1>1. \A t \in {"orc", "cron"} : Da(t) \subseteq Da(t)'  BY DEF Da
<1>2. Da("orc") \subseteq Da("orc")' /\ Da("cron") \subseteq Da("cron")'  BY <1>1
<1> QED  BY <1>2 DEF Pronto

LEMMA AprovacaoFica ==
    ASSUME NEW q \in Pedidos, AprovacaoCerta(q), pc'[q] = pc[q], pedido'[q] = pedido[q],
           juntos[q] \subseteq juntos'[q], objeto' = objeto,
           \A i \in Ids : linhas[i] # Nenhum => linhas'[i] # Nenhum
    PROVE  AprovacaoCerta(q)'
<1>1. Pronto => Pronto'  BY ProntoFica
<1> QED  BY <1>1 DEF AprovacaoCerta

LEMMA AprovacaoNova ==
    ASSUME NEW q \in Pedidos, pc'[q] \notin Aprovando
    PROVE  AprovacaoCerta(q)'
BY DEF AprovacaoCerta, Aprovando

LEMMA ObjetoDeAlguem ==
    ASSUME InvT, objeto # Nenhum
    PROVE  objeto.por \in Pedidos
BY DEF InvT, Objetos

LEMMA BaseDeAlguem ==
    ASSUME InvT, obra.base # Nenhum
    PROVE  obra.base.por \in Pedidos
BY DEF InvT, Metas, Bases

(* A step that leaves the obra and the object of the day as they are.      *)
LEMMA SnapshotFica ==
    ASSUME InvT, InvB, obra' = obra, objeto' = objeto, NEW p \in Pedidos,
           \A q \in Pedidos : juntos[q] \subseteq juntos'[q],
           \A q \in Pedidos : q # p => pc'[q] = pc[q],
           pc[p] \in {"guardado", "morto"} => pc'[p] \in {"guardado", "morto"}
    PROVE  BaselineCompleto' /\ SnapshotCerto'
<1>1. BaselineCompleto'  BY DEF InvB, BaselineCompleto
<1>2. SnapshotCerto'
  <2> SUFFICES ASSUME obra.base # Nenhum PROVE SnapshotCerto'
    BY DEF SnapshotCerto
  <2>1. SnapshotCerto /\ objeto # Nenhum  BY DEF InvB, SnapshotCerto
  <2>2. objeto.por \in Pedidos /\ obra.base.por \in Pedidos
    BY <2>1, ObjetoDeAlguem, BaseDeAlguem
  <2>3. pc[objeto.por] \in {"guardado", "morto"} => pc'[objeto.por] \in {"guardado", "morto"}
    BY <2>2
  <2>4. objeto.por \in juntos[obra.base.por] => objeto.por \in juntos'[obra.base.por]  BY <2>2
  <2> QED  BY <2>1, <2>3, <2>4 DEF SnapshotCerto
<1> QED  BY <1>1, <1>2

LEMMA SnapshotComeca ==
    ASSUME InvT, InvB, NEW p \in Pedidos, Comeca(p), pc'[p] = "validado" => Pronto,
           \A q \in Pedidos : juntos[q] \subseteq juntos'[q]
    PROVE  InvB'
<1>1. /\ linhas' = linhas /\ obra' = obra /\ objeto' = objeto
      /\ \A q \in Pedidos : q # p => pc'[q] = pc[q] /\ pedido'[q] = pedido[q]
      /\ pc[p] = "livre" /\ pc'[p] \in {"recusado", "importando", "validado", "editando"}
  BY DEF Comeca, Comecar
<1>2. Pronto => Pronto'  BY <1>1, ProntoFica
<1>3. AprovacaoCerta(p)'  BY <1>1, <1>2 DEF AprovacaoCerta, Aprovando
<1>4. \A q \in Pedidos : q # p => AprovacaoCerta(q)'  BY <1>1, AprovacaoFica DEF InvB
<1>5. BaselineCompleto' /\ SnapshotCerto'  BY <1>1, SnapshotFica
<1> QED  BY <1>3, <1>4, <1>5 DEF InvB

(* Imports, edits and requests that die, but not an approval's commit.     *)
LEMMA SnapshotTermina ==
    ASSUME InvT, InvB, NEW p \in Pedidos, Termina(p), objeto' = objeto,
           BaselineCompleto' /\ SnapshotCerto'
    PROVE  InvB'
<1>1. /\ \A q \in Pedidos : q # p => pc'[q] = pc[q] /\ pedido'[q] = pedido[q]
      /\ pc'[p] \in Concluidos /\ juntos' = juntos
      /\ \A i \in Ids : linhas[i] # Nenhum => linhas'[i] # Nenhum
  BY TerminaFaz
<1>2. AprovacaoCerta(p)'
  <2>1. pc'[p] \notin Aprovando  BY <1>1 DEF Concluidos, Aprovando
  <2> QED  BY <2>1, AprovacaoNova
<1>3. \A q \in Pedidos : q # p => AprovacaoCerta(q)'  BY <1>1, AprovacaoFica DEF InvB
<1> QED  BY <1>2, <1>3 DEF InvB

LEMMA SnapshotPasso ==
    ASSUME InvT, InvJ, InvL, InvB, NEW p \in Pedidos,
           \A q \in Pedidos : juntos[q] \subseteq juntos'[q],
           Chamar(p) \/ Prosseguir(p) \/ Cair(p)
    PROVE  InvB'
<1> USE DEF Ativos, Concluidos
<1>1. CASE \E t \in {"orc", "cron"}, l \in Lotes : Importar(p, t, l)
  <2>1. Comeca(p) /\ pc'[p] # "validado"  BY <1>1, ImportarComeca
  <2> QED  BY <2>1, SnapshotComeca
<1>2. CASE Validar(p)
  <2>1. Comeca(p) /\ (pc'[p] = "validado" => Pronto)  BY <1>2, ValidarFaz
  <2> QED  BY <2>1, SnapshotComeca
<1>3. CASE \E o \in {0, 1} : EditarObra(p, o)
  <2>1. Comeca(p) /\ pc'[p] # "validado"  BY <1>3, EditarObraFaz
  <2> QED  BY <2>1, SnapshotComeca
<1>4. ASSUME LerLinha(p) \/ Descarregar(p) PROVE InvB'
  <2>1. /\ linhas' = linhas /\ obra' = obra /\ objeto' = objeto /\ pc' = pc
        /\ pc[p] = "importando"
    BY <1>4 DEF LerLinha, Descarregar
  <2>2. \A q \in Pedidos : q # p => pedido'[q] = pedido[q]  BY <1>4, LerLinhaFaz, DescarregarFaz
  <2>3. AprovacaoCerta(p)'
    <3>1. pc'[p] \notin Aprovando  BY <2>1 DEF Aprovando
    <3> QED  BY <3>1, AprovacaoNova
  <2>4. \A q \in Pedidos : q # p => AprovacaoCerta(q)'  BY <2>1, <2>2, AprovacaoFica DEF InvB
  <2>5. BaselineCompleto' /\ SnapshotCerto'  BY <2>1, SnapshotFica
  <2> QED  BY <2>3, <2>4, <2>5 DEF InvB
<1>6. ASSUME Recusa(p) \/ ConfirmarImportacao(p) \/ Cair(p) PROVE InvB'
  <2>1. /\ Termina(p) /\ obra' = obra /\ objeto' = objeto
        /\ pc[p] = "guardado" => pc'[p] = "morto"
        /\ p \in Ativos
    <3>1. CASE Recusa(p)
      <4>1. /\ Encerrar(p, "recusado") /\ pc[p] = "importando"
            /\ linhas' = linhas /\ obra' = obra /\ objeto' = objeto /\ juntos' = juntos
        BY <3>1, RecusaFaz
      <4> QED  BY <4>1 DEF Termina
    <3>2. CASE ConfirmarImportacao(p)
      <4>1. /\ Encerrar(p, "feito") /\ pc[p] = "importando"
            /\ (\A i \in Ids : linhas'[i] = Vista(p, i))
            /\ obra' = obra /\ objeto' = objeto /\ juntos' = juntos
        BY <3>2, ConfirmarFaz
      <4> QED  BY <4>1 DEF Termina
    <3>3. CASE Cair(p)
      <4>1. /\ Encerrar(p, "morto") /\ p \in Ativos
            /\ linhas' = linhas /\ obra' = obra /\ objeto' = objeto /\ juntos' = juntos
        BY <3>3, CairFaz
      <4>2. "morto" \in Concluidos  OBVIOUS
      <4>3. pc'[p] = "morto"  BY <4>1, <4>2, Fim
      <4>4. Termina(p)  BY <4>1 DEF Termina
      <4> QED  BY <4>1, <4>3, <4>4
    <3> QED  BY <1>6, <3>1, <3>2, <3>3
  <2>2. \A q \in Pedidos : q # p => pc'[q] = pc[q]  BY <2>1, TerminaFaz
  <2>3. pc[p] # "morto"  BY <2>1
  <2>4. BaselineCompleto' /\ SnapshotCerto'  BY <2>1, <2>2, <2>3, SnapshotFica
  <2> QED  BY <2>1, <2>4, SnapshotTermina
<1>7. CASE GravarObra(p)
  <2>1. /\ Encerrar(p, "feito") /\ pc[p] = "editando" /\ pedido[p].meta \in Edicoes
        /\ linhas' = linhas /\ objeto' = objeto /\ juntos' = juntos
        /\ obra' = IF pedido[p].meta.nova = pedido[p].meta.lida THEN obra
                   ELSE pedido[p].meta.nova
    BY <1>7, GravarObraFaz
  <2>2. Termina(p)  BY <2>1 DEF Termina
  <2>3. BaselineCompleto' /\ SnapshotCerto'
    <3>1. CASE obra' = obra
      <4>1. \A q \in Pedidos : q # p => pc'[q] = pc[q]  BY <2>2, TerminaFaz
      <4> QED  BY <2>1, <3>1, <4>1, SnapshotFica
    <3>2. CASE obra' = pedido[p].meta.nova
      <4>1. obra'.base = Nenhum  BY <2>1, <3>2 DEF Edicoes
      <4> QED  BY <4>1 DEF BaselineCompleto, SnapshotCerto
    <3> QED  BY <2>1, <3>1, <3>2
  <2> QED  BY <2>1, <2>2, <2>3, SnapshotTermina
<1>8. CASE GravarBaseline(p)
  <2>1. /\ Encerrar(p, "feito") /\ pc[p] = "guardado"
        /\ linhas' = linhas /\ objeto' = objeto /\ juntos' = juntos
        /\ obra'.base = [por |-> p, orc |-> Cardinality(pedido[p].orc),
                         cron |-> Cardinality(pedido[p].cron)]
    BY <1>8, GravarBaselineFaz
  <2>2. Termina(p)  BY <2>1 DEF Termina
  <2>3. /\ pedido[p].orc # {} /\ pedido[p].cron # {} /\ objeto # Nenhum
        /\ \/ /\ objeto.por = p
              /\ objeto.orc = pedido[p].orc /\ objeto.cron = pedido[p].cron
           \/ objeto.por \in juntos[p]
    BY <2>1 DEF InvB, AprovacaoCerta
  <2>4. Cardinality(pedido[p].orc) > 0 /\ Cardinality(pedido[p].cron) > 0
    <3>1. IsFiniteSet(pedido[p].orc) /\ IsFiniteSet(pedido[p].cron)  BY TiposDe
    <3>2. /\ Cardinality(pedido[p].orc) \in Nat /\ Cardinality(pedido[p].cron) \in Nat
      BY <3>1, FS_CardinalityType
    <3>3. /\ Cardinality(pedido[p].orc) # 0 /\ Cardinality(pedido[p].cron) # 0
      BY <2>3, <3>1, FS_EmptySet
    <3> QED  BY <3>2, <3>3
  <2>5. BaselineCompleto'  BY <2>1, <2>4 DEF BaselineCompleto
  <2>6. SnapshotCerto'
    <3>1. /\ obra'.base.por = p /\ obra'.base.orc = Cardinality(pedido[p].orc)
          /\ obra'.base.cron = Cardinality(pedido[p].cron)
      BY <2>1
    <3> QED  BY <2>1, <2>3, <3>1 DEF SnapshotCerto
  <2> QED  BY <2>1, <2>2, <2>5, <2>6, SnapshotTermina
<1>9. ASSUME LerObra(p) \/ ListarOrcamento(p) \/ ListarCronograma(p) PROVE InvB'
  <2>1. /\ Avancando(p) /\ objeto' = objeto /\ AprovacaoCerta(p)'
        /\ pc[p] \notin {"guardado", "morto"}
    <3>0. Pronto => Pronto'
      <4>1. linhas' = linhas  BY <1>9 DEF LerObra, ListarOrcamento, ListarCronograma
      <4> QED  BY <4>1, ProntoFica
    <3>a. AprovacaoCerta(p)  BY DEF InvB
    <3>1. CASE LerObra(p)
      <4>1. Avanca(p, "validado", "obraLida") /\ objeto' = objeto  BY <3>1, LerObraFaz
      <4>2. pc[p] = "validado" /\ pc'[p] = "obraLida"  BY <4>1 DEF Avanca
      <4>3. AprovacaoCerta(p)'  BY <3>0, <3>a, <4>2 DEF AprovacaoCerta, Aprovando
      <4> QED  BY <4>1, <4>2, <4>3 DEF Avancando, Aprovando
    <3>2. CASE ListarOrcamento(p)
      <4>1. /\ Avanca(p, "obraLida", "orcamentoLido") /\ objeto' = objeto
            /\ pedido'[p] = [pedido[p] EXCEPT !.orc = {<<i, linhas[i]>> : i \in Da("orc")}]
        BY <3>2, ListarOrcamentoFaz
      <4>2. pc[p] = "obraLida" /\ pc'[p] = "orcamentoLido"  BY <4>1 DEF Avanca
      <4>3. Pronto  BY <3>a, <4>2 DEF AprovacaoCerta, Aprovando
      <4>4. pedido'[p].orc # {}
        <5>1. pedido'[p].orc = {<<i, linhas[i]>> : i \in Da("orc")}
          BY <4>1, TiposDe DEF Requisicoes
        <5> QED  BY <4>3, <5>1 DEF Pronto
      <4>5. AprovacaoCerta(p)'  BY <3>0, <4>2, <4>3, <4>4 DEF AprovacaoCerta
      <4> QED  BY <4>1, <4>2, <4>5 DEF Avancando, Aprovando
    <3>3. CASE ListarCronograma(p)
      <4>1. /\ Avanca(p, "orcamentoLido", "cronogramaLido") /\ objeto' = objeto
            /\ pedido'[p] = [pedido[p] EXCEPT !.cron = {<<i, linhas[i]>> : i \in Da("cron")}]
        BY <3>3, ListarCronogramaFaz
      <4>2. pc[p] = "orcamentoLido" /\ pc'[p] = "cronogramaLido"  BY <4>1 DEF Avanca
      <4>3. Pronto /\ pedido[p].orc # {}  BY <3>a, <4>2 DEF AprovacaoCerta, Aprovando
      <4>4. pedido'[p].cron # {} /\ pedido'[p].orc # {}
        <5>1. /\ pedido'[p].cron = {<<i, linhas[i]>> : i \in Da("cron")}
              /\ pedido'[p].orc = pedido[p].orc
          BY <4>1, TiposDe DEF Requisicoes
        <5> QED  BY <4>3, <5>1 DEF Pronto
      <4>5. AprovacaoCerta(p)'  BY <3>0, <4>2, <4>3, <4>4 DEF AprovacaoCerta
      <4> QED  BY <4>1, <4>2, <4>5 DEF Avancando, Aprovando
    <3> QED  BY <1>9, <3>1, <3>2, <3>3
  <2>2. /\ linhas' = linhas /\ obra' = obra
        /\ \A q \in Pedidos : q # p => pc'[q] = pc[q] /\ pedido'[q] = pedido[q]
    BY <2>1 DEF Avancando, Avanca
  <2>3. \A q \in Pedidos : q # p => AprovacaoCerta(q)'  BY <2>1, <2>2, AprovacaoFica DEF InvB
  <2>4. BaselineCompleto' /\ SnapshotCerto'  BY <2>1, <2>2, SnapshotFica
  <2> QED  BY <2>1, <2>3, <2>4 DEF InvB
<1>10. CASE GuardarBaseline(p)
  <2>1. /\ Avanca(p, "cronogramaLido", "guardado") /\ pedido' = pedido
        /\ objeto' = [por |-> p, orc |-> pedido[p].orc, cron |-> pedido[p].cron]
    BY <1>10, GuardarBaselineFaz
  <2>2. /\ linhas' = linhas /\ obra' = obra /\ juntos' = juntos
        /\ pc[p] = "cronogramaLido" /\ pc'[p] = "guardado"
        /\ \A q \in Pedidos : q # p => pc'[q] = pc[q]
    BY <2>1 DEF Avanca
  <2>3. objeto' # Nenhum /\ objeto'.por = p
    <3>1. objeto' \in Objetos  BY <2>1, TiposDe DEF Requisicoes, Objetos
    <3> QED  BY <2>1, <3>1, NenhumAssumption DEF Objetos, Lidas
  <2>4. Pronto => Pronto'  BY <2>2, ProntoFica
  <2>5. ASSUME NEW q \in Pedidos PROVE AprovacaoCerta(q)'
    <3>1. AprovacaoCerta(q)  BY DEF InvB
    <3>2. CASE q = p
      <4>1. Pronto /\ pedido[p].orc # {} /\ pedido[p].cron # {}
        BY <2>2, <3>1, <3>2 DEF AprovacaoCerta, Aprovando
      <4>2. objeto'.orc = pedido[p].orc /\ objeto'.cron = pedido[p].cron  BY <2>1
      <4> QED  BY <2>1, <2>2, <2>3, <2>4, <3>2, <4>1, <4>2 DEF AprovacaoCerta
    <3>3. CASE q # p /\ pc[q] = "guardado"
      <4>1. p \in juntos[q]  BY <2>2, <3>3 DEF InvJ
      <4>2. Pronto /\ pedido[q].orc # {} /\ pedido[q].cron # {}
        BY <3>1, <3>3 DEF AprovacaoCerta, Aprovando
      <4> QED  BY <2>1, <2>2, <2>3, <2>4, <3>3, <4>1, <4>2 DEF AprovacaoCerta
    <3>4. CASE q # p /\ pc[q] # "guardado"
      BY <2>1, <2>2, <2>4, <3>1, <3>4 DEF AprovacaoCerta
    <3> QED  BY <3>2, <3>3, <3>4
  <2>6. BaselineCompleto'  BY <2>2 DEF InvB, BaselineCompleto
  <2>7. SnapshotCerto'  BY <2>2, <2>3 DEF SnapshotCerto
  <2> QED  BY <2>5, <2>6, <2>7 DEF InvB
<1> QED
  BY <1>1, <1>2, <1>3, <1>4, <1>6, <1>7, <1>8, <1>9, <1>10 DEF Chamar, Prosseguir, Recusa

-----------------------------------------------------------------------------
(* The last edit *)

EdicaoCerta(q) ==
    /\ pc[q] = "editando" /\ SemOutros(q) => obra = pedido[q].meta.lida
    /\ pc[q] \in Aprovando \ {"validado"} /\ editado # Nenhum /\ SemOutros(editado.por)
          => pedido[q].meta.outros = editado.outros

LEMMA SemOutrosAntes ==
    ASSUME NEW q, juntos[q] \subseteq juntos'[q], SemOutros(q)'
    PROVE  SemOutros(q)
BY DEF SemOutros

LEMMA EditadoPorAlguem ==
    ASSUME InvT, editado # Nenhum
    PROVE  editado.por \in Pedidos
BY DEF InvT, Editados

(* A step that leaves the obra and its last edit as they are.              *)
LEMMA EdicaoFica ==
    ASSUME InvT, InvE, obra' = obra, editado' = editado, NEW p \in Pedidos,
           \A q \in Pedidos : juntos[q] \subseteq juntos'[q],
           \A q \in Pedidos : q # p => pc'[q] = pc[q] /\ pedido'[q] = pedido[q],
           EdicaoCerta(p)'
    PROVE  InvE'
<1>1. EdicaoPrevalece'
  <2>1. EdicaoPrevalece  BY DEF InvE
  <2>2. SUFFICES ASSUME editado # Nenhum, SemOutros(editado.por)' PROVE obra.outros = editado.outros
    BY DEF EdicaoPrevalece, SemOutros
  <2>3. SemOutros(editado.por)  BY <2>2, EditadoPorAlguem, SemOutrosAntes
  <2> QED  BY <2>1, <2>2, <2>3 DEF EdicaoPrevalece, SemOutros
<1>2. ASSUME NEW q \in Pedidos, q # p PROVE EdicaoCerta(q)'
  <2>1. EdicaoCerta(q)  BY DEF InvE, EdicaoCerta
  <2>2. SemOutros(q)' => SemOutros(q)  BY SemOutrosAntes
  <2>3. editado # Nenhum /\ SemOutros(editado.por)' => SemOutros(editado.por)
    BY EditadoPorAlguem, SemOutrosAntes
  <2> QED  BY <1>2, <2>1, <2>2, <2>3 DEF EdicaoCerta
<1> QED  BY <1>1, <1>2 DEF InvE, EdicaoCerta

LEMMA EdicaoComeca ==
    ASSUME InvT, InvE, NEW p \in Pedidos, Comeca(p),
           pc'[p] = "editando" => pedido'[p].meta.lida = obra,
           \A q \in Pedidos : juntos[q] \subseteq juntos'[q]
    PROVE  InvE'
<1>1. /\ obra' = obra /\ editado' = editado
      /\ \A q \in Pedidos : q # p => pc'[q] = pc[q] /\ pedido'[q] = pedido[q]
      /\ pc'[p] \in {"recusado", "importando", "validado", "editando"}
  BY DEF Comeca
<1>2. EdicaoCerta(p)'  BY <1>1 DEF EdicaoCerta, Aprovando
<1> QED  BY <1>1, <1>2, EdicaoFica

LEMMA EdicaoNova ==
    ASSUME NEW q \in Pedidos, pc'[q] \notin Aprovando, pc'[q] # "editando"
    PROVE  EdicaoCerta(q)'
BY DEF EdicaoCerta, Aprovando

LEMMA EdicaoPasso ==
    ASSUME InvT, InvJ, InvL, InvE, NEW p \in Pedidos,
           \A q \in Pedidos : juntos[q] \subseteq juntos'[q],
           Chamar(p) \/ Prosseguir(p) \/ Cair(p)
    PROVE  InvE'
<1> USE DEF Ativos, Concluidos
<1>1. CASE \E t \in {"orc", "cron"}, l \in Lotes : Importar(p, t, l)
  <2>1. Comeca(p) /\ pc'[p] # "editando"  BY <1>1, ImportarComeca
  <2> QED  BY <2>1, EdicaoComeca
<1>2. CASE Validar(p)
  <2>1. Comeca(p) /\ pc'[p] # "editando"  BY <1>2, ValidarFaz
  <2> QED  BY <2>1, EdicaoComeca
<1>3. CASE \E o \in {0, 1} : EditarObra(p, o)
  <2>1. Comeca(p) /\ pedido'[p].meta.lida = obra  BY <1>3, EditarObraFaz
  <2> QED  BY <2>1, EdicaoComeca
<1>4. ASSUME LerLinha(p) \/ Descarregar(p) PROVE InvE'
  <2>1. /\ obra' = obra /\ editado' = editado /\ pc' = pc /\ pc[p] = "importando"
    BY <1>4 DEF LerLinha, Descarregar
  <2>2. \A q \in Pedidos : q # p => pedido'[q] = pedido[q]  BY <1>4, LerLinhaFaz, DescarregarFaz
  <2>3. EdicaoCerta(p)'
    <3>1. pc'[p] \notin Aprovando /\ pc'[p] # "editando"  BY <2>1 DEF Aprovando
    <3> QED  BY <3>1, EdicaoNova
  <2> QED  BY <2>1, <2>2, <2>3, EdicaoFica
<1>5. ASSUME Recusa(p) \/ ConfirmarImportacao(p) \/ Cair(p) PROVE InvE'
  <2>1. \E fim \in Concluidos : Encerrar(p, fim) /\ obra' = obra /\ editado' = editado
    <3>1. CASE Recusa(p)  BY <3>1, RecusaFaz
    <3>2. CASE ConfirmarImportacao(p)  BY <3>2, ConfirmarFaz
    <3>3. CASE Cair(p)  BY <3>3, CairFaz
    <3> QED  BY <1>5, <3>1, <3>2, <3>3
  <2>2. PICK fim \in Concluidos : Encerrar(p, fim) /\ obra' = obra /\ editado' = editado
    BY <2>1
  <2>3. \A q \in Pedidos : /\ pc'[q] = IF q = p THEN fim ELSE pc[q]
                           /\ pedido'[q] = IF q = p THEN SemPedido ELSE pedido[q]
    BY <2>2, Fim
  <2>4. EdicaoCerta(p)'
    <3>1. pc'[p] \notin Aprovando /\ pc'[p] # "editando"  BY <2>2, <2>3 DEF Aprovando
    <3> QED  BY <3>1, EdicaoNova
  <2> QED  BY <2>2, <2>3, <2>4, EdicaoFica
<1>6. ASSUME Encerrar(p, "feito"), p \in Ativos, juntos' = juntos
      PROVE  /\ \A q \in Pedidos : q # p => pc'[q] = pc[q] /\ pedido'[q] = pedido[q]
             /\ EdicaoCerta(p)'
             /\ \A q \in Pedidos : q # p /\ q \in Ativos => p \in juntos'[q] /\ q \in juntos'[p]
  <2>1. "feito" \in Concluidos  OBVIOUS
  <2>2. \A q \in Pedidos : /\ pc'[q] = IF q = p THEN "feito" ELSE pc[q]
                           /\ pedido'[q] = IF q = p THEN SemPedido ELSE pedido[q]
    BY <1>6, <2>1, Fim
  <2>3. EdicaoCerta(p)'
    <3>1. pc'[p] \notin Aprovando /\ pc'[p] # "editando"  BY <2>2 DEF Aprovando
    <3> QED  BY <3>1, EdicaoNova
  <2>4. \A q \in Pedidos : q # p /\ q \in Ativos => p \in juntos'[q] /\ q \in juntos'[p]
    BY <1>6 DEF InvJ
  <2> QED  BY <2>2, <2>3, <2>4
<1>7. CASE GravarObra(p)
  <2> DEFINE m == pedido[p].meta
  <2>1. /\ Encerrar(p, "feito") /\ pc[p] = "editando" /\ p \in Editores
        /\ juntos' = juntos
        /\ obra' = IF m.nova = m.lida THEN obra ELSE m.nova
        /\ editado' = [por |-> p, outros |-> m.nova.outros]
    BY <1>7, GravarObraFaz
  <2>2. p \in Ativos  BY <2>1
  <2>3. EdicaoPrevalece'
    <3>1. EdicaoCerta(p)  BY DEF InvE, EdicaoCerta
    <3>2. SUFFICES ASSUME SemOutros(p) PROVE obra'.outros = m.nova.outros
      BY <2>1 DEF EdicaoPrevalece, SemOutros
    <3>3. obra = m.lida  BY <2>1, <3>1, <3>2 DEF EdicaoCerta
    <3> QED  BY <2>1, <3>3
  <2>4. ASSUME NEW q \in Pedidos, q # p PROVE EdicaoCerta(q)'
    <3>1. pc'[q] = pc[q]  BY <1>6, <2>1, <2>2, <2>4
    <3>2. CASE pc[q] = "editando"
      <4>1. p \in juntos'[q]  BY <1>6, <2>1, <2>2, <2>4, <3>2
      <4>2. ~SemOutros(q)'  BY <2>1, <4>1 DEF SemOutros
      <4> QED  BY <3>1, <3>2, <4>2 DEF EdicaoCerta, Aprovando
    <3>3. CASE pc[q] \in Aprovando
      <4>1. q \in Aprovadores  BY <3>3 DEF InvT, PedidoCerto
      <4>2. q \in juntos'[p]  BY <1>6, <2>1, <2>2, <2>4, <3>3 DEF Aprovando
      <4>3. editado'.por = p  BY <2>1
      <4>4. ~(juntos'[editado'.por] \cap (Aprovadores \cup Editores) = {})  BY <4>1, <4>2, <4>3
      <4> QED  BY <3>1, <3>3, <4>4 DEF EdicaoCerta, SemOutros, Aprovando
    <3>4. CASE pc[q] # "editando" /\ pc[q] \notin Aprovando  BY <3>1, <3>4, EdicaoNova
    <3> QED  BY <3>2, <3>3, <3>4
  <2>5. EdicaoCerta(p)'  BY <1>6, <2>1, <2>2
  <2> QED  BY <2>3, <2>4, <2>5 DEF InvE, EdicaoCerta
<1>8. CASE GravarBaseline(p)
  <2>1. /\ Encerrar(p, "feito") /\ pc[p] = "guardado" /\ p \in Aprovadores
        /\ juntos' = juntos /\ editado' = editado
        /\ obra'.outros = pedido[p].meta.outros
    BY <1>8, GravarBaselineFaz
  <2>2. p \in Ativos  BY <2>1
  <2>3. EdicaoPrevalece'
    <3>1. EdicaoCerta(p)  BY DEF InvE, EdicaoCerta
    <3>2. SUFFICES ASSUME editado # Nenhum, SemOutros(editado.por)
                   PROVE  obra'.outros = editado.outros
      BY <2>1 DEF EdicaoPrevalece, SemOutros
    <3>3. pedido[p].meta.outros = editado.outros
      BY <2>1, <3>1, <3>2 DEF EdicaoCerta, Aprovando
    <3> QED  BY <2>1, <3>3
  <2>4. ASSUME NEW q \in Pedidos, q # p PROVE EdicaoCerta(q)'
    <3>1. pc'[q] = pc[q] /\ pedido'[q] = pedido[q]  BY <1>6, <2>1, <2>2, <2>4
    <3>2. CASE pc[q] = "editando"
      <4>1. p \in juntos'[q]  BY <1>6, <2>1, <2>2, <2>4, <3>2
      <4>2. ~SemOutros(q)'  BY <2>1, <4>1 DEF SemOutros
      <4> QED  BY <3>1, <3>2, <4>2 DEF EdicaoCerta, Aprovando
    <3>3. CASE pc[q] # "editando"
      <4>1. EdicaoCerta(q)  BY DEF InvE, EdicaoCerta
      <4> QED  BY <2>1, <3>1, <3>3, <4>1 DEF EdicaoCerta, SemOutros
    <3> QED  BY <3>2, <3>3
  <2>5. EdicaoCerta(p)'  BY <1>6, <2>1, <2>2
  <2> QED  BY <2>3, <2>4, <2>5 DEF InvE, EdicaoCerta
<1>9. CASE LerObra(p)
  <2>1. Avanca(p, "validado", "obraLida") /\ pedido'[p].meta = obra  BY <1>9, LerObraFaz
  <2>2. /\ obra' = obra /\ editado' = editado /\ juntos' = juntos /\ pc'[p] = "obraLida"
        /\ \A q \in Pedidos : q # p => pc'[q] = pc[q] /\ pedido'[q] = pedido[q]
    BY <2>1 DEF Avanca
  <2>3. EdicaoCerta(p)'
    BY <2>1, <2>2 DEF EdicaoCerta, InvE, EdicaoPrevalece, SemOutros
  <2> QED  BY <2>2, <2>3, EdicaoFica
<1>10. ASSUME ListarOrcamento(p) \/ ListarCronograma(p) \/ GuardarBaseline(p) PROVE InvE'
  <2>1. /\ \E para \in Aprovando, de \in Aprovando \ {"validado"} : Avanca(p, de, para)
        /\ pedido'[p].meta = pedido[p].meta
    <3>0. pedido[p] \in Requisicoes  BY TiposDe
    <3>1. CASE ListarOrcamento(p)
      <4>1. Avanca(p, "obraLida", "orcamentoLido")  BY <3>1, ListarOrcamentoFaz
      <4>2. pedido'[p].meta = pedido[p].meta  BY <3>0, <3>1, ListarOrcamentoFaz DEF Requisicoes
      <4> QED  BY <4>1, <4>2 DEF Aprovando
    <3>2. CASE ListarCronograma(p)
      <4>1. Avanca(p, "orcamentoLido", "cronogramaLido")  BY <3>2, ListarCronogramaFaz
      <4>2. pedido'[p].meta = pedido[p].meta  BY <3>0, <3>2, ListarCronogramaFaz DEF Requisicoes
      <4> QED  BY <4>1, <4>2 DEF Aprovando
    <3>3. CASE GuardarBaseline(p)
      <4>1. Avanca(p, "cronogramaLido", "guardado") /\ pedido' = pedido  BY <3>3, GuardarBaselineFaz
      <4> QED  BY <4>1 DEF Aprovando
    <3> QED  BY <1>10, <3>1, <3>2, <3>3
  <2>2. PICK para \in Aprovando, de \in Aprovando \ {"validado"} : Avanca(p, de, para)
    BY <2>1
  <2>3. /\ obra' = obra /\ editado' = editado /\ juntos' = juntos
        /\ pc[p] = de /\ pc'[p] = para
        /\ \A q \in Pedidos : q # p => pc'[q] = pc[q] /\ pedido'[q] = pedido[q]
    BY <2>2 DEF Avanca
  <2>4. EdicaoCerta(p)'
    <3>1. EdicaoCerta(p)  BY DEF InvE, EdicaoCerta
    <3>2. pc'[p] # "editando"  BY <2>3 DEF Aprovando
    <3>3. pc[p] \in Aprovando \ {"validado"}  BY <2>2, <2>3
    <3> QED  BY <2>1, <2>3, <3>1, <3>2, <3>3 DEF EdicaoCerta, SemOutros
  <2> QED  BY <2>3, <2>4, EdicaoFica
<1> QED
  BY <1>1, <1>2, <1>3, <1>4, <1>5, <1>7, <1>8, <1>9, <1>10 DEF Chamar, Prosseguir, Recusa

-----------------------------------------------------------------------------
(* Waits for rows *)

(* Whoever waits only for members of a set is in a circle, or behind one:  *)
(* a smallest such set has nobody that no member waits for, since without  *)
(* that one the others would be a smaller set.                             *)
LEMMA TodaEsperaTemCirculo ==
    ASSUME NEW S \in SUBSET Importadores, S # {},
           \A p \in S : \E q \in S : Espera(p, q)
    PROVE  \E p \in S : EmImpasse(p)
<1> DEFINE Fechado(M) == M # {} /\ \A p \in M : \E q \in M : Espera(p, q)
           F == {M \in SUBSET S : Fechado(M)}
           R == StrictSubsetOrdering(S)
<1>1. IsFiniteSet(S)  BY BaselineAssumption, FS_Subset
<1>2. FiniteSubsetsOf(S) = SUBSET S  BY <1>1, FS_FiniteSubsetsOfFinite
<1>3. IsWellFoundedOn(R, SUBSET S)  BY <1>2, FS_StrictSubsetOrderingWellFounded
<1>4. S \in F /\ F \subseteq SUBSET S  OBVIOUS
<1>5. \E M \in F : \A N \in F : ~ (<<N, M>> \in R)
  <2> HIDE DEF F, R
  <2> QED  BY <1>3, <1>4, WFMin
<1>6. PICK M \in F : \A N \in F : ~ (<<N, M>> \in R)  BY <1>5
<1>7. M \in SUBSET S /\ M # {} /\ \A p \in M : \E q \in M : Espera(p, q)  BY <1>6
<1>8. ASSUME NEW q \in M, \A p \in M : ~Espera(p, q) PROVE FALSE
  <2> DEFINE N == M \ {q}
  <2>1. N \in SUBSET S /\ N \subseteq M /\ N # M  BY <1>7, <1>8
  <2>2. N # {}
    <3>1. PICK r \in M : Espera(q, r)  BY <1>7, <1>8
    <3>2. r # q  BY <3>1 DEF Espera
    <3> QED  BY <3>2
  <2>3. \A p \in N : \E r \in N : Espera(p, r)
    <3> SUFFICES ASSUME NEW p \in N PROVE \E r \in N : Espera(p, r)
      OBVIOUS
    <3>1. PICK r \in M : Espera(p, r)  BY <1>7
    <3>2. r # q  BY <1>8, <3>1
    <3> QED  BY <3>1, <3>2
  <2>4. N \in F  BY <2>1, <2>2, <2>3
  <2>5. <<N, M>> \in R
    <3> HIDE DEF N
    <3> QED  BY <1>7, <2>1 DEF StrictSubsetOrdering
  <2> QED  BY <1>6, <2>4, <2>5
<1>9. Circulo(M)  BY <1>7, <1>8 DEF Circulo
<1>10. PICK p \in M : TRUE  BY <1>7
<1>11. M \in SUBSET Importadores /\ p \in S  BY <1>7
<1>12. EmImpasse(p)  BY <1>9, <1>11 DEF EmImpasse
<1> QED  BY <1>11, <1>12

LEMMA TravasDeInv == InvT /\ InvL => TravasEmOrdem
<1> SUFFICES ASSUME InvT, InvL PROVE TravasEmOrdem
  OBVIOUS
<1>1. \A i \in Ids : trava[i] # Nenhum => pc[trava[i]] = "importando"  BY DEF InvL
<1>2. ASSUME NEW p \in Importadores, pc[p] = "importando", pedido[p].pend # Nenhum,
             \A q \in Importadores : ~Espera(p, q)
      PROVE  LET e == pedido[p].pend IN
             /\ Disponivel(p, e)
             /\ e.lida = Nenhum /\ Vista(p, e.id) # Nenhum => linhas[e.id] # Nenhum
  <2> DEFINE e == pedido[p].pend
  <2>1. p \in Pedidos  BY DEF Pedidos
  <2>2. e \in Pendentes /\ e.id \in Ids
    BY <1>2, <2>1, TiposDe DEF Requisicoes, Pendentes
  <2>3. trava[e.id] \in Importadores \cup {Nenhum}  BY <2>1, <2>2, TiposDe
  <2>4. PendenteCerto(p)  BY <2>1 DEF InvL
  <2>5. e.lida = Nenhum => escrita[p][e.id] = Nenhum  BY <1>2, <2>4 DEF PendenteCerto
  <2>6. Disponivel(p, e)
    <3> SUFFICES ASSUME e.lida # e.linha, trava[e.id] # Nenhum, trava[e.id] # p PROVE FALSE
      BY DEF Disponivel
    <3>1. Espera(p, trava[e.id])  BY <1>2 DEF Espera
    <3> QED  BY <1>2, <2>3, <3>1
  <2>7. e.lida = Nenhum /\ Vista(p, e.id) # Nenhum => linhas[e.id] # Nenhum
    BY <2>5 DEF Vista
  <2> QED  BY <2>6, <2>7
<1>3. \A S \in SUBSET Importadores :
         S # {} /\ (\A p \in S : \E q \in S : Espera(p, q)) => \E p \in S : EmImpasse(p)
  BY TodaEsperaTemCirculo
<1>4. SemImpasse
  <2> HIDE DEF Espera, Disponivel
  <2> QED  BY <1>1, <1>2, <1>3 DEF SemImpasse
<1> QED  BY <1>4 DEF TravasEmOrdem, InvT, InvL

LEMMA UnicaDeInv == InvU => AtividadeUnica
BY DEF InvU, AtividadeUnica, Da, Atividades, Presente

LEMMA CoerenteDeInv == InvC => LinhaCoerente
BY DEF InvC, LinhaCoerente, Isolados, Coerente

LEMMA AprovadoDeInv == InvT /\ InvB => BaselineAprovado
<1> SUFFICES ASSUME InvT, InvB PROVE BaselineAprovado
  OBVIOUS
<1>1. BaselineCompleto  BY DEF InvB
<1>2. SnapshotConfere
  <2> SUFFICES ASSUME Quieto, obra.base # Nenhum PROVE SnapshotConfere
    BY DEF SnapshotConfere
  <2>1. SnapshotCerto /\ objeto # Nenhum  BY DEF InvB, SnapshotCerto
  <2>2. objeto.por \in Pedidos  BY <2>1, ObjetoDeAlguem
  <2>3. pc[objeto.por] # "guardado"  BY <2>2 DEF Quieto, Ativos, Concluidos
  <2> QED  BY <2>1, <2>3 DEF SnapshotCerto, SnapshotConfere
<1> QED  BY <1>1, <1>2 DEF BaselineAprovado

-----------------------------------------------------------------------------
Inv == InvT /\ InvJ /\ InvL /\ InvU /\ InvC /\ InvB /\ InvE

LEMMA InvInicio == Init => Inv
<1> SUFFICES ASSUME Init PROVE Inv
  OBVIOUS
<1> USE DEF Init
<1>1. /\ \A i \in Ids : linhas[i] = Nenhum /\ trava[i] = Nenhum
      /\ \A p \in Pedidos, i \in Ids : escrita[p][i] = Nenhum
      /\ \A p \in Pedidos : /\ pc[p] = "livre" /\ pedido[p] = SemPedido
                            /\ juntos[p] = {}
      /\ obra.base = Nenhum /\ editado = Nenhum
  OBVIOUS
<1>2. InvT
  <2>1. TypeOK  BY DEF TypeOK, Concluidos
  <2>2. obra \in Metas  BY DEF Metas
  <2>3. pedido \in [Pedidos -> Requisicoes]  BY TipoSemPedido
  <2>4. \A p \in Pedidos : PedidoCerto(p)
    <3>1. SemPedido.orc = {} /\ SemPedido.cron = {}  BY DEF SemPedido
    <3> QED  BY <1>1, <3>1, TipoSemPedido DEF PedidoCerto, Aprovando
  <2> QED  BY <2>1, <2>2, <2>3, <2>4 DEF InvT
<1>s. SemPedido.pend = Nenhum  BY DEF SemPedido
<1>3. InvJ  BY <1>1 DEF InvJ, Ativos, Concluidos
<1>4. InvL  BY <1>1, <1>s DEF InvL, EscritaTravada, PendenteCerto
<1>5. InvU
  <2>1. \A i \in Atividades : ~Presente(i)  BY <1>1, <1>s, AutorDeAtividade DEF Presente
  <2>2. \A i \in Atividades : i \in Ids  BY AutorDeAtividade
  <2> QED  BY <1>1, <2>1, <2>2 DEF InvU
<1>6. InvC  BY <1>1, <1>s DEF InvC, Coerente
<1>7. InvB  BY <1>1 DEF InvB, AprovacaoCerta, BaselineCompleto, SnapshotCerto, Aprovando
<1>8. InvE  BY <1>1 DEF InvE, EdicaoPrevalece, Aprovando
<1> QED  BY <1>2, <1>3, <1>4, <1>5, <1>6, <1>7, <1>8 DEF Inv

LEMMA InvPasso == Inv /\ [Next]_vars => Inv'
<1> SUFFICES ASSUME Inv, [Next]_vars PROVE Inv'
  OBVIOUS
<1> USE DEF Inv
<1>1. ASSUME NEW p \in Pedidos, Chamar(p) \/ Prosseguir(p) \/ Cair(p) PROVE Inv'
  <2>1. /\ InvT'
        /\ Comeca(p) \/ LerLinha(p) \/ Descarregar(p) \/ Termina(p) \/ Avancando(p)
    BY <1>1, Especies
  <2>2. InvJ' /\ \A q \in Pedidos : juntos[q] \subseteq juntos'[q]  BY <2>1, EncontrosPasso
  <2>3. InvL'  BY <2>1, TravasPasso
  <2>4. InvU'  BY <2>1, <2>2, <2>3, UnicaPasso
  <2>5. InvC'  BY <2>1, <2>2, CoerentePasso
  <2>6. InvB'  BY <1>1, <2>2, SnapshotPasso
  <2>7. InvE'  BY <1>1, <2>2, EdicaoPasso
  <2> QED  BY <2>1, <2>2, <2>3, <2>4, <2>5, <2>6, <2>7
<1>2. CASE UNCHANGED vars
  <2>1. /\ linhas' = linhas /\ trava' = trava /\ escrita' = escrita /\ obra' = obra
        /\ objeto' = objeto /\ pc' = pc /\ pedido' = pedido /\ quedas' = quedas
        /\ juntos' = juntos /\ editado' = editado
    BY <1>2 DEF vars
  <2>2. InvT'  BY <2>1 DEF InvT, TypeOK, PedidoCerto
  <2>3. InvJ'  BY <2>1 DEF InvJ, Ativos
  <2>4. InvL'  BY <2>1 DEF InvL, EscritaTravada, PendenteCerto, Vista
  <2>5. InvU'  BY <2>1 DEF InvU, Presente
  <2>6. InvC'  BY <2>1 DEF InvC, Isolados, Vista
  <2>7. InvB'  BY <2>1 DEF InvB, AprovacaoCerta, BaselineCompleto, SnapshotCerto, Pronto, Da
  <2>8. InvE'  BY <2>1 DEF InvE, EdicaoPrevalece, SemOutros
  <2> QED  BY <2>2, <2>3, <2>4, <2>5, <2>6, <2>7, <2>8
<1> QED  BY <1>1, <1>2 DEF Next

LEMMA InvSempre == Spec => []Inv
<1>1. Init => Inv  BY InvInicio
<1>2. Inv /\ [Next]_vars => Inv'  BY InvPasso
<1> QED  BY <1>1, <1>2, PTL DEF Spec

(* Rows have one writer, and no set of imports waits for ever: one that    *)
(* waits for nobody can go on, and wherever all wait for one another       *)
(* PostgreSQL finds a circle (import_orcamento, import_cronograma).        *)
THEOREM TravasSempreEmOrdem == Spec => []TravasEmOrdem
<1>1. Inv => TravasEmOrdem  BY TravasDeInv DEF Inv
<1> QED  BY <1>1, InvSempre, PTL

(* A code has a second activity only where two imports in progress         *)
(* together both looked for it first (import_cronograma).                  *)
THEOREM AtividadeSempreUnica == Spec => []AtividadeUnica
<1>1. Inv => AtividadeUnica  BY UnicaDeInv DEF Inv
<1> QED  BY <1>1, InvSempre, PTL

(* Imports that are not in progress together leave every row with the      *)
(* metadata_json of its columns (upsert of an item that was read).         *)
THEOREM LinhaSempreCoerente == Spec => []LinhaCoerente
<1>1. Inv => LinhaCoerente  BY CoerenteDeInv DEF Inv
<1> QED  BY <1>1, InvSempre, PTL

(* An approved baseline is complete and is the snapshot in the bucket, but *)
(* for approvals that met and one that died (approve_baseline).            *)
THEOREM BaselineSempreAprovado == Spec => []BaselineAprovado
<1>1. Inv => BaselineAprovado  BY AprovadoDeInv DEF Inv
<1> QED  BY <1>1, InvSempre, PTL

(* An edit of the obra that met no approval nor other edit is not undone   *)
(* by the approvals that come later (approve_baseline, upsert_obra).       *)
THEOREM EdicaoSemprePrevalece == Spec => []EdicaoPrevalece
<1>1. Inv => EdicaoPrevalece  BY DEF Inv, InvE
<1> QED  BY <1>1, InvSempre, PTL
=============================================================================
