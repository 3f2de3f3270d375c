------------------------------ MODULE Baseline ------------------------------
(***************************************************************************)
(* Budget items, schedule activities and the approved baseline of one      *)
(* obra.  Imports upsert rows one by one in a transaction, holding the     *)
(* rows they wrote; an approval validates, reads the rows again, stores a  *)
(* snapshot and writes the metadata of the obra back.                      *)
(***************************************************************************)
EXTENDS Naturals, Sequences, FiniteSets

CONSTANTS Lotes,          \* batches: sequences of [cod, x, y]
          Codigos, Valores,
          Importadores, Aprovadores, Editores,  \* one request each
          MaxQuedas,      \* bound: requests that die half-way
          Nenhum

Pedidos == Importadores \cup Aprovadores \cup Editores

ASSUME BaselineAssumption ==
    /\ MaxQuedas \in Nat /\ Nenhum \notin Pedidos
    /\ IsFiniteSet(Codigos) /\ IsFiniteSet(Importadores)
    /\ Lotes \subseteq Seq([cod : Codigos, x : Valores, y : Valores])

VARIABLES linhas,   \* committed rows of orcamento_itens and cronograma_atividades
          trava,    \* request that inserted or updated a row, until it ends
          escrita,  \* rows each request has flushed and not committed
          obra,     \* metadata_json of the obra
          objeto,   \* baseline_FINAL.json of the day
          pc, pedido, quedas,
          juntos,   \* history: the requests in progress along with each
          editado   \* history: the last edit of the obra that was committed

vars == <<linhas, trava, escrita, obra, objeto, pc, pedido, quedas, juntos,
          editado>>

(* A budget item is unique by its code, an activity only by its own id.    *)
Ids == [tab : {"orc"}, cod : Codigos, autor : {Nenhum}]
       \cup [tab : {"cron"}, cod : Codigos, autor : Importadores]
(* x, y: quantity and unit value, or start and end; doc: metadata_json.    *)
Linha == [x : Valores, y : Valores, doc : Valores \X Valores]
Nova(i) == [x |-> i.x, y |-> i.y, doc |-> <<i.x, i.y>>]
(* The row an import is about to send, and the row as its select saw it.   *)
Pendentes == [id : Ids, lida : Linha \cup {Nenhum}, linha : Linha]
(* What the metadata of the obra says of its baseline.                     *)
Bases == [por : Pedidos, orc : Nat, cron : Nat]

ASSUME NenhumAssumption ==
    /\ Nenhum \notin Linha \cup Pendentes \cup Bases
    /\ Nenhum \notin [por : Pedidos, orc : SUBSET (Ids \X Linha), cron : SUBSET (Ids \X Linha)]
    /\ Nenhum \notin [por : Pedidos, outros : {0, 1}]

SemPedido == [tab |-> "orc", lote |-> <<>>, pend |-> Nenhum,
              meta |-> Nenhum, orc |-> {}, cron |-> {}]
Da(tab) == {i \in Ids : i.tab = tab /\ linhas[i] # Nenhum}

Init ==
    /\ linhas = [i \in Ids |-> Nenhum]
    /\ trava = [i \in Ids |-> Nenhum]
    /\ escrita = [p \in Pedidos |-> [i \in Ids |-> Nenhum]]
    /\ obra = [outros |-> 0, base |-> Nenhum]
    /\ objeto = Nenhum
    /\ pc = [p \in Pedidos |-> "livre"]
    /\ pedido = [p \in Pedidos |-> SemPedido]
    /\ quedas = 0
    /\ juntos = [p \in Pedidos |-> {}]
    /\ editado = Nenhum

Concluidos == {"livre", "feito", "recusado", "morto"}
Ativos == {p \in Pedidos : pc[p] \notin Concluidos}
Comecar(p) ==
    /\ pc[p] = "livre"
    /\ juntos' = [q \in Pedidos |->
                    IF q = p THEN Ativos
                    ELSE IF q \in Ativos THEN juntos[q] \cup {p} ELSE juntos[q]]

(* The end of a transaction: its rows are released, its memory forgotten.  *)
Encerrar(p, fim) ==
    /\ trava' = [i \in Ids |-> IF trava[i] = p THEN Nenhum ELSE trava[i]]
    /\ escrita' = [escrita EXCEPT ![p] = [i \in Ids |-> Nenhum]]
    /\ pc' = [pc EXCEPT ![p] = fim]
    /\ pedido' = [pedido EXCEPT ![p] = SemPedido]

-----------------------------------------------------------------------------
(* import_orcamento and import_cronograma *)

Importar(p, t, l) ==
    /\ p \in Importadores /\ Comecar(p)
    /\ pedido' = [pedido EXCEPT ![p] = [SemPedido EXCEPT !.tab = t, !.lote = l]]
    /\ pc' = [pc EXCEPT ![p] = IF l = <<>> THEN "recusado" ELSE "importando"]
    /\ UNCHANGED <<linhas, trava, escrita, obra, objeto, quedas, editado>>

(* A row as the transaction of p sees it.                                  *)
Vista(p, i) == IF escrita[p][i] # Nenhum THEN escrita[p][i] ELSE linhas[i]

(* Mutant: only the rows the import itself wrote are looked at.            *)
AchadasNoLote(p, t, c) ==
    {i \in Ids : i.tab = t /\ i.cod = c /\ escrita[p][i] # Nenhum}
Achadas(p, t, c) ==
    {i \in Ids : i.tab = t /\ i.cod = c /\ Vista(p, i) # Nenhum}

(* The select of the next item.  When a code has several activities the    *)
(* latest by created_at is taken; the model lets it be any of them.        *)
LerLinha(p) ==
    LET r == pedido[p]
        c == Head(r.lote).cod
        nova == [tab |-> r.tab, cod |-> c,
                 autor |-> IF r.tab = "orc" THEN Nenhum ELSE p]
        ids == Achadas(p, r.tab, c)
    IN
    /\ pc[p] = "importando" /\ r.pend = Nenhum /\ r.lote # <<>>
    /\ \E i \in IF ids = {} THEN {nova} ELSE ids :
         pedido' = [pedido EXCEPT ![p] = [r EXCEPT
             !.lote = Tail(@),
             !.pend = [id |-> i, lida |-> IF ids = {} THEN Nenhum ELSE Vista(p, i),
                       linha |-> Nova(Head(r.lote))]]]
    /\ UNCHANGED <<linhas, trava, escrita, obra, objeto, pc, quedas, juntos, editado>>

(* Mutant: metadata_json is left as it was.                                *)
SemDocumento(atual, lida, nova) == [nova EXCEPT !.doc = atual.doc]
(* An UPDATE writes the columns that differ from what the select returned, *)
(* over what the row is by then.                                           *)
Atualizada(atual, lida, nova) ==
    [c \in DOMAIN nova |-> IF nova[c] = lida[c] THEN atual[c] ELSE nova[c]]

Disponivel(p, e) == e.lida # e.linha => trava[e.id] \in {Nenhum, p}

(* The pending item is sent before the next select or the commit; it waits *)
(* for a row another transaction wrote.                                    *)
Descarregar(p) ==
    LET e == pedido[p].pend IN
    /\ pc[p] = "importando" /\ e # Nenhum
    /\ Disponivel(p, e)
    /\ e.lida = Nenhum => Vista(p, e.id) = Nenhum
    /\ pedido' = [pedido EXCEPT ![p].pend = Nenhum]
    /\ IF e.lida = e.linha
       THEN UNCHANGED <<trava, escrita>>
       ELSE /\ trava' = [trava EXCEPT ![e.id] = p]
            /\ escrita' = [escrita EXCEPT ![p][e.id] =
                 IF e.lida = Nenhum THEN e.linha
                 ELSE Atualizada(Vista(p, e.id), e.lida, e.linha)]
    /\ UNCHANGED <<linhas, obra, objeto, pc, quedas, juntos, editado>>

(* The insert of a code that was committed meanwhile: IntegrityError.      *)
Colidir(p) ==
    LET e == pedido[p].pend IN
    /\ pc[p] = "importando" /\ e # Nenhum
    /\ e.lida = Nenhum /\ trava[e.id] \in {Nenhum, p} /\ linhas[e.id] # Nenhum
    /\ Encerrar(p, "recusado")
    /\ UNCHANGED <<linhas, obra, objeto, quedas, juntos, editado>>

Espera(p, q) ==
    /\ p # q /\ pc[p] = "importando" /\ pedido[p].pend # Nenhum
    /\ pedido[p].pend.lida # pedido[p].pend.linha
    /\ trava[pedido[p].pend.id] = q

(* Mutant: nobody breaks the wait of two for each other.                   *)
SemVitima(p) == p # p
(* PostgreSQL aborts one of the transactions that wait in a circle.        *)
Circulo(S) ==
    /\ \A p \in S : \E q \in S : Espera(p, q)
    /\ \A q \in S : \E p \in S : Espera(p, q)
EmImpasse(p) == \E S \in SUBSET Importadores : p \in S /\ Circulo(S)
Impasse(p) ==
    /\ EmImpasse(p)
    /\ Encerrar(p, "recusado")
    /\ UNCHANGED <<linhas, obra, objeto, quedas, juntos, editado>>

ConfirmarImportacao(p) ==
    /\ pc[p] = "importando" /\ pedido[p].lote = <<>> /\ pedido[p].pend = Nenhum
    /\ linhas' = [i \in Ids |-> Vista(p, i)]
    /\ Encerrar(p, "feito")
    /\ UNCHANGED <<obra, objeto, quedas, juntos, editado>>

-----------------------------------------------------------------------------
(* approve_baseline *)

(* Two counts; no row is ever deleted, so one step tells the same.         *)
Pronto == Da("orc") # {} /\ Da("cron") # {}

Validar(p) ==
    /\ p \in Aprovadores /\ Comecar(p)
    /\ pc' = [pc EXCEPT ![p] = IF Pronto THEN "validado" ELSE "recusado"]
    /\ UNCHANGED <<linhas, trava, escrita, obra, objeto, pedido, quedas, editado>>

LerObra(p) ==
    /\ pc[p] = "validado"
    /\ pedido' = [pedido EXCEPT ![p].meta = obra]
    /\ pc' = [pc EXCEPT ![p] = "obraLida"]
    /\ UNCHANGED <<linhas, trava, escrita, obra, objeto, quedas, juntos, editado>>

ListarOrcamento(p) ==
    /\ pc[p] = "obraLida"
    /\ pedido' = [pedido EXCEPT ![p].orc = {<<i, linhas[i]>> : i \in Da("orc")}]
    /\ pc' = [pc EXCEPT ![p] = "orcamentoLido"]
    /\ UNCHANGED <<linhas, trava, escrita, obra, objeto, quedas, juntos, editado>>

ListarCronograma(p) ==
    /\ pc[p] = "orcamentoLido"
    /\ pedido' = [pedido EXCEPT ![p].cron = {<<i, linhas[i]>> : i \in Da("cron")}]
    /\ pc' = [pc EXCEPT ![p] = "cronogramaLido"]
    /\ UNCHANGED <<linhas, trava, escrita, obra, objeto, quedas, juntos, editado>>

(* Mutant: the object of the day is kept.                                  *)
ObjetoMantido(o) == IF objeto = Nenhum THEN o ELSE objeto
(* The snapshot replaces the one of the day.                               *)
ObjetoNovo(o) == o

GuardarBaseline(p) ==
    /\ pc[p] = "cronogramaLido"
    /\ objeto' = ObjetoNovo([por |-> p, orc |-> pedido[p].orc, cron |-> pedido[p].cron])
    /\ pc' = [pc EXCEPT ![p] = "guardado"]
    /\ UNCHANGED <<linhas, trava, escrita, obra, pedido, quedas, juntos, editado>>

(* Mutant: the metadata is the baseline alone.                             *)
SoBaseline(meta, b) == [outros |-> IF meta.base = b THEN meta.outros ELSE 0, base |-> b]
ComBaseline(meta, b) == [meta EXCEPT !.base = b]

(* The metadata it read, with the baseline added, replaces the current.    *)
GravarBaseline(p) ==
    /\ pc[p] = "guardado"
    /\ obra' = ComBaseline(pedido[p].meta,
                 [por |-> p, orc |-> Cardinality(pedido[p].orc),
                  cron |-> Cardinality(pedido[p].cron)])
    /\ Encerrar(p, "feito")
    /\ UNCHANGED <<linhas, objeto, quedas, juntos, editado>>

-----------------------------------------------------------------------------
(* upsert_obra on a registered obra: the metadata is replaced.             *)

EditarObra(p, o) ==
    /\ p \in Editores /\ Comecar(p)
    /\ pedido' = [pedido EXCEPT ![p].meta = [lida |-> obra,
                                            nova |-> [outros |-> o, base |-> Nenhum]]]
    /\ pc' = [pc EXCEPT ![p] = "editando"]
    /\ UNCHANGED <<linhas, trava, escrita, obra, objeto, quedas, editado>>

GravarObra(p) ==
    LET m == pedido[p].meta IN
    /\ pc[p] = "editando"
    /\ obra' = IF m.nova = m.lida THEN obra ELSE m.nova
    /\ editado' = [por |-> p, outros |-> m.nova.outros]
    /\ Encerrar(p, "feito")
    /\ UNCHANGED <<linhas, objeto, quedas, juntos>>

Cair(p) ==
    /\ p \in Ativos /\ quedas < MaxQuedas
    /\ quedas' = quedas + 1
    /\ Encerrar(p, "morto")
    /\ UNCHANGED <<linhas, obra, objeto, juntos, editado>>

-----------------------------------------------------------------------------
Chamar(p) ==
    \/ \E t \in {"orc", "cron"}, l \in Lotes : Importar(p, t, l)
    \/ Validar(p)
    \/ \E o \in {0, 1} : EditarObra(p, o)

Prosseguir(p) ==
    \/ LerLinha(p) \/ Descarregar(p) \/ Colidir(p) \/ Impasse(p)
    \/ ConfirmarImportacao(p)
    \/ LerObra(p) \/ ListarOrcamento(p) \/ ListarCronograma(p)
    \/ GuardarBaseline(p) \/ GravarBaseline(p) \/ GravarObra(p)

Next == \E p \in Pedidos : Chamar(p) \/ Prosseguir(p) \/ Cair(p)

Spec == Init /\ [][Next]_vars

-----------------------------------------------------------------------------
Quieto == Ativos = {}

(* Every variable has its type.                                            *)
TypeOK ==
    /\ linhas \in [Ids -> Linha \cup {Nenhum}]
    /\ trava \in [Ids -> Importadores \cup {Nenhum}]
    /\ escrita \in [Pedidos -> [Ids -> Linha \cup {Nenhum}]]
    /\ obra.outros \in {0, 1}
    /\ juntos \in [Pedidos -> SUBSET Pedidos]
    /\ pc \in [Pedidos -> Concluidos \cup {"importando", "validado", "obraLida",
                 "orcamentoLido", "cronogramaLido", "guardado", "editando"}]
    /\ quedas \in Nat

(* Only the transaction that holds a row has written it, so two imports    *)
(* never both carry an uncommitted version of one row.                     *)
EscritaTravada ==
    \A p \in Pedidos, i \in Ids : escrita[p][i] # Nenhum => trava[i] = p

(* The baseline that is approved has budget items and activities, though   *)
(* rows are read again after they were counted.                            *)
BaselineCompleto ==
    obra.base # Nenhum => obra.base.orc > 0 /\ obra.base.cron > 0

(* A row is held by an import in progress, and an import that waits for    *)
(* nobody can send its pending row or is told that it collides: imports    *)
(* that take the rows of each other in opposite order are not stuck, one   *)
(* of those that wait for one another is aborted, however many they are.   *)
SemImpasse ==
    /\ \A i \in Ids : trava[i] # Nenhum => pc[trava[i]] = "importando"
    /\ \A p \in Importadores :
          LET e == pedido[p].pend IN
          /\ pc[p] = "importando" /\ e # Nenhum
          /\ \A q \in Importadores : ~Espera(p, q)
          => /\ Disponivel(p, e)
             /\ e.lida = Nenhum /\ Vista(p, e.id) # Nenhum => linhas[e.id] # Nenhum
    /\ \A S \in SUBSET Importadores :
          S # {} /\ (\A p \in S : \E q \in S : Espera(p, q))
              => \E p \in S : EmImpasse(p)

(* Row locks: one writer per row, and nobody waits for ever.               *)
TravasEmOrdem == TypeOK /\ EscritaTravada /\ SemImpasse

(* A code has one activity, but for imports that were in progress together *)
(* and both looked for it before either had inserted it.                   *)
AtividadeUnica ==
    \A i, j \in Da("cron") : i.cod = j.cod => i = j \/ j.autor \in juntos[i.autor]

(* metadata_json, the payload of the import, agrees with the columns until *)
(* two imports write the columns that changed for each over one row.       *)
LinhaCoerente ==
    (\A p, q \in Importadores : q \notin juntos[p]) =>
        \A i \in Ids : linhas[i] # Nenhum => linhas[i].doc = <<linhas[i].x, linhas[i].y>>

(* The stored snapshot is the one the metadata of the obra speaks of; only *)
(* an approval in progress along with it, or one that died before its      *)
(* commit, leaves a snapshot of its own behind.                            *)
SnapshotConfere ==
    Quieto /\ obra.base # Nenhum =>
        \/ /\ objeto.por = obra.base.por
           /\ Cardinality(objeto.orc) = obra.base.orc
           /\ Cardinality(objeto.cron) = obra.base.cron
        \/ objeto.por \in juntos[obra.base.por]
        \/ pc[objeto.por] = "morto"

(* What was approved is complete, and it is what was stored.               *)
BaselineAprovado == BaselineCompleto /\ SnapshotConfere

(* The rest of the metadata is as the last edit of the obra left it, unless*)
(* an approval or another edit was in progress along with that edit: an    *)
(* approval writes back the whole metadata it read.                        *)
EdicaoPrevalece ==
    editado # Nenhum /\ juntos[editado.por] \cap (Aprovadores \cup Editores) = {} =>
        obra.outros = editado.outros
=============================================================================
