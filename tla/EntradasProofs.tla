--------------------------- MODULE EntradasProofs ---------------------------
(***************************************************************************)
(* Proofs about the ingestion pipeline, for every choice of the constants. *)
(*                                                                         *)
(* The invariants of the pipeline rest on Coerencia, the agreement between *)
(* requests, rows and jobs that Entradas defines; Inv1 adds the types.     *)
(***************************************************************************)
EXTENDS Entradas, FiniteSetTheorems, TLAPS

USE ConstantesOK DEF ConstantesOK, OuNenhum, Ids, Pedidos

Inv1 == TypeOK /\ Coerencia

-----------------------------------------------------------------------------
(* Updates of one record in a table                                        *)

(* PassarPara changes the phase of one job and nothing else of it.         *)
LEMMA PassarParaLema ==
    ASSUME jobs \in [Pedidos -> Job], NEW j \in Pedidos, NEW f \in Fase,
           PassarPara(j, f)
    PROVE  /\ jobs' \in [Pedidos -> Job]
           /\ jobs'[j].fase = f /\ jobs'[j].entrada = jobs[j].entrada
           /\ jobs'[j].obra = jobs[j].obra /\ jobs'[j].tentativa = jobs[j].tentativa
           /\ \A k \in Pedidos \ {j} : jobs'[k] = jobs[k]
<1>1. jobs[j] \in Job
  OBVIOUS
<1>2. jobs' = [jobs EXCEPT ![j] = [jobs[j] EXCEPT !.fase = f]]
  BY DEF PassarPara
<1>3. [jobs[j] EXCEPT !.fase = f]
      = [fase |-> f, entrada |-> jobs[j].entrada, obra |-> jobs[j].obra,
         tentativa |-> jobs[j].tentativa]
  BY <1>1 DEF Job
<1>. QED
  BY <1>1, <1>2, <1>3 DEF Job

(* Iniciar keeps the entrada and the attempt of the job and gives it the   *)
(* obra of the entrada.                                                    *)
LEMMA IniciarLema ==
    ASSUME jobs \in [Pedidos -> Job], NEW j \in Pedidos, Iniciar(j),
           jobs[j].entrada \in Ids, entradas[jobs[j].entrada].obra \in Obras
    PROVE  /\ jobs' \in [Pedidos -> Job]
           /\ jobs'[j].fase = "iniciado" /\ jobs'[j].entrada = jobs[j].entrada
           /\ jobs'[j].obra = entradas[jobs[j].entrada].obra
           /\ jobs'[j].tentativa = jobs[j].tentativa
           /\ \A k \in Pedidos \ {j} : jobs'[k] = jobs[k]
BY DEF Iniciar, EntradaDe, Job, Fase, Vivo, EmExecucao

(* Reagendar puts the job back in the queue with its next attempt.         *)
LEMMA ReagendarLema ==
    ASSUME jobs \in [Pedidos -> Job], NEW j \in Pedidos, Reagendar(j)
    PROVE  /\ jobs' \in [Pedidos -> Job]
           /\ jobs'[j].fase = "fila" /\ jobs'[j].entrada = jobs[j].entrada
           /\ jobs'[j].tentativa = jobs[j].tentativa + 1
           /\ \A k \in Pedidos \ {j} : jobs'[k] = jobs[k]
<1>1. jobs[j] \in Job
  OBVIOUS
<1>2. jobs[j].tentativa + 1 \in 0..MaxTentativas
  BY <1>1 DEF Reagendar, RestaTentativa, Job
<1>3. NaFila(jobs[j].entrada, jobs[j].tentativa + 1) \in Job
  BY <1>1, <1>2 DEF NaFila, Job, Fase, Vivo, EmExecucao
<1>. QED
  BY <1>3 DEF Reagendar, EntradaDe, NaFila

(* Writing the status of one entrada leaves the rest of the table alone.   *)
LEMMA MudarStatusLema ==
    ASSUME entradas \in [Ids -> Entrada], NEW i \in Ids, NEW s \in StatusEntrada,
           entradas' = [entradas EXCEPT ![i].status = s]
    PROVE  /\ entradas' \in [Ids -> Entrada]
           /\ entradas'[i].status = s /\ entradas'[i].evento = entradas[i].evento
           /\ entradas'[i].obra = entradas[i].obra
           /\ entradas'[i].escopo = entradas[i].escopo
           /\ \A k \in Ids \ {i} : entradas'[k] = entradas[k]
<1>1. entradas[i] \in Entrada
  OBVIOUS
<1>2. [entradas[i] EXCEPT !.status = s]
      = [status |-> s, evento |-> entradas[i].evento, obra |-> entradas[i].obra,
         escopo |-> entradas[i].escopo]
  BY <1>1 DEF Entrada
<1>3. entradas' = [entradas EXCEPT ![i] =
          [status |-> s, evento |-> entradas[i].evento, obra |-> entradas[i].obra,
           escopo |-> entradas[i].escopo]]
  BY <1>2
<1>. QED
  BY <1>1, <1>3 DEF Entrada

(* A resolver's commit changes obra and status of its entrada only.        *)
LEMMA GravarResolvidaLema ==
    ASSUME entradas \in [Ids -> Entrada], NEW r \in Resolvedores, GravarResolvida(r),
           alvo[r] \in Ids, pedida[r] \in Obras
    PROVE  /\ entradas' \in [Ids -> Entrada]
           /\ entradas'[alvo[r]].status = "received"
           /\ entradas'[alvo[r]].obra = pedida[r]
           /\ entradas'[alvo[r]].evento = entradas[alvo[r]].evento
           /\ entradas'[alvo[r]].escopo = entradas[alvo[r]].escopo
           /\ \A k \in Ids \ {alvo[r]} : entradas'[k] = entradas[k]
BY DEF GravarResolvida, Entrada, StatusEntrada

-----------------------------------------------------------------------------
(* Inv1 is inductive                                                       *)

(* A job that only changes phase stays coherent with its entrada.          *)
LEMMA FaseLema ==
    ASSUME Inv1, NEW j \in Pedidos, NEW f \in Fase, PassarPara(j, f),
           jobs[j].fase # "nenhum", f # "nenhum",
           f \in EmExecucao => jobs[j].obra \in Obras,
           entradas' = entradas, pc' = pc
    PROVE  jobs' \in [Pedidos -> Job] /\ JobsCoerentes'
<1>1. jobs \in [Pedidos -> Job]
  BY DEF Inv1, TypeOK
<1>. QED
  BY <1>1, PassarParaLema DEF Inv1, Coerencia, JobsCoerentes, Existe

(* A job that writes the status of its entrada keeps every agreement.      *)
LEMMA StatusLema ==
    ASSUME Inv1, NEW j \in Pedidos, NEW f \in Fase, PassarPara(j, f),
           jobs[j].fase # "nenhum", f # "nenhum",
           f \in EmExecucao => jobs[j].obra \in Obras,
           NEW s \in StatusEntrada \ {"ausente", "pending_obra"},
           entradas' = [entradas EXCEPT ![jobs[j].entrada].status = s],
           UNCHANGED <<pedidoVars, mensagens>>
    PROVE  /\ jobs' \in [Pedidos -> Job] /\ entradas' \in [Ids -> Entrada]
           /\ Coerencia'
<1>1. /\ jobs \in [Pedidos -> Job] /\ entradas \in [Ids -> Entrada]
      /\ jobs[j].entrada \in Ids
  BY DEF Inv1, TypeOK, Coerencia, JobsCoerentes
<1>2. /\ jobs' \in [Pedidos -> Job] /\ jobs'[j].fase = f
      /\ jobs'[j].entrada = jobs[j].entrada /\ jobs'[j].obra = jobs[j].obra
      /\ jobs'[j].tentativa = jobs[j].tentativa
      /\ \A k \in Pedidos \ {j} : jobs'[k] = jobs[k]
  BY <1>1, PassarParaLema
<1>3. /\ entradas' \in [Ids -> Entrada] /\ entradas'[jobs[j].entrada].status = s
      /\ \A i \in Ids : /\ entradas'[i].evento = entradas[i].evento
                        /\ entradas'[i].obra = entradas[i].obra
      /\ \A k \in Ids \ {jobs[j].entrada} : entradas'[k] = entradas[k]
  BY <1>1, MudarStatusLema
<1>4. \A i \in Ids : (Existe(i))' <=> Existe(i)
  BY <1>3 DEF Existe, Inv1, Coerencia, JobsCoerentes
<1>5. PedidosCoerentes' /\ CommitCoerente'
  BY <1>3, <1>4 DEF Inv1, Coerencia, PedidosCoerentes, CommitCoerente, pedidoVars
<1>6. EntradasCoerentes'
  BY <1>3, <1>4 DEF Inv1, Coerencia, EntradasCoerentes, JobsCoerentes
<1>7. JobsCoerentes'
  BY <1>1, <1>2, <1>3, <1>4 DEF Inv1, Coerencia, JobsCoerentes, pedidoVars
<1>. QED
  BY <1>2, <1>3, <1>5, <1>6, <1>7 DEF Coerencia

(* The empty tables are coherent.                                          *)
LEMMA InitInv1 == Init => Inv1
BY DEF Init, Inv1, TypeOK, Coerencia, PedidosCoerentes, CommitCoerente,
   EntradasCoerentes, JobsCoerentes, Existe, Chave, SemChave, Mensagem, SemMensagem,
   Entrada, SemEntrada, StatusEntrada, Job, SemJob, Fase, Vivo, EmExecucao,
   Resposta, TipoResposta, PcPedido

(* Every step of a request or a job keeps types and agreements.            *)
LEMMA PassoInv1 ==
    ASSUME Inv1, [Next]_vars
    PROVE  Inv1'
<1> USE DEF Inv1
<1>1. CASE UNCHANGED vars
  BY <1>1 DEF vars, envVars, pedidoVars, bancoVars, TypeOK, Coerencia,
     PedidosCoerentes, CommitCoerente, EntradasCoerentes, JobsCoerentes, Existe
<1>2. ASSUME NEW o \in Obras, CadastrarObra(o) PROVE Inv1'
  BY <1>2 DEF CadastrarObra, TypeOK, pedidoVars, bancoVars, Coerencia,
     PedidosCoerentes, CommitCoerente, EntradasCoerentes, JobsCoerentes, Existe
<1>3. ASSUME NEW o \in OuNenhum(Obras), DefinirContexto(o) PROVE Inv1'
  BY <1>3 DEF DefinirContexto, TypeOK, pedidoVars, bancoVars, Coerencia,
     PedidosCoerentes, CommitCoerente, EntradasCoerentes, JobsCoerentes, Existe
<1>4. ASSUME NEW w \in Webhooks, NEW e \in Eventos, Receber(w, e) PROVE Inv1'
  <2>1. TypeOK'
    BY <1>4 DEF Receber, TypeOK, envVars, bancoVars, ObraSolicitada, ObraRegistrada,
       PcPedido
  <2>2. Coerencia'
    BY <1>4 DEF Receber, TypeOK, bancoVars, Coerencia, PedidosCoerentes,
       CommitCoerente, EntradasCoerentes, JobsCoerentes, Existe
  <2>. QED BY <2>1, <2>2
<1>5. ASSUME NEW w \in Webhooks, Reivindicar(w) PROVE Inv1'
  <2>1. TypeOK'
    BY <1>5 DEF Reivindicar, TypeOK, envVars, bancoVars, PcPedido
  <2>2. Coerencia'
    BY <1>5 DEF Reivindicar, TypeOK, bancoVars, Coerencia, PedidosCoerentes,
       CommitCoerente, EntradasCoerentes, JobsCoerentes, Existe
  <2>. QED BY <2>1, <2>2
<1>6. ASSUME NEW w \in Webhooks, Repetida(w) PROVE Inv1'
  <2>1. ChaveDe(w) \in Chaves
    BY <1>6 DEF Repetida, Coerencia, PedidosCoerentes, TypeOK, ChaveDe, Chaves
  <2>2. TypeOK'
    BY <1>6, <2>1 DEF Repetida, TypeOK, envVars, bancoVars, PcPedido, Resposta,
       TipoResposta, Chave
  <2>3. Coerencia'
    BY <1>6 DEF Repetida, TypeOK, bancoVars, Coerencia, PedidosCoerentes,
       CommitCoerente, EntradasCoerentes, JobsCoerentes, Existe
  <2>. QED BY <2>2, <2>3
<1>7. ASSUME NEW w \in Webhooks, Gravar(w) PROVE Inv1'
  <2>1. evento[w] \in Eventos /\ ChaveDe(w) \in Chaves /\ ~Existe(w)
    BY <1>7 DEF Gravar, Coerencia, PedidosCoerentes, CommitCoerente, TypeOK,
       ChaveDe, Chaves
  <2>2. TypeOK'
    BY <1>7, <2>1 DEF Gravar, TypeOK, envVars, PcPedido, Resposta, TipoResposta,
       Chave, Mensagem, Entrada, StatusEntrada, EscopoPendente
  <2>3. Coerencia'
    BY SMTT(60), <1>7, <2>1 DEF Gravar, TypeOK, Coerencia, PedidosCoerentes, CommitCoerente,
       EntradasCoerentes, JobsCoerentes, Existe
  <2>. QED BY <2>2, <2>3
<1>8. ASSUME NEW w \in Webhooks, Conflitar(w) PROVE Inv1'
  BY <1>8 DEF Conflitar, TypeOK, envVars, bancoVars, PcPedido, Coerencia,
     PedidosCoerentes, CommitCoerente, EntradasCoerentes, JobsCoerentes, Existe
<1>9. ASSUME NEW w \in Webhooks, EnfileirarRecebida(w) PROVE Inv1'
  <2>1. TypeOK'
    BY <1>9 DEF EnfileirarRecebida, TypeOK, envVars, bancoVars, PcPedido, Resposta,
       TipoResposta, NaFila, Job, Fase, Vivo
  <2>2. Coerencia'
    BY <1>9 DEF EnfileirarRecebida, TypeOK, bancoVars, NaFila, EmExecucao, Coerencia,
       PedidosCoerentes, CommitCoerente, EntradasCoerentes, JobsCoerentes, Existe
  <2>. QED BY <2>1, <2>2
<1>10. ASSUME NEW t \in Tarefas, NEW o \in Obras, CriarTarefa(t, o) PROVE Inv1'
  <2>1. TypeOK'
    BY <1>10 DEF CriarTarefa, TypeOK, envVars, PcPedido, Entrada, StatusEntrada
  <2>2. Coerencia'
    BY <1>10 DEF CriarTarefa, TypeOK, Coerencia, PedidosCoerentes, CommitCoerente,
       EntradasCoerentes, JobsCoerentes, Existe
  <2>. QED BY <2>1, <2>2
<1>11. ASSUME NEW t \in Tarefas, EnfileirarTarefa(t) PROVE Inv1'
  <2>1. TypeOK'
    BY <1>11 DEF EnfileirarTarefa, TypeOK, envVars, bancoVars, PcPedido,
       NaFila, Job, Fase, Vivo
  <2>2. Coerencia'
    BY <1>11 DEF EnfileirarTarefa, TypeOK, bancoVars, NaFila, EmExecucao, Coerencia,
       PedidosCoerentes, CommitCoerente, EntradasCoerentes, JobsCoerentes, Existe
  <2>. QED BY <2>1, <2>2
<1>12. ASSUME NEW r \in Resolvedores, NEW i \in Ids, NEW o \in Obras,
              LerPendente(r, i, o)
       PROVE  Inv1'
  <2>1. TypeOK'
    BY <1>12 DEF LerPendente, TypeOK, envVars, bancoVars, PcPedido
  <2>2. Coerencia'
    BY <1>12 DEF LerPendente, PodeResolver, TypeOK, bancoVars, Coerencia,
       PedidosCoerentes, CommitCoerente, EntradasCoerentes, JobsCoerentes, Existe
  <2>. QED BY <2>1, <2>2
<1>13. ASSUME NEW r \in Resolvedores, GravarResolvida(r) PROVE Inv1'
  <2>1. /\ alvo[r] \in Ids /\ pedida[r] \in Obras /\ Existe(alvo[r])
        /\ entradas[alvo[r]].evento \in Eventos /\ pc[r] = "lida"
    BY <1>13 DEF GravarResolvida, Coerencia, PedidosCoerentes
  <2>2. entradas \in [Ids -> Entrada] /\ mensagens \in [Eventos -> Mensagem]
    BY DEF TypeOK
  <2>3. /\ entradas' \in [Ids -> Entrada]
        /\ entradas'[alvo[r]].status = "received"
        /\ entradas'[alvo[r]].obra = pedida[r]
        /\ entradas'[alvo[r]].evento = entradas[alvo[r]].evento
        /\ \A k \in Ids \ {alvo[r]} : entradas'[k] = entradas[k]
    BY <1>13, <2>1, <2>2, GravarResolvidaLema
  <2>4. /\ mensagens' \in [Eventos -> Mensagem]
        /\ \A e \in Eventos : mensagens'[e].existe = mensagens[e].existe
    BY <1>13, <2>1, <2>2 DEF GravarResolvida, Mensagem
  <2>5. TypeOK'
    BY <1>13, <2>3, <2>4 DEF GravarResolvida, TypeOK, envVars, PcPedido
  <2>6. /\ pc'[r] = "gravada" /\ \A p \in Pedidos \ {r} : pc'[p] = pc[p]
        /\ UNCHANGED <<evento, pedida, alvo, jobs>>
    BY <1>13 DEF GravarResolvida, TypeOK, bancoVars
  <2>7. \A i \in Ids : /\ (Existe(i))' <=> Existe(i)
                       /\ entradas'[i].evento = entradas[i].evento
                       /\ entradas[i].obra \in Obras => entradas'[i].obra \in Obras
    BY <2>1, <2>3 DEF Existe
  <2>8. PedidosCoerentes'
    BY <2>1, <2>6, <2>7 DEF Coerencia, PedidosCoerentes
  <2>9. CommitCoerente'
    BY <2>1, <2>3, <2>6, <2>7 DEF Coerencia, PedidosCoerentes, CommitCoerente
  <2>10. EntradasCoerentes'
    <3>. SUFFICES ASSUME NEW i \in Ids, (Existe(i))'
                  PROVE  /\ IF entradas'[i].status = "pending_obra"
                            THEN entradas'[i].obra = Nenhum /\ entradas'[i].evento \in Eventos
                            ELSE entradas'[i].obra \in Obras
                         /\ entradas'[i].evento \in Eventos
                               => mensagens'[entradas'[i].evento].existe
      BY DEF EntradasCoerentes
    <3>1. /\ IF entradas[i].status = "pending_obra"
             THEN entradas[i].obra = Nenhum /\ entradas[i].evento \in Eventos
             ELSE entradas[i].obra \in Obras
          /\ entradas[i].evento \in Eventos => mensagens[entradas[i].evento].existe
      BY <2>7 DEF Coerencia, EntradasCoerentes
    <3>2. entradas'[i].evento \in Eventos => mensagens'[entradas'[i].evento].existe
      BY <2>4, <2>7, <3>1
    <3>3. CASE i = alvo[r]
      BY <2>1, <2>3, <3>2, <3>3
    <3>4. CASE i # alvo[r]
      BY <2>3, <3>1, <3>2, <3>4
    <3>. QED BY <3>3, <3>4
  <2>11. JobsCoerentes'
    BY <2>1, <2>6, <2>7 DEF Coerencia, JobsCoerentes
  <2>. QED BY <2>5, <2>8, <2>9, <2>10, <2>11 DEF Coerencia
<1>14. ASSUME NEW r \in Resolvedores, EnfileirarResolvida(r) PROVE Inv1'
  <2>1. TypeOK'
    BY <1>14 DEF EnfileirarResolvida, TypeOK, envVars, bancoVars, PcPedido, Coerencia,
       PedidosCoerentes, NaFila, Job, Fase, Vivo
  <2>2. Coerencia'
    BY <1>14 DEF EnfileirarResolvida, TypeOK, bancoVars, NaFila, EmExecucao, Coerencia,
       PedidosCoerentes, CommitCoerente, EntradasCoerentes, JobsCoerentes, Existe
  <2>. QED BY <2>1, <2>2
<1>15. ASSUME NEW p \in Pedidos, Abandonar(p) \/ Perder(p) PROVE Inv1'
  <2>1. TypeOK'
    BY <1>15 DEF Abandonar, Perder, TypeOK, envVars, bancoVars, PcPedido
  <2>2. Coerencia'
    BY <1>15 DEF Abandonar, Perder, TypeOK, bancoVars, Coerencia,
       PedidosCoerentes, CommitCoerente, EntradasCoerentes, JobsCoerentes, Existe
  <2>. QED BY <2>1, <2>2
<1>16. ASSUME NEW j \in Pedidos, Iniciar(j) PROVE Inv1'
  <2>1. /\ jobs \in [Pedidos -> Job] /\ entradas \in [Ids -> Entrada]
        /\ jobs[j].entrada \in Ids /\ Existe(jobs[j].entrada)
        /\ entradas[jobs[j].entrada].obra \in Obras /\ jobs[j].tentativa >= 1
    BY <1>16 DEF Iniciar, Coerencia, JobsCoerentes, TypeOK
  <2>2. /\ jobs' \in [Pedidos -> Job]
        /\ jobs'[j].fase = "iniciado" /\ jobs'[j].entrada = jobs[j].entrada
        /\ jobs'[j].obra = entradas[jobs[j].entrada].obra
        /\ jobs'[j].tentativa = jobs[j].tentativa
        /\ \A k \in Pedidos \ {j} : jobs'[k] = jobs[k]
    BY <1>16, <2>1, IniciarLema
  <2>3. /\ entradas' \in [Ids -> Entrada]
        /\ entradas'[jobs[j].entrada].status = "processing"
        /\ \A i \in Ids : /\ entradas'[i].evento = entradas[i].evento
                          /\ entradas'[i].obra = entradas[i].obra
        /\ \A k \in Ids \ {jobs[j].entrada} : entradas'[k] = entradas[k]
    BY <1>16, <2>1, MudarStatusLema DEF Iniciar, EntradaDe, StatusEntrada
  <2>4. \A i \in Ids : (Existe(i))' <=> Existe(i)
    BY <2>1, <2>3 DEF Existe
  <2>5. TypeOK'
    BY <1>16, <2>2, <2>3 DEF Iniciar, TypeOK, envVars, pedidoVars
  <2>6. PedidosCoerentes' /\ CommitCoerente'
    BY <1>16, <2>3, <2>4 DEF Iniciar, pedidoVars, Coerencia, PedidosCoerentes,
       CommitCoerente
  <2>7. EntradasCoerentes'
    <3>1. UNCHANGED mensagens
      BY <1>16 DEF Iniciar
    <3>2. \A i \in Ids : \/ entradas'[i] = entradas[i]
                         \/ entradas'[i].status = "processing" /\ entradas'[i].obra \in Obras
      BY <2>1, <2>3
    <3>3. EntradasCoerentes
      BY DEF Coerencia
    <3>. HIDE DEF Inv1
    <3>. QED BY <2>3, <2>4, <3>1, <3>2, <3>3 DEF EntradasCoerentes
  <2>8. JobsCoerentes'
    BY <1>16, <2>1, <2>2, <2>3, <2>4 DEF Iniciar, pedidoVars, Coerencia, JobsCoerentes
  <2>. QED BY <2>5, <2>6, <2>7, <2>8 DEF Coerencia
<1>17. ASSUME NEW j \in Pedidos,
              Carregar(j) \/ Encerrar(j) \/ Falhar(j) \/ FalharSemMarca(j) \/ Cair(j)
                \/ Desistir(j) \/ GuardarBruta(j)
       PROVE  Inv1'
  <2>1. PICK f \in Fase \ {"nenhum"} :
            /\ PassarPara(j, f) /\ jobs[j].fase # "nenhum"
            /\ f \in EmExecucao => jobs[j].obra \in Obras
    BY <1>17 DEF Carregar, Encerrar, Falhar, FalharSemMarca, Cair, Desistir, GuardarBruta,
       Fase, Vivo, EmExecucao, Coerencia, JobsCoerentes
  <2>2. UNCHANGED <<envVars, pedidoVars, bancoVars>>
    BY <1>17 DEF Carregar, Encerrar, Falhar, FalharSemMarca, Cair, Desistir, GuardarBruta
  <2>3. jobs' \in [Pedidos -> Job] /\ JobsCoerentes'
    BY <2>1, <2>2, FaseLema DEF bancoVars, pedidoVars
  <2>5. bruta' \subseteq [entrada : Ids, obra : Obras]
    BY <1>17 DEF Carregar, Encerrar, Falhar, FalharSemMarca, Cair, Desistir, GuardarBruta, TypeOK,
       Envelope, EntradaDe, EmExecucao, Coerencia, JobsCoerentes
  <2>6. TypeOK'
    BY <2>2, <2>3, <2>5 DEF TypeOK, envVars, pedidoVars, bancoVars
  <2>7. Coerencia'
    BY <2>2, <2>3 DEF pedidoVars, bancoVars, Coerencia, PedidosCoerentes,
       CommitCoerente, EntradasCoerentes, Existe
  <2>. QED BY <2>6, <2>7
<1>18. ASSUME NEW j \in Pedidos, Concluir(j) PROVE Inv1'
  <2>1. /\ jobs[j].fase # "nenhum" /\ PassarPara(j, "concluida")
        /\ entradas' = [entradas EXCEPT ![jobs[j].entrada].status = "completed"]
        /\ UNCHANGED <<envVars, pedidoVars, chaves, mensagens, bruta>>
        /\ UNCHANGED <<pedidoVars, mensagens>>
    BY <1>18 DEF Concluir, EntradaDe, EmExecucao
  <2>f. /\ "concluida" \in Fase /\ "concluida" \notin EmExecucao
        /\ "completed" \in StatusEntrada \ {"ausente", "pending_obra"}
    BY DEF Fase, Vivo, EmExecucao, StatusEntrada
  <2>2. /\ jobs' \in [Pedidos -> Job] /\ entradas' \in [Ids -> Entrada]
        /\ Coerencia'
    BY <2>1, <2>f, StatusLema
  <2>3. NovosDocumentos(j) \subseteq Documento
    BY DEF NovosDocumentos, Documento, EntradaDe, Coerencia, JobsCoerentes, TypeOK,
       Job, EmExecucao
  <2>4. tarefas' \in [Tarefas -> {"ausente", "QUEUED", "COMPLETED", "FAILED"}]
    BY <1>18 DEF Concluir, MarcarTarefa, TypeOK
  <2>5. TypeOK'
    BY <1>18, <2>1, <2>2, <2>3, <2>4 DEF Concluir, TypeOK, envVars, pedidoVars
  <2>. QED BY <2>2, <2>5
<1>19. ASSUME NEW j \in Pedidos, MarcarFalha(j) PROVE Inv1'
  <2>1. /\ jobs[j].fase # "nenhum" /\ PassarPara(j, "falhou")
        /\ entradas' = [entradas EXCEPT ![jobs[j].entrada].status = "failed"]
        /\ UNCHANGED <<envVars, pedidoVars, mensagens, documentos, bruta>>
        /\ UNCHANGED <<pedidoVars, mensagens>>
    BY <1>19 DEF MarcarFalha, EntradaDe
  <2>f. /\ "falhou" \in Fase /\ "falhou" \notin EmExecucao
        /\ "failed" \in StatusEntrada \ {"ausente", "pending_obra"}
    BY DEF Fase, Vivo, EmExecucao, StatusEntrada
  <2>2. /\ jobs' \in [Pedidos -> Job] /\ entradas' \in [Ids -> Entrada]
        /\ Coerencia'
    BY <2>1, <2>f, StatusLema
  <2>3. /\ tarefas' \in [Tarefas -> {"ausente", "QUEUED", "COMPLETED", "FAILED"}]
        /\ chaves' \in [Chaves -> Chave]
    <3>1. tarefas' \in [Tarefas -> {"ausente", "QUEUED", "COMPLETED", "FAILED"}]
      BY <1>19 DEF MarcarFalha, MarcarTarefa, TypeOK
    <3>2. chaves' \in [Chaves -> Chave]
      BY SMTT(30), <1>19 DEF MarcarFalha, TypeOK, Chave
    <3>. QED
      BY <3>1, <3>2
  <2>4. TypeOK'
    BY <2>1, <2>2, <2>3 DEF TypeOK, envVars, pedidoVars
  <2>. QED BY <2>2, <2>4
<1>20. ASSUME NEW j \in Pedidos, Reagendar(j) PROVE Inv1'
  <2>1. /\ jobs' \in [Pedidos -> Job]
        /\ jobs'[j].fase = "fila" /\ jobs'[j].entrada = jobs[j].entrada
        /\ jobs'[j].tentativa = jobs[j].tentativa + 1
        /\ \A k \in Pedidos \ {j} : jobs'[k] = jobs[k]
    BY <1>20, ReagendarLema DEF TypeOK
  <2>2. jobs[j] \in Job /\ jobs[j].fase # "nenhum"
    BY <1>20 DEF Reagendar, TypeOK
  <2>3. TypeOK'
    BY <1>20, <2>1 DEF Reagendar, TypeOK, envVars, pedidoVars, bancoVars
  <2>4. JobsCoerentes'
    BY <1>20, <2>1, <2>2 DEF Reagendar, pedidoVars, bancoVars, Coerencia, JobsCoerentes,
       Existe, EmExecucao, Job
  <2>5. Coerencia'
    BY <1>20, <2>4 DEF Reagendar, pedidoVars, bancoVars, Coerencia, PedidosCoerentes,
       CommitCoerente, EntradasCoerentes, Existe
  <2>. QED BY <2>3, <2>5
<1>. QED
  BY <1>1, <1>2, <1>3, <1>4, <1>5, <1>6, <1>7, <1>8, <1>9, <1>10, <1>11, <1>12,
     <1>13, <1>14, <1>15, <1>16, <1>17, <1>18, <1>19, <1>20
     DEF Next, Cadastros, PassoWebhook, PassoTarefa, PassoResolvedor, PassoJob

(* Both hold in every reachable state.                                     *)
LEMMA Inv1Sempre == Spec => []Inv1
<1>1. Init => Inv1
  BY InitInv1
<1>2. Inv1 /\ [Next]_vars => Inv1'
  BY PassoInv1
<1>. QED
  BY <1>1, <1>2, PTL DEF Spec

(* Every table, queue entry and local of a request keeps its type.         *)
THEOREM Tipos == Spec => []TypeOK
BY Inv1Sempre, PTL DEF Inv1

(* Rows, requests and jobs agree: a job exists only for a committed        *)
(* entrada that has an obra, a commit is owed only by a live request.      *)
THEOREM CoerenciaSempre == Spec => []Coerencia
BY Inv1Sempre, PTL DEF Inv1

-----------------------------------------------------------------------------
(* The rows of entradas_brutas are never removed or given another event    *)

(* Only Gravar and CriarTarefa add a row; no step changes the event of one. *)
LEMMA LinhasLema ==
    ASSUME Inv1, [Next]_vars
    PROVE  \/ \E w \in Webhooks : Gravar(w)
           \/ \E t \in Tarefas, o \in Obras : CriarTarefa(t, o)
           \/ \A i \in Ids : /\ (Existe(i))' <=> Existe(i)
                             /\ entradas'[i].evento = entradas[i].evento
<1>1. ASSUME NEW i \in Ids, NEW s \in StatusEntrada \ {"ausente"}, Existe(i),
             entradas' = [entradas EXCEPT ![i].status = s]
      PROVE  \A k \in Ids : /\ (Existe(k))' <=> Existe(k)
                            /\ entradas'[k].evento = entradas[k].evento
  BY <1>1, MudarStatusLema DEF Inv1, TypeOK, Existe
<1>2. ASSUME NEW j \in Pedidos, Iniciar(j) \/ Concluir(j) \/ MarcarFalha(j)
      PROVE  \A k \in Ids : /\ (Existe(k))' <=> Existe(k)
                            /\ entradas'[k].evento = entradas[k].evento
  <2>1. jobs[j].entrada \in Ids /\ Existe(jobs[j].entrada)
    BY <1>2 DEF Iniciar, Concluir, MarcarFalha, Inv1, Coerencia, JobsCoerentes
  <2>2. \E s \in StatusEntrada \ {"ausente"} :
            entradas' = [entradas EXCEPT ![jobs[j].entrada].status = s]
    BY <1>2 DEF Iniciar, Concluir, MarcarFalha, EntradaDe, StatusEntrada
  <2>. QED BY <2>1, <2>2, <1>1
<1>3. ASSUME NEW r \in Resolvedores, GravarResolvida(r)
      PROVE  \A k \in Ids : /\ (Existe(k))' <=> Existe(k)
                            /\ entradas'[k].evento = entradas[k].evento
  <2>1. alvo[r] \in Ids /\ pedida[r] \in Obras /\ Existe(alvo[r])
    BY <1>3 DEF GravarResolvida, Inv1, Coerencia, PedidosCoerentes
  <2>. QED
    BY <1>3, <2>1, GravarResolvidaLema DEF Inv1, TypeOK, Existe
<1>4. ASSUME entradas' = entradas
      PROVE  \A k \in Ids : /\ (Existe(k))' <=> Existe(k)
                            /\ entradas'[k].evento = entradas[k].evento
  BY <1>4 DEF Existe
<1>. QED
  BY <1>2, <1>3, <1>4 DEF Next, Cadastros, PassoWebhook, PassoTarefa, PassoResolvedor,
     PassoJob, vars, bancoVars, CadastrarObra, DefinirContexto, Receber, Reivindicar,
     Repetida, Conflitar, EnfileirarRecebida, EnfileirarTarefa, LerPendente,
     EnfileirarResolvida, Abandonar, Perder, Carregar, GuardarBruta, Encerrar, Falhar,
     Cair, FalharSemMarca, Reagendar, Desistir

(* However deliveries interleave, die or claim different keys, an event    *)
(* has one entrada: the unique index on telegram_messages.event_id decides.*)
THEOREM UmaEntrada == Spec => []UmaEntradaPorEvento
<1>1. Init => UmaEntradaPorEvento
  BY DEF Init, UmaEntradaPorEvento, Existe, SemEntrada
<1>2. UmaEntradaPorEvento /\ Inv1 /\ [Next]_vars => UmaEntradaPorEvento'
  <2> SUFFICES ASSUME UmaEntradaPorEvento, Inv1, [Next]_vars
               PROVE  UmaEntradaPorEvento'
    OBVIOUS
  <2>1. ASSUME NEW w \in Webhooks, Gravar(w) PROVE UmaEntradaPorEvento'
    <3>1. \A i \in Ids : Existe(i) => entradas[i].evento # evento[w]
      BY <2>1 DEF Gravar, EventoInedito, Inv1, Coerencia, PedidosCoerentes,
         EntradasCoerentes
    <3>2. /\ entradas'[w].evento = evento[w]
          /\ \A i \in Ids \ {w} : entradas'[i] = entradas[i]
      BY <2>1 DEF Gravar, Inv1, TypeOK
    <3>. QED BY <3>1, <3>2 DEF UmaEntradaPorEvento, Existe
  <2>2. ASSUME NEW t \in Tarefas, NEW o \in Obras, CriarTarefa(t, o)
        PROVE  UmaEntradaPorEvento'
    <3>1. /\ entradas'[t].evento = Nenhum
          /\ \A i \in Ids \ {t} : entradas'[i] = entradas[i]
      BY <2>2 DEF CriarTarefa, Inv1, TypeOK
    <3>. QED BY <3>1 DEF UmaEntradaPorEvento, Existe
  <2>. QED BY <2>1, <2>2, LinhasLema DEF UmaEntradaPorEvento
<1>. QED
  BY <1>1, <1>2, Inv1Sempre, PTL DEF Spec

-----------------------------------------------------------------------------
(* What the jobs produce                                                   *)

Artefatos == /\ ArtefatosCoerentes /\ CompletaTemDocumento
             /\ UmDocumentoPorJob /\ EnvelopeAntesDoDocumento

(* Steps of the API: the jobs that already exist do not change, a new one  *)
(* waits in the queue, and no entrada becomes completed.                   *)
LEMMA ApiLema ==
    ASSUME Inv1, Artefatos,
           UNCHANGED <<documentos, bruta>>,
           \A j \in Pedidos : \/ jobs'[j] = jobs[j]
                              \/ jobs[j].fase = "nenhum" /\ jobs'[j].fase = "fila",
           \A i \in Ids : entradas'[i].status = "completed" =>
               entradas[i].status = "completed",
           \A i \in Ids : Existe(i) /\ entradas[i].obra \in Obras =>
               (Existe(i))' /\ entradas'[i].obra \in Obras
    PROVE  Artefatos'
<1>1. CompletaTemDocumento' /\ UmDocumentoPorJob' /\ EnvelopeAntesDoDocumento'
  BY DEF Artefatos, CompletaTemDocumento, UmDocumentoPorJob,
     EnvelopeAntesDoDocumento
<1>2. \A d \in documentos : d.job \in Pedidos /\ d.entrada \in Ids
  BY DEF Inv1, TypeOK, Documento
<1>3. \A b \in bruta : b.entrada \in Ids
  BY DEF Inv1, TypeOK
<1>4. ArtefatosCoerentes'
  BY <1>2, <1>3 DEF Artefatos, ArtefatosCoerentes, TemArtefatos, Envelope, EntradaDe
<1>. QED
  BY <1>1, <1>4 DEF Artefatos

(* A job that changes phase without producing anything.                    *)
LEMMA SemProdutoLema ==
    ASSUME Inv1, Artefatos, NEW j \in Pedidos, NEW f \in Fase,
           jobs'[j].fase = f, jobs'[j].entrada = jobs[j].entrada,
           \A k \in Pedidos \ {j} : jobs'[k] = jobs[k],
           UNCHANGED <<documentos, bruta>>,
           f \notin {"nenhum", "guardado"},
           f = "pronto" => TemArtefatos(j),
           f = "classificar" => ~TemArtefatos(j),
           \A i \in Ids : entradas'[i].status = "completed" =>
               entradas[i].status = "completed",
           \A i \in Ids : Existe(i) /\ entradas[i].obra \in Obras =>
               (Existe(i))' /\ entradas'[i].obra \in Obras
    PROVE  Artefatos'
<1>1. CompletaTemDocumento' /\ UmDocumentoPorJob' /\ EnvelopeAntesDoDocumento'
  BY DEF Artefatos, CompletaTemDocumento, UmDocumentoPorJob,
     EnvelopeAntesDoDocumento
<1>2. \A d \in documentos : d.job \in Pedidos /\ d.entrada \in Ids
  BY DEF Inv1, TypeOK, Documento
<1>3. \A b \in bruta : b.entrada \in Ids
  BY DEF Inv1, TypeOK
<1>4. \A k \in Pedidos : jobs'[k].fase = "pronto" => (TemArtefatos(k))'
  BY DEF Artefatos, ArtefatosCoerentes, TemArtefatos, EntradaDe
<1>5. \A k \in Pedidos : jobs'[k].fase = "guardado" => (Envelope(k))' \in bruta'
  BY DEF Artefatos, ArtefatosCoerentes, Envelope, EntradaDe
<1>6. \A d \in documentos :
          /\ jobs'[d.job].entrada = d.entrada
          /\ jobs'[d.job].fase \notin {"nenhum", "classificar", "guardado"}
  BY <1>2 DEF Artefatos, ArtefatosCoerentes, TemArtefatos, EntradaDe
<1>7. \A b \in bruta : (Existe(b.entrada))' /\ entradas'[b.entrada].obra \in Obras
  BY <1>3 DEF Artefatos, ArtefatosCoerentes
<1>. QED
  BY <1>1, <1>4, <1>5, <1>6, <1>7 DEF Artefatos, ArtefatosCoerentes

(* Every step keeps the agreement of the jobs with what they produced.     *)
LEMMA PassoArtefatos ==
    ASSUME Inv1, Artefatos, [Next]_vars
    PROVE  Artefatos'
<1>1. CASE UNCHANGED vars
  BY <1>1, ApiLema DEF vars, bancoVars, Existe
<1>2. CASE Cadastros
  BY <1>2, ApiLema DEF Cadastros, CadastrarObra, DefinirContexto, bancoVars, Existe
<1>3. ASSUME NEW w \in Webhooks, PassoWebhook(w) PROVE Artefatos'
  <2>1. CASE Gravar(w)
    <3>1. /\ entradas'[w].status # "completed" /\ ~Existe(w)
          /\ \A i \in Ids \ {w} : entradas'[i] = entradas[i]
      BY <2>1 DEF Gravar, Inv1, Coerencia, CommitCoerente, TypeOK
    <3>. QED BY <2>1, <3>1, ApiLema DEF Gravar, Existe
  <2>2. CASE EnfileirarRecebida(w)
    <3>1. jobs[w].fase = "nenhum"
      BY <2>2 DEF EnfileirarRecebida, Inv1, Coerencia, JobsCoerentes
    <3>. QED
      BY <2>2, <3>1, ApiLema DEF EnfileirarRecebida, NaFila, bancoVars, Existe, Inv1, TypeOK
  <2>3. CASE \/ \E e \in Eventos : Receber(w, e)
             \/ Reivindicar(w) \/ Repetida(w) \/ Conflitar(w)
    BY <2>3, ApiLema DEF Receber, Reivindicar, Repetida, Conflitar, bancoVars, Existe
  <2>. QED BY <1>3, <2>1, <2>2, <2>3 DEF PassoWebhook
<1>4. ASSUME NEW t \in Tarefas, PassoTarefa(t) PROVE Artefatos'
  <2>1. ASSUME NEW o \in Obras, CriarTarefa(t, o) PROVE Artefatos'
    <3>1. /\ entradas'[t].status # "completed" /\ ~Existe(t)
          /\ \A i \in Ids \ {t} : entradas'[i] = entradas[i]
      BY <2>1 DEF CriarTarefa, Inv1, Coerencia, CommitCoerente, TypeOK
    <3>. QED BY <2>1, <3>1, ApiLema DEF CriarTarefa, Existe
  <2>2. CASE EnfileirarTarefa(t)
    <3>1. jobs[t].fase = "nenhum"
      BY <2>2 DEF EnfileirarTarefa, Inv1, Coerencia, JobsCoerentes
    <3>. QED
      BY <2>2, <3>1, ApiLema DEF EnfileirarTarefa, NaFila, bancoVars, Existe, Inv1, TypeOK
  <2>. QED BY <1>4, <2>1, <2>2 DEF PassoTarefa
<1>5. ASSUME NEW r \in Resolvedores, PassoResolvedor(r) PROVE Artefatos'
  <2>1. CASE GravarResolvida(r)
    <3>1. alvo[r] \in Ids /\ pedida[r] \in Obras /\ Existe(alvo[r])
      BY <2>1 DEF GravarResolvida, Inv1, Coerencia, PedidosCoerentes
    <3>2. /\ entradas'[alvo[r]].status = "received" /\ entradas'[alvo[r]].obra \in Obras
          /\ \A i \in Ids \ {alvo[r]} : entradas'[i] = entradas[i]
      BY <2>1, <3>1, GravarResolvidaLema DEF Inv1, TypeOK
    <3>. QED BY <2>1, <3>1, <3>2, ApiLema DEF GravarResolvida, Existe
  <2>2. CASE EnfileirarResolvida(r)
    <3>1. jobs[r].fase = "nenhum"
      BY <2>2 DEF EnfileirarResolvida, Inv1, Coerencia, JobsCoerentes
    <3>. QED
      BY <2>2, <3>1, ApiLema DEF EnfileirarResolvida, NaFila, bancoVars, Existe, Inv1,
         TypeOK
  <2>3. CASE \E i \in Ids, o \in Obras : LerPendente(r, i, o)
    BY <2>3, ApiLema DEF LerPendente, bancoVars, Existe
  <2>. QED BY <1>5, <2>1, <2>2, <2>3 DEF PassoResolvedor
<1>6. ASSUME NEW p \in Pedidos, Abandonar(p) \/ Perder(p) PROVE Artefatos'
  BY <1>6, ApiLema DEF Abandonar, Perder, bancoVars, Existe
<1>7. ASSUME NEW j \in Pedidos, Iniciar(j) PROVE Artefatos'
  <2>1. /\ jobs \in [Pedidos -> Job] /\ entradas \in [Ids -> Entrada]
        /\ jobs[j].entrada \in Ids /\ Existe(jobs[j].entrada)
        /\ entradas[jobs[j].entrada].obra \in Obras
    BY <1>7 DEF Iniciar, Inv1, TypeOK, Coerencia, JobsCoerentes
  <2>2. /\ jobs'[j].fase = "iniciado" /\ jobs'[j].entrada = jobs[j].entrada
        /\ \A k \in Pedidos \ {j} : jobs'[k] = jobs[k]
    BY <1>7, <2>1, IniciarLema
  <2>3. /\ entradas'[jobs[j].entrada].status = "processing"
        /\ entradas'[jobs[j].entrada].obra = entradas[jobs[j].entrada].obra
        /\ \A k \in Ids \ {jobs[j].entrada} : entradas'[k] = entradas[k]
    BY <1>7, <2>1, MudarStatusLema DEF Iniciar, EntradaDe, StatusEntrada
  <2>4. "iniciado" \in Fase
    BY DEF Fase, Vivo, EmExecucao
  <2>. QED
    BY <1>7, <2>1, <2>2, <2>3, <2>4, SemProdutoLema DEF Iniciar, Existe
<1>8. ASSUME NEW j \in Pedidos,
             Carregar(j) \/ Encerrar(j) \/ Falhar(j) \/ FalharSemMarca(j) \/ Cair(j)
               \/ Desistir(j)
      PROVE  Artefatos'
  <2>1. PICK f \in Fase \ {"nenhum", "guardado"} :
            /\ PassarPara(j, f)
            /\ f = "pronto" => TemArtefatos(j)
            /\ f = "classificar" => ~TemArtefatos(j)
    BY <1>8 DEF Carregar, Encerrar, Falhar, FalharSemMarca, Cair, Desistir, Fase, Vivo, EmExecucao,
       Inv1, Coerencia, JobsCoerentes
  <2>2. UNCHANGED <<documentos, bruta, entradas>>
    BY <1>8 DEF Carregar, Encerrar, Falhar, FalharSemMarca, Cair, Desistir, bancoVars
  <2>3. /\ jobs'[j].fase = f /\ jobs'[j].entrada = jobs[j].entrada
        /\ \A k \in Pedidos \ {j} : jobs'[k] = jobs[k]
    BY <2>1, PassarParaLema DEF Inv1, TypeOK
  <2>. QED BY <2>1, <2>2, <2>3, SemProdutoLema DEF Existe
<1>9. ASSUME NEW j \in Pedidos, GuardarBruta(j) PROVE Artefatos'
  <2>1. /\ jobs'[j].fase = "guardado" /\ jobs'[j].entrada = jobs[j].entrada
        /\ jobs'[j].obra = jobs[j].obra
        /\ \A k \in Pedidos \ {j} : jobs'[k] = jobs[k]
    BY <1>9, PassarParaLema DEF GuardarBruta, Fase, Vivo, EmExecucao, Inv1, TypeOK
  <2>2. /\ jobs[j].fase = "classificar"
        /\ UNCHANGED <<documentos, entradas>> /\ bruta' = bruta \cup {Envelope(j)}
    BY <1>9 DEF GuardarBruta, bancoVars
  <2>3. /\ jobs[j].entrada \in Ids /\ Existe(jobs[j].entrada)
        /\ entradas[jobs[j].entrada].obra \in Obras
    BY <2>2 DEF Inv1, Coerencia, JobsCoerentes
  <2>4. \A d \in documentos : d.job \in Pedidos
    BY DEF Inv1, TypeOK, Documento
  <2>5. ArtefatosCoerentes'
    BY <2>1, <2>2, <2>3, <2>4 DEF Artefatos, ArtefatosCoerentes, TemArtefatos, Envelope,
       EntradaDe, Existe
  <2>6. CompletaTemDocumento' /\ UmDocumentoPorJob' /\ EnvelopeAntesDoDocumento'
    BY <2>2 DEF Artefatos, CompletaTemDocumento, UmDocumentoPorJob,
       EnvelopeAntesDoDocumento
  <2>. QED BY <2>5, <2>6 DEF Artefatos
<1>10. ASSUME NEW j \in Pedidos, Concluir(j) PROVE Artefatos'
  <2>1. /\ jobs'[j].fase = "concluida" /\ jobs'[j].entrada = jobs[j].entrada
        /\ \A k \in Pedidos \ {j} : jobs'[k] = jobs[k]
    BY <1>10, PassarParaLema DEF Concluir, Fase, Vivo, EmExecucao, Inv1, TypeOK
  <2>2. /\ jobs[j].fase \in {"guardado", "pronto"} /\ bruta' = bruta
        /\ documentos' = documentos \cup NovosDocumentos(j)
    BY <1>10 DEF Concluir
  <2>3. /\ jobs[j].entrada \in Ids /\ Existe(jobs[j].entrada)
        /\ entradas[jobs[j].entrada].obra \in Obras
    BY <2>2 DEF Inv1, Coerencia, JobsCoerentes
  <2>4. /\ entradas'[jobs[j].entrada].status = "completed"
        /\ entradas'[jobs[j].entrada].obra = entradas[jobs[j].entrada].obra
        /\ \A k \in Ids \ {jobs[j].entrada} : entradas'[k] = entradas[k]
    BY <1>10, <2>3, MudarStatusLema DEF Concluir, EntradaDe, StatusEntrada, Inv1, TypeOK
  <2>5. /\ \A d \in documentos : d.job \in Pedidos /\ d.entrada \in Ids
        /\ \A b \in bruta : b.entrada \in Ids
    BY DEF Inv1, TypeOK, Documento
  <2>6. \A n \in NovosDocumentos(j) :
            /\ jobs[j].fase = "guardado"
            /\ n.entrada = jobs[j].entrada /\ n.obra = jobs[j].obra /\ n.job = j
    BY DEF NovosDocumentos, EntradaDe
  <2>7. \A n, m \in NovosDocumentos(j) : n = m
    BY DEF NovosDocumentos
  <2>8. \E d \in documentos' : d.entrada = jobs[j].entrada
    <3>1. CASE jobs[j].fase = "pronto"
      BY <2>2, <3>1 DEF EntradaDe, Artefatos, ArtefatosCoerentes, TemArtefatos
    <3>2. CASE jobs[j].fase = "guardado"
      <4> DEFINE n == [entrada |-> EntradaDe(j), obra |-> jobs[j].obra, job |-> j,
                       tentativa |-> jobs[j].tentativa]
      <4>1. n \in NovosDocumentos(j)
        BY <3>2 DEF NovosDocumentos
      <4>2. n.entrada = jobs[j].entrada
        BY DEF EntradaDe
      <4>. QED BY <2>2, <4>1, <4>2
    <3>. QED BY <2>2, <3>1, <3>2
  <2>9. \A d \in documentos : d.job = j => jobs[j].fase # "guardado"
    BY DEF Artefatos, ArtefatosCoerentes
  <2>10. UmDocumentoPorJob'
    BY <2>2, <2>6, <2>7, <2>9 DEF Artefatos, UmDocumentoPorJob
  <2>11. CompletaTemDocumento'
    BY <2>2, <2>4, <2>8 DEF Artefatos, CompletaTemDocumento
  <2>12. \A n \in NovosDocumentos(j) : [entrada |-> n.entrada, obra |-> n.obra] \in bruta
    BY <2>6 DEF Artefatos, ArtefatosCoerentes, Envelope, EntradaDe
  <2>13. EnvelopeAntesDoDocumento'
    BY <2>2, <2>12 DEF Artefatos, EnvelopeAntesDoDocumento
  <2>14. \A k \in Pedidos : jobs'[k].fase = "pronto" => (TemArtefatos(k))'
    BY <2>1, <2>2 DEF Artefatos, ArtefatosCoerentes, TemArtefatos, EntradaDe
  <2>15. \A k \in Pedidos : jobs'[k].fase = "guardado" => (Envelope(k))' \in bruta'
    BY <2>1, <2>2 DEF Artefatos, ArtefatosCoerentes, Envelope, EntradaDe
  <2>16. \A d \in documentos' :
            /\ jobs'[d.job].entrada = d.entrada
            /\ jobs'[d.job].fase \notin {"nenhum", "classificar", "guardado"}
    BY <2>1, <2>2, <2>5, <2>6 DEF Artefatos, ArtefatosCoerentes
  <2>17. \A b \in bruta' : (Existe(b.entrada))' /\ entradas'[b.entrada].obra \in Obras
    BY <2>2, <2>3, <2>4, <2>5 DEF Artefatos, ArtefatosCoerentes, Existe
  <2>. QED
    BY <2>10, <2>11, <2>13, <2>14, <2>15, <2>16, <2>17 DEF Artefatos, ArtefatosCoerentes
<1>11. ASSUME NEW j \in Pedidos, MarcarFalha(j) PROVE Artefatos'
  <2>1. /\ jobs'[j].fase = "falhou" /\ jobs'[j].entrada = jobs[j].entrada
        /\ \A k \in Pedidos \ {j} : jobs'[k] = jobs[k]
    BY <1>11, PassarParaLema DEF MarcarFalha, Fase, Vivo, EmExecucao, Inv1, TypeOK
  <2>2. jobs[j].entrada \in Ids /\ Existe(jobs[j].entrada)
    BY <1>11 DEF MarcarFalha, Inv1, Coerencia, JobsCoerentes
  <2>3. /\ entradas'[jobs[j].entrada].status = "failed"
        /\ entradas'[jobs[j].entrada].obra = entradas[jobs[j].entrada].obra
        /\ \A k \in Ids \ {jobs[j].entrada} : entradas'[k] = entradas[k]
    BY <1>11, <2>2, MudarStatusLema DEF MarcarFalha, EntradaDe, StatusEntrada, Inv1,
       TypeOK
  <2>4. "falhou" \in Fase
    BY DEF Fase, Vivo
  <2>. QED
    BY <1>11, <2>1, <2>2, <2>3, <2>4, SemProdutoLema DEF MarcarFalha, Existe
<1>12. ASSUME NEW j \in Pedidos, Reagendar(j) PROVE Artefatos'
  <2>1. /\ jobs'[j].fase = "fila" /\ jobs'[j].entrada = jobs[j].entrada
        /\ \A k \in Pedidos \ {j} : jobs'[k] = jobs[k]
    BY <1>12, ReagendarLema DEF Inv1, TypeOK
  <2>2. "fila" \in Fase
    BY DEF Fase, Vivo
  <2>. QED
    BY <1>12, <2>1, <2>2, SemProdutoLema DEF Reagendar, bancoVars, Existe
<1>. QED
  BY <1>1, <1>2, <1>3, <1>4, <1>5, <1>6, <1>7, <1>8, <1>9, <1>10, <1>11, <1>12
     DEF Next, PassoJob

(* It holds in every reachable state.                                      *)
LEMMA ArtefatosSempre == Spec => []Artefatos
<1>1. Init => Artefatos
  BY DEF Init, Artefatos, ArtefatosCoerentes, CompletaTemDocumento,
     UmDocumentoPorJob, EnvelopeAntesDoDocumento, SemJob, SemEntrada
<1>2. Artefatos /\ Inv1 /\ [Next]_vars => Artefatos'
  BY PassoArtefatos
<1>. QED
  BY <1>1, <1>2, Inv1Sempre, PTL DEF Spec

(* "completed" always has a documento behind it, through retries, crashes  *)
(* and concurrent jobs: load_existing_artifacts or this attempt's insert.  *)
THEOREM CompletaComDocumento == Spec => []CompletaTemDocumento
BY ArtefatosSempre, PTL DEF Artefatos

(* What a job has in the bucket and in the database agrees with the phase  *)
(* it is in, whatever killed its earlier attempts.                         *)
THEOREM ArtefatosDoJob == Spec => []ArtefatosCoerentes
BY ArtefatosSempre, PTL DEF Artefatos

(* No documento is committed before its raw envelope is in the bucket.     *)
THEOREM EnvelopePrimeiro == Spec => []EnvelopeAntesDoDocumento
BY ArtefatosSempre, PTL DEF Artefatos

(* While an entrada waits for its obra nothing touches it.                 *)
THEOREM PendenteSemTrabalho == Spec => []PendenteIntocada
<1>1. Inv1 /\ Artefatos => PendenteIntocada
  <2> SUFFICES ASSUME Inv1, Artefatos, NEW i \in Ids, Existe(i)
               PROVE  IF entradas[i].status = "pending_obra"
                      THEN /\ \A j \in Pedidos : jobs[j].entrada # i
                           /\ \A b \in bruta : b.entrada # i
                           /\ \A d \in documentos : d.entrada # i
                      ELSE entradas[i].obra \in Obras
    BY DEF PendenteIntocada, Existe
  <2>1. CASE entradas[i].status # "pending_obra"
    BY <2>1 DEF Inv1, Coerencia, EntradasCoerentes
  <2>2. CASE entradas[i].status = "pending_obra"
    <3>1. entradas[i].obra = Nenhum /\ Nenhum \notin Obras
      BY <2>2 DEF Inv1, Coerencia, EntradasCoerentes
    <3>2. \A j \in Pedidos : jobs[j].entrada # i
      BY <3>1 DEF Inv1, Coerencia, JobsCoerentes
    <3>3. \A b \in bruta : b.entrada # i
      BY <3>1 DEF Artefatos, ArtefatosCoerentes
    <3>4. \A d \in documentos : d.job \in Pedidos /\ jobs[d.job].entrada = d.entrada
      BY DEF Artefatos, ArtefatosCoerentes, Inv1, TypeOK, Documento
    <3>. QED BY <2>2, <3>2, <3>3, <3>4
  <2>. QED BY <2>1, <2>2
<1>. QED
  BY <1>1, Inv1Sempre, ArtefatosSempre, PTL

-----------------------------------------------------------------------------
(* Answers                                                                 *)

(* A request that has not answered has no answer.                          *)
Respostas ==
    RespostaVerdadeira /\ \A w \in Webhooks : pc[w] # "respondida" =>
                                              resposta[w].entrada = Nenhum

(* Steps that answer nothing, store no answer and keep the rows.           *)
LEMMA SemRespostaLema ==
    ASSUME Inv1, Respostas, resposta' = resposta,
           \A w \in Webhooks : \/ pc'[w] = pc[w] /\ evento'[w] = evento[w]
                               \/ pc[w] # "respondida",
           \A k \in Chaves : \/ chaves'[k] = chaves[k]
                             \/ /\ chaves[k].status # "ausente"
                                /\ chaves'[k].resposta = chaves[k].resposta,
           \A i \in Ids : Existe(i) => (Existe(i))' /\ entradas'[i].evento
                                                     = entradas[i].evento
    PROVE  Respostas'
<1>1. \A w \in Webhooks : resposta[w].entrada # Nenhum =>
          /\ resposta[w].entrada \in Ids
          /\ pc'[w] = pc[w] /\ pc[w] = "respondida" /\ evento'[w] = evento[w]
  BY DEF Inv1, TypeOK, Resposta, Respostas
<1>2. \A w \in Webhooks : pc'[w] # "respondida" => resposta'[w].entrada = Nenhum
  BY <1>1
<1>3. \A w \in Webhooks : resposta[w].entrada # Nenhum =>
          /\ (Existe(resposta[w].entrada))'
          /\ entradas'[resposta[w].entrada].evento = evento'[w]
  BY <1>1 DEF Respostas, RespostaVerdadeira, Existe
<1>4. \A k \in Chaves : chaves'[k].status # "ausente" =>
          /\ chaves'[k].resposta \in Ids /\ entradas'[chaves'[k].resposta].status # "ausente"
          /\ entradas'[chaves'[k].resposta].evento = k[1]
  BY DEF Respostas, RespostaVerdadeira, Existe
<1>. QED
  BY <1>2, <1>3, <1>4 DEF Respostas, RespostaVerdadeira, Existe

(* Every step keeps the answers true.                                      *)
LEMMA PassoRespostas ==
    ASSUME Inv1, Respostas, [Next]_vars
    PROVE  Respostas'
<1>1. ASSUME NEW w \in Webhooks, Repetida(w) PROVE Respostas'
  <2>1. evento[w] \in Eventos /\ pedida[w] \in OuNenhum(Obras)
    BY <1>1 DEF Repetida, Inv1, TypeOK, Coerencia, PedidosCoerentes
  <2>2. ChaveDe(w) \in Chaves /\ ChaveDe(w)[1] = evento[w]
    BY <2>1 DEF ChaveDe, Chaves
  <2>3. /\ resposta'[w].entrada \in {chaves[ChaveDe(w)].resposta, Nenhum}
        /\ \A v \in Webhooks \ {w} : resposta'[v] = resposta[v]
        /\ chaves[ChaveDe(w)].status # "ausente"
        /\ UNCHANGED <<chaves, entradas, evento>>
        /\ pc'[w] = "respondida" /\ \A v \in Webhooks \ {w} : pc'[v] = pc[v]
    BY <1>1 DEF Repetida, bancoVars, Inv1, TypeOK
  <2>. QED
    BY <2>2, <2>3 DEF Respostas, RespostaVerdadeira
<1>2. ASSUME NEW w \in Webhooks, Gravar(w) PROVE Respostas'
  <2>1. /\ evento[w] \in Eventos /\ pedida[w] \in OuNenhum(Obras) /\ ~Existe(w)
        /\ resposta[w].entrada = Nenhum
    BY <1>2 DEF Gravar, Inv1, TypeOK, Coerencia, PedidosCoerentes, CommitCoerente,
       Respostas
  <2>2. ChaveDe(w) \in Chaves /\ ChaveDe(w)[1] = evento[w]
    BY <2>1 DEF ChaveDe, Chaves
  <2>3. /\ entradas'[w].evento = evento[w] /\ (Existe(w))'
        /\ \A i \in Ids \ {w} : entradas'[i] = entradas[i]
    BY <1>2 DEF Gravar, Existe, Inv1, TypeOK
  <2>4. /\ resposta'[w].entrada \in {w, Nenhum}
        /\ pc'[w] # "respondida" => resposta'[w].entrada = Nenhum
        /\ \A v \in Webhooks \ {w} : resposta'[v] = resposta[v] /\ pc'[v] = pc[v]
        /\ evento' = evento
    BY <1>2, <2>1 DEF Gravar, Inv1, TypeOK
  <2>5. /\ chaves'[ChaveDe(w)].resposta = w
        /\ \A k \in Chaves \ {ChaveDe(w)} : chaves'[k] = chaves[k]
    BY <1>2, <2>2 DEF Gravar, Inv1, TypeOK
  <2>6. \A v \in Webhooks : resposta'[v].entrada # Nenhum =>
            /\ entradas'[resposta'[v].entrada].status # "ausente"
            /\ entradas'[resposta'[v].entrada].evento = evento'[v]
    BY <2>1, <2>3, <2>4 DEF Respostas, RespostaVerdadeira, Existe, Inv1, TypeOK, Resposta
  <2>7. \A k \in Chaves : chaves'[k].status # "ausente" =>
            /\ chaves'[k].resposta \in Ids /\ entradas'[chaves'[k].resposta].status # "ausente"
            /\ entradas'[chaves'[k].resposta].evento = k[1]
    BY <2>1, <2>2, <2>3, <2>5 DEF Respostas, RespostaVerdadeira, Existe
  <2>8. \A v \in Webhooks : pc'[v] # "respondida" => resposta'[v].entrada = Nenhum
    BY <2>4 DEF Respostas
  <2>. QED
    BY <2>6, <2>7, <2>8 DEF Respostas, RespostaVerdadeira, Existe
<1>3. ASSUME NEW w \in Webhooks, EnfileirarRecebida(w) PROVE Respostas'
  <2>1. Existe(w) /\ entradas[w].evento = evento[w]
    BY <1>3 DEF EnfileirarRecebida, Inv1, Coerencia, PedidosCoerentes, CommitCoerente
  <2>2. /\ resposta'[w].entrada = w /\ pc'[w] = "respondida"
        /\ \A v \in Webhooks \ {w} : resposta'[v] = resposta[v] /\ pc'[v] = pc[v]
        /\ UNCHANGED <<chaves, entradas, evento>>
    BY <1>3 DEF EnfileirarRecebida, bancoVars, Inv1, TypeOK
  <2>. QED
    BY <2>1, <2>2 DEF Respostas, RespostaVerdadeira, Existe
<1>4. ASSUME NEW t \in Tarefas, NEW o \in Obras, CriarTarefa(t, o) PROVE Respostas'
  <2>1. ~Existe(t) /\ \A i \in Ids \ {t} : entradas'[i] = entradas[i]
    BY <1>4 DEF CriarTarefa, Inv1, TypeOK, Coerencia, CommitCoerente
  <2>2. \A i \in Ids : Existe(i) => entradas'[i] = entradas[i]
    BY <2>1
  <2>3. /\ \A w \in Webhooks : pc'[w] = pc[w]
        /\ UNCHANGED <<resposta, chaves, evento>>
    BY <1>4 DEF CriarTarefa, Inv1, TypeOK
  <2>. QED BY <2>2, <2>3, SemRespostaLema DEF Existe
<1>5. ASSUME NEW j \in Pedidos, MarcarFalha(j) PROVE Respostas'
  <2>1. \A k \in Chaves : \/ chaves'[k] = chaves[k]
                          \/ /\ chaves[k].status # "ausente"
                             /\ chaves'[k].resposta = chaves[k].resposta
    BY <1>5 DEF MarcarFalha, ChavesFalhas, Inv1, TypeOK, Chave
  <2>2. \A i \in Ids : Existe(i) => (Existe(i))' /\ entradas'[i].evento
                                                  = entradas[i].evento
    <3>1. jobs[j].entrada \in Ids /\ Existe(jobs[j].entrada)
      BY <1>5 DEF MarcarFalha, Inv1, Coerencia, JobsCoerentes
    <3>. QED
      BY <1>5, <3>1, MudarStatusLema DEF MarcarFalha, EntradaDe, StatusEntrada, Inv1,
         TypeOK, Existe
  <2>3. UNCHANGED <<pc, evento, resposta>>
    BY <1>5 DEF MarcarFalha, pedidoVars
  <2>. QED BY <2>1, <2>2, <2>3, SemRespostaLema
<1>6. ASSUME UNCHANGED <<resposta, chaves>>,
             \A w \in Webhooks : \/ pc'[w] = pc[w] /\ evento'[w] = evento[w]
                                 \/ pc[w] # "respondida",
             \A i \in Ids : /\ (Existe(i))' <=> Existe(i)
                            /\ entradas'[i].evento = entradas[i].evento
      PROVE  Respostas'
  BY <1>6, SemRespostaLema
<1>7. ASSUME NEW w \in Webhooks, NEW e \in Eventos, Receber(w, e) PROVE Respostas'
  <2>. QED
    BY <1>7, SemRespostaLema DEF Receber, bancoVars, Existe, Inv1, TypeOK
<1>8. \/ \E w \in Webhooks : Repetida(w) \/ Gravar(w) \/ EnfileirarRecebida(w)
                             \/ \E e \in Eventos : Receber(w, e)
      \/ \E t \in Tarefas, o \in Obras : CriarTarefa(t, o)
      \/ \E j \in Pedidos : MarcarFalha(j)
      \/ /\ UNCHANGED <<resposta, chaves, evento>>
         /\ \A w \in Webhooks : pc'[w] = pc[w] \/ pc[w] # "respondida"
  BY ZenonT(30) DEF Next, Cadastros, PassoWebhook, PassoTarefa, PassoResolvedor, PassoJob,
     vars, pedidoVars, bancoVars, CadastrarObra, DefinirContexto, Reivindicar,
     Conflitar, EnfileirarTarefa, LerPendente, GravarResolvida, EnfileirarResolvida,
     Abandonar, Perder, Iniciar, Carregar, GuardarBruta, Concluir, Encerrar, Falhar,
     Cair, FalharSemMarca, Reagendar, Desistir, Inv1, TypeOK
<1>. QED
  BY <1>1, <1>2, <1>3, <1>4, <1>5, <1>6, <1>7, <1>8, LinhasLema

(* The entrada named in an answer, also in one kept for later deliveries,  *)
(* is committed and is of the event delivered.                             *)
THEOREM RespostasVerdadeiras == Spec => []RespostaVerdadeira
<1>1. Init => Respostas
  BY DEF Init, Respostas, RespostaVerdadeira, SemChave
<1>2. Respostas /\ Inv1 /\ [Next]_vars => Respostas'
  BY PassoRespostas
<1>. QED
  BY <1>1, <1>2, Inv1Sempre, PTL DEF Spec, Respostas

-----------------------------------------------------------------------------
(* Nothing accepted is forgotten                                           *)

Andamento == {"received", "processing"}

(* Somebody still has to move entrada i, or died owing it.                 *)
Cuidada(i) == \/ \E j \in Pedidos : jobs[j].entrada = i /\ jobs[j].fase \in Encarregado
              \/ \E p \in Pedidos : Deve(p, i)

(* A step keeps the property when it hands over every entrada it leaves in *)
(* progress: a job in charge stays in charge, a debt stays or becomes one. *)
LEMMA EncargoLema ==
    ASSUME EmMaos,
           \A i \in Ids : entradas'[i].status \in Andamento =>
               entradas[i].status \in Andamento \/ (Cuidada(i))',
           \A i \in Ids, j \in Pedidos :
               /\ entradas'[i].status \in Andamento
               /\ jobs[j].entrada = i /\ jobs[j].fase \in Encarregado
               => (Cuidada(i))',
           \A i \in Ids, p \in Pedidos : Deve(p, i) => (Cuidada(i))'
    PROVE  EmMaos'
BY DEF EmMaos, Andamento, Cuidada

(* Every step hands over.                                                  *)
LEMMA PassoEmMaos ==
    ASSUME Inv1, EmMaos, [Next]_vars
    PROVE  EmMaos'
<1>1. ASSUME UNCHANGED entradas,
             \A j \in Pedidos : \/ jobs'[j] = jobs[j]
                                \/ jobs[j].fase \notin Encarregado
                                \/ /\ jobs'[j].entrada = jobs[j].entrada
                                   /\ jobs'[j].fase \in Encarregado,
             \A i \in Ids, p \in Pedidos : Deve(p, i) => (Cuidada(i))'
      PROVE  EmMaos'
  BY <1>1, EncargoLema DEF Cuidada
<1>2. ASSUME NEW w \in Webhooks, Gravar(w) PROVE EmMaos'
  <2>1. /\ entradas'[w].status \in Andamento => pc'[w] = "gravada"
        /\ \A i \in Ids \ {w} : entradas'[i] = entradas[i]
        /\ \A p \in Pedidos \ {w} : pc'[p] = pc[p]
        /\ pc[w] = "reivindicada" /\ UNCHANGED <<jobs, alvo>>
    BY <1>2 DEF Gravar, Andamento, Inv1, TypeOK
  <2>. QED BY <2>1, EncargoLema DEF Cuidada, Deve
<1>3. ASSUME NEW t \in Tarefas, NEW o \in Obras, CriarTarefa(t, o) PROVE EmMaos'
  <2>1. /\ pc'[t] = "gravada"
        /\ \A i \in Ids \ {t} : entradas'[i] = entradas[i]
        /\ \A p \in Pedidos \ {t} : pc'[p] = pc[p]
        /\ pc[t] = "livre" /\ UNCHANGED <<jobs, alvo>>
    BY <1>3 DEF CriarTarefa, Inv1, TypeOK
  <2>. QED BY <2>1, EncargoLema DEF Cuidada, Deve
<1>4. ASSUME NEW p \in Ids, EnfileirarRecebida(p) \/ EnfileirarTarefa(p)
      PROVE  EmMaos'
  <2>1. /\ jobs'[p].entrada = p /\ jobs'[p].fase = "fila" /\ jobs[p].fase = "nenhum"
        /\ \A j \in Pedidos \ {p} : jobs'[j] = jobs[j] /\ pc'[j] = pc[j]
        /\ UNCHANGED <<entradas, alvo>>
    BY <1>4 DEF EnfileirarRecebida, EnfileirarTarefa, NaFila, bancoVars, Inv1, TypeOK,
       Coerencia, JobsCoerentes
  <2>2. "nenhum" \notin Encarregado /\ "fila" \in Encarregado
    BY DEF Encarregado, EmExecucao
  <2>3. \A i \in Ids, q \in Pedidos : Deve(q, i) => (Cuidada(i))'
    BY <2>1, <2>2 DEF Deve, Cuidada
  <2>. QED BY <2>1, <2>2, <2>3, <1>1
<1>5. ASSUME NEW r \in Resolvedores, EnfileirarResolvida(r) PROVE EmMaos'
  <2>1. /\ jobs'[r].entrada = alvo[r] /\ jobs'[r].fase = "fila"
        /\ jobs[r].fase = "nenhum" /\ alvo[r] \in Ids
        /\ \A j \in Pedidos \ {r} : jobs'[j] = jobs[j] /\ pc'[j] = pc[j]
        /\ UNCHANGED <<entradas, alvo>>
    BY <1>5 DEF EnfileirarResolvida, NaFila, bancoVars, Inv1, TypeOK, Coerencia,
       PedidosCoerentes, JobsCoerentes
  <2>2. "nenhum" \notin Encarregado /\ "fila" \in Encarregado
    BY DEF Encarregado, EmExecucao
  <2>3. \A i \in Ids, q \in Pedidos : Deve(q, i) => (Cuidada(i))'
    BY <2>1, <2>2 DEF Deve, Cuidada
  <2>. QED BY <2>1, <2>2, <2>3, <1>1
<1>6. ASSUME NEW r \in Resolvedores, GravarResolvida(r) PROVE EmMaos'
  <2>1. /\ pc'[r] = "gravada" /\ pc[r] = "lida"
        /\ \A p \in Pedidos \ {r} : pc'[p] = pc[p]
        /\ UNCHANGED <<jobs, alvo>>
        /\ alvo[r] \in Ids /\ \A i \in Ids \ {alvo[r]} : entradas'[i] = entradas[i]
    BY <1>6 DEF GravarResolvida, Inv1, TypeOK, Coerencia, PedidosCoerentes
  <2>. QED BY <2>1, EncargoLema DEF Cuidada, Deve
<1>7. ASSUME NEW j \in Pedidos, Iniciar(j) PROVE EmMaos'
  <2>1. /\ jobs[j].entrada \in Ids /\ entradas[jobs[j].entrada].obra \in Obras
        /\ jobs \in [Pedidos -> Job]
    BY <1>7 DEF Iniciar, Inv1, TypeOK, Coerencia, JobsCoerentes
  <2>2. /\ jobs'[j].entrada = jobs[j].entrada /\ jobs'[j].fase = "iniciado"
        /\ \A k \in Pedidos \ {j} : jobs'[k] = jobs[k]
    BY <1>7, <2>1, IniciarLema
  <2>3. /\ \A i \in Ids \ {jobs[j].entrada} : entradas'[i] = entradas[i]
        /\ UNCHANGED <<pc, alvo>>
    BY <1>7 DEF Iniciar, EntradaDe, pedidoVars, Inv1, TypeOK
  <2>4. "iniciado" \in Encarregado
    BY DEF Encarregado, EmExecucao
  <2>. QED BY <2>2, <2>3, <2>4, EncargoLema DEF Cuidada, Deve
<1>8. ASSUME NEW j \in Pedidos, Concluir(j) \/ MarcarFalha(j) PROVE EmMaos'
  <2>1. /\ jobs[j].entrada \in Ids
        /\ \A k \in Pedidos \ {j} : jobs'[k] = jobs[k]
        /\ UNCHANGED <<pc, alvo>>
    BY <1>8 DEF Concluir, MarcarFalha, PassarPara, pedidoVars, Inv1, TypeOK, Coerencia,
       JobsCoerentes
  <2>2. /\ entradas'[jobs[j].entrada].status \notin Andamento
        /\ \A i \in Ids \ {jobs[j].entrada} : entradas'[i] = entradas[i]
    BY <1>8, <2>1, MudarStatusLema DEF Concluir, MarcarFalha, EntradaDe, Andamento,
       StatusEntrada, Inv1, TypeOK
  <2>. QED BY <2>1, <2>2, EncargoLema DEF Cuidada, Deve
<1>9. ASSUME NEW j \in Pedidos,
             Carregar(j) \/ GuardarBruta(j) \/ Encerrar(j) \/ Falhar(j)
               \/ FalharSemMarca(j) \/ Cair(j) \/ Desistir(j)
      PROVE  EmMaos'
  <2>1. PICK f \in Fase :
            /\ PassarPara(j, f)
            /\ jobs[j].fase \in Encarregado => f \in Encarregado
    BY <1>9 DEF Carregar, GuardarBruta, Encerrar, Falhar, FalharSemMarca, Cair, Desistir, Encarregado,
       EmExecucao, Fase, Vivo
  <2>2. /\ jobs'[j].fase = f /\ jobs'[j].entrada = jobs[j].entrada
        /\ \A k \in Pedidos \ {j} : jobs'[k] = jobs[k]
    BY <2>1, PassarParaLema DEF Inv1, TypeOK
  <2>3. UNCHANGED <<entradas, pc, alvo>>
    BY <1>9 DEF Carregar, GuardarBruta, Encerrar, Falhar, FalharSemMarca, Cair, Desistir, bancoVars,
       pedidoVars
  <2>. QED BY <2>1, <2>2, <2>3, EncargoLema DEF Cuidada, Deve
<1>10. ASSUME NEW j \in Pedidos, Reagendar(j) PROVE EmMaos'
  <2>1. /\ jobs'[j].fase = "fila" /\ jobs'[j].entrada = jobs[j].entrada
        /\ \A k \in Pedidos \ {j} : jobs'[k] = jobs[k]
        /\ UNCHANGED <<entradas, pc, alvo>>
    BY <1>10, ReagendarLema DEF Reagendar, bancoVars, pedidoVars, Inv1, TypeOK
  <2>2. "fila" \in Encarregado
    BY DEF Encarregado
  <2>. QED BY <2>1, <2>2, EncargoLema DEF Cuidada, Deve
<1>11. ASSUME UNCHANGED <<entradas, jobs>>,
              \A p \in Pedidos : pc[p] \in {"gravada", "perdida"} =>
                  pc'[p] \in {"gravada", "perdida"},
              \A r \in Resolvedores : alvo'[r] = alvo[r] \/ pc[r] = "livre"
       PROVE  EmMaos'
  BY <1>11, EncargoLema DEF Cuidada, Deve
<1>12. ASSUME NEW r \in Resolvedores, NEW i \in Ids, NEW o \in Obras,
              LerPendente(r, i, o)
       PROVE  EmMaos'
  BY <1>11, <1>12 DEF LerPendente, bancoVars, Inv1, TypeOK
<1>13. ASSUME NEW p \in Pedidos, Abandonar(p) \/ Perder(p) PROVE EmMaos'
  BY <1>11, <1>13 DEF Abandonar, Perder, bancoVars, Inv1, TypeOK
<1>14. ASSUME NEW w \in Webhooks,
              \/ \E e \in Eventos : Receber(w, e)
              \/ Reivindicar(w) \/ Repetida(w) \/ Conflitar(w)
       PROVE  EmMaos'
  BY <1>11, <1>14 DEF Receber, Reivindicar, Repetida, Conflitar, bancoVars, Inv1, TypeOK
<1>15. CASE Cadastros \/ UNCHANGED vars
  BY <1>11, <1>15 DEF Cadastros, CadastrarObra, DefinirContexto, vars, bancoVars,
     pedidoVars
<1>. QED
  BY <1>2, <1>3, <1>4, <1>5, <1>6, <1>7, <1>8, <1>9, <1>10, <1>12, <1>13, <1>14, <1>15
     DEF Next, PassoWebhook, PassoTarefa, PassoResolvedor, PassoJob

(* A job is given up in its last attempt, and a job given up stays so.     *)
LEMMA PassoDesiste ==
    ASSUME Inv1, DesisteNaUltima, [Next]_vars
    PROVE  DesisteNaUltima'
<1>1. ASSUME \A j \in Pedidos :
                 \/ jobs'[j] = jobs[j]
                 \/ jobs'[j].fase \notin {"esgotado", "abandonado"}
      PROVE  DesisteNaUltima'
  BY <1>1 DEF DesisteNaUltima
<1>2. jobs \in [Pedidos -> Job]
  BY DEF Inv1, TypeOK
<1>3. CASE Cadastros \/ UNCHANGED vars
  BY <1>1, <1>3 DEF Cadastros, CadastrarObra, DefinirContexto, vars
<1>4. ASSUME NEW w \in Webhooks, PassoWebhook(w) PROVE DesisteNaUltima'
  BY <1>1, <1>2, <1>4 DEF PassoWebhook, Receber, Reivindicar, Repetida, Gravar,
     Conflitar, EnfileirarRecebida, NaFila
<1>5. ASSUME NEW t \in Tarefas, PassoTarefa(t) PROVE DesisteNaUltima'
  BY <1>1, <1>2, <1>5 DEF PassoTarefa, CriarTarefa, EnfileirarTarefa, NaFila
<1>6. ASSUME NEW r \in Resolvedores, PassoResolvedor(r) PROVE DesisteNaUltima'
  BY <1>1, <1>2, <1>6 DEF PassoResolvedor, LerPendente, GravarResolvida,
     EnfileirarResolvida, NaFila
<1>7. ASSUME NEW p \in Pedidos, Abandonar(p) \/ Perder(p) PROVE DesisteNaUltima'
  BY <1>1, <1>7 DEF Abandonar, Perder
<1>8. ASSUME NEW j \in Pedidos, Desistir(j) PROVE DesisteNaUltima'
  <2>1. /\ jobs'[j].tentativa = jobs[j].tentativa
        /\ \A k \in Pedidos \ {j} : jobs'[k] = jobs[k]
    BY <1>2, <1>8, PassarParaLema DEF Desistir, Fase, Vivo
  <2>2. jobs[j].tentativa = MaxTentativas
    BY <1>2, <1>8 DEF Desistir, RestaTentativa, Job
  <2>. QED BY <2>1, <2>2 DEF DesisteNaUltima
<1>9. ASSUME NEW j \in Pedidos, NEW f \in Fase \ {"esgotado", "abandonado"},
             PassarPara(j, f)
      PROVE  DesisteNaUltima'
  BY <1>1, <1>2, <1>9, PassarParaLema
<1>10. ASSUME NEW j \in Pedidos,
              Carregar(j) \/ GuardarBruta(j) \/ Concluir(j) \/ Encerrar(j) \/ Falhar(j)
                \/ FalharSemMarca(j) \/ MarcarFalha(j) \/ Cair(j)
       PROVE  DesisteNaUltima'
  <2>1. \E f \in Fase \ {"esgotado", "abandonado"} : PassarPara(j, f)
    BY <1>10 DEF Carregar, GuardarBruta, Concluir, Encerrar, Falhar, FalharSemMarca,
       MarcarFalha, Cair, Fase, Vivo, EmExecucao
  <2>. QED BY <1>9, <2>1
<1>11. ASSUME NEW j \in Pedidos, Iniciar(j) \/ Reagendar(j) PROVE DesisteNaUltima'
  BY <1>1, <1>2, <1>11 DEF Iniciar, Reagendar, NaFila
<1>. QED
  BY <1>3, <1>4, <1>5, <1>6, <1>7, <1>8, <1>10, <1>11 DEF Next, PassoJob

(* An accepted entrada is finished, in somebody's hands, or lost in one of *)
(* two ways: its request died or was refused before the enqueue, or its    *)
(* job has used up every attempt and the last one left no mark.            *)
THEOREM NadaEsquecido == Spec => []NaoEsquecida
<1>1. Init => EmMaos /\ DesisteNaUltima
  BY DEF Init, EmMaos, DesisteNaUltima, SemEntrada, SemJob
<1>2. EmMaos /\ Inv1 /\ [Next]_vars => EmMaos'
  BY PassoEmMaos
<1>3. DesisteNaUltima /\ Inv1 /\ [Next]_vars => DesisteNaUltima'
  BY PassoDesiste
<1>. QED
  BY <1>1, <1>2, <1>3, Inv1Sempre, PTL DEF Spec, NaoEsquecida

-----------------------------------------------------------------------------
(* The steps, by what they do to rows and jobs                             *)

(* A request moves without touching a row or a job; one that has answered  *)
(* or died owing a job no longer moves, one that owes a job may only die.  *)
Quieto ==
    /\ UNCHANGED <<entradas, chaves, tarefas, documentos, jobs, alvo>>
    /\ \A p \in Pedidos : pc'[p] = pc[p] \/
           /\ pc[p] \notin {"respondida", "perdida"}
           /\ pc[p] = "gravada" => pc'[p] = "perdida"
           /\ pc'[p] \notin {"livre", "lida", "gravada"}
    /\ \A r \in Resolvedores :
           /\ pedida'[r] = pedida[r]
           /\ pc[r] = "livre" => pc'[r] = "livre"
           /\ pc'[r] \in {"gravada", "respondida", "perdida"} =>
                  pc[r] \in {"gravada", "respondida", "perdida"}
    /\ \A w \in Webhooks :
           \/ evento'[w] = evento[w] /\ pedida'[w] = pedida[w] /\ resolvida'[w] = resolvida[w]
           \/ /\ pc[w] = "livre" /\ pc'[w] # "livre"
              /\ resolvida'[w] \in {Nenhum, pedida'[w]}

(* No request moves.                                                       *)
ApiQuieta ==
    UNCHANGED <<pc, evento, pedida, resolvida, alvo>>

(* Request p puts the first attempt of its job in the queue, for entrada i.*)
Enfileira(p, i) ==
    /\ pc[p] = "gravada" /\ pc'[p] = "respondida"
    /\ \A q \in Pedidos \ {p} : pc'[q] = pc[q]
    /\ jobs[p].fase = "nenhum"
    /\ jobs'[p].fase = "fila" /\ jobs'[p].entrada = i /\ jobs'[p].tentativa = 1
    /\ \A k \in Pedidos \ {p} : jobs'[k] = jobs[k]
    /\ i = (IF p \in Resolvedores THEN alvo[p] ELSE p)
    /\ UNCHANGED <<entradas, chaves, tarefas, documentos, evento, pedida, resolvida, alvo>>

(* Job j stays the job of its entrada, which has an obra.                  *)
MesmoJob(j) ==
    /\ jobs[j].fase # "nenhum" /\ jobs'[j].fase # "nenhum"
    /\ jobs'[j].entrada = jobs[j].entrada
    /\ jobs[j].entrada \in Ids /\ Existe(jobs[j].entrada)
    /\ entradas[jobs[j].entrada].obra \in Obras
    /\ entradas[jobs[j].entrada].status # "pending_obra"
    /\ \A k \in Pedidos \ {j} : jobs'[k] = jobs[k]

(* Only the status of entrada i is written.                                *)
Escreve(i, s) ==
    /\ entradas'[i].status = s
    /\ entradas'[i].evento = entradas[i].evento
    /\ entradas'[i].obra = entradas[i].obra
    /\ entradas'[i].escopo = entradas[i].escopo
    /\ \A k \in Ids \ {i} : entradas'[k] = entradas[k]

(* An attempt starts.                                                      *)
Inicia(j) ==
    /\ MesmoJob(j) /\ ApiQuieta /\ Escreve(jobs[j].entrada, "processing")
    /\ jobs[j].fase = "fila" /\ jobs'[j].fase = "iniciado"
    /\ jobs'[j].obra = entradas[jobs[j].entrada].obra
    /\ UNCHANGED <<chaves, tarefas, documentos>>

(* A job moves without writing a row.                                      *)
Anda(j) ==
    /\ MesmoJob(j) /\ ApiQuieta
    /\ UNCHANGED <<entradas, chaves, tarefas, documentos>>
    /\ jobs'[j].fase \in EmExecucao =>
           jobs[j].fase \in EmExecucao /\ jobs'[j].obra = jobs[j].obra
    /\ jobs[j].fase \in {"concluida", "ok", "caiu", "abandonado"} =>
           \/ jobs'[j].fase \in {"concluida", "ok", "caiu", "abandonado"}
           \/ jobs'[j].fase = "fila" /\ jobs'[j].tentativa > 1
    /\ jobs[j].fase = "fila" => jobs'[j].fase = "caiu"

(* The final commit of a job.                                              *)
Conclui(j) ==
    /\ MesmoJob(j) /\ ApiQuieta /\ Escreve(jobs[j].entrada, "completed")
    /\ jobs[j].fase \in {"guardado", "pronto"} /\ jobs'[j].fase = "concluida"
    /\ documentos' = documentos \cup NovosDocumentos(j)
    /\ MarcarTarefa(jobs[j].entrada, "COMPLETED")
    /\ UNCHANGED chaves

(* The handler of a failed attempt commits the failure.                    *)
Falha(j) ==
    /\ MesmoJob(j) /\ ApiQuieta /\ Escreve(jobs[j].entrada, "failed")
    /\ jobs[j].fase = "erro" /\ jobs'[j].fase = "falhou"
    /\ \A k \in Chaves :
           IF k = <<entradas[jobs[j].entrada].evento, entradas[jobs[j].entrada].escopo>>
              /\ chaves[k].status # "ausente"
           THEN chaves'[k].status = "failed" /\ chaves'[k].resposta = chaves[k].resposta
           ELSE chaves'[k] = chaves[k]
    /\ MarcarTarefa(jobs[j].entrada, "FAILED")
    /\ UNCHANGED documentos

(* A delivery commits the first entrada of its event.                      *)
Grava(w) ==
    /\ pc[w] = "reivindicada" /\ pc'[w] = (IF resolvida[w] = Nenhum THEN "respondida"
                                                                    ELSE "gravada")
    /\ \A p \in Pedidos \ {w} : pc'[p] = pc[p]
    /\ evento[w] \in Eventos /\ ~Existe(w)
    /\ \A i \in Ids : Existe(i) => entradas[i].evento # evento[w]
    /\ entradas'[w] =
           [status |-> IF resolvida[w] = Nenhum THEN "pending_obra" ELSE "received",
            evento |-> evento[w], obra |-> resolvida[w],
            escopo |-> IF resolvida[w] = Nenhum THEN EscopoPendente ELSE resolvida[w]]
    /\ \A i \in Ids \ {w} : entradas'[i] = entradas[i]
    /\ ChaveDe(w) \in Chaves /\ chaves'[ChaveDe(w)] = [status |-> "completed", resposta |-> w]
    /\ \A k \in Chaves \ {ChaveDe(w)} : chaves'[k] = chaves[k]
    /\ jobs[w].fase = "nenhum"
    /\ UNCHANGED <<tarefas, documentos, jobs, evento, pedida, resolvida, alvo>>

(* POST /tasks commits its entrada.                                        *)
Cria(t, o) ==
    /\ pc[t] = "livre" /\ pc'[t] = "gravada" /\ ~Existe(t)
    /\ \A p \in Pedidos \ {t} : pc'[p] = pc[p]
    /\ entradas'[t] =
           [status |-> "received", evento |-> Nenhum, obra |-> o, escopo |-> Nenhum]
    /\ \A i \in Ids \ {t} : entradas'[i] = entradas[i]
    /\ tarefas'[t] = "QUEUED" /\ \A u \in Tarefas \ {t} : tarefas'[u] = tarefas[u]
    /\ UNCHANGED <<chaves, documentos, jobs, evento, pedida, resolvida, alvo>>

(* A resolver reads a pending entrada.                                     *)
Le(r, i) ==
    /\ pc[r] = "livre" /\ pc'[r] = "lida"
    /\ \A p \in Pedidos \ {r} : pc'[p] = pc[p]
    /\ entradas[i].status = "pending_obra"
    /\ alvo'[r] = i /\ \A s \in Resolvedores \ {r} : alvo'[s] = alvo[s]
    /\ \A p \in Pedidos \ {r} : pedida'[p] = pedida[p]
    /\ jobs[r].fase = "nenhum"
    /\ UNCHANGED <<entradas, chaves, tarefas, documentos, jobs, evento, resolvida>>

(* A resolver commits the obra of the entrada it has read.                 *)
Resolve(r) ==
    /\ pc[r] = "lida" /\ pc'[r] = "gravada"
    /\ \A p \in Pedidos \ {r} : pc'[p] = pc[p]
    /\ alvo[r] \in Ids /\ pedida[r] \in Obras
    /\ Existe(alvo[r]) /\ entradas[alvo[r]].evento \in Eventos
    /\ entradas'[alvo[r]].status = "received"
    /\ entradas'[alvo[r]].obra = pedida[r]
    /\ entradas'[alvo[r]].evento = entradas[alvo[r]].evento
    /\ entradas'[alvo[r]].escopo = entradas[alvo[r]].escopo
    /\ \A k \in Ids \ {alvo[r]} : entradas'[k] = entradas[k]
    /\ jobs[r].fase = "nenhum"
    /\ UNCHANGED <<chaves, tarefas, documentos, jobs, evento, pedida, resolvida, alvo>>

(* Every step is one of these.                                             *)
LEMMA PassosLema ==
    ASSUME Inv1, [Next]_vars
    PROVE  \/ Quieto
           \/ \E w \in Webhooks : Grava(w)
           \/ \E t \in Tarefas, o \in Obras : Cria(t, o)
           \/ \E r \in Resolvedores : Resolve(r) \/ \E i \in Ids : Le(r, i)
           \/ \E p \in Pedidos, i \in Ids : Enfileira(p, i)
           \/ \E j \in Pedidos : Inicia(j) \/ Anda(j) \/ Conclui(j) \/ Falha(j)
<1>1. CASE Cadastros \/ UNCHANGED vars
  BY <1>1 DEF Cadastros, CadastrarObra, DefinirContexto, vars, bancoVars, pedidoVars,
     Quieto
<1>2. ASSUME NEW w \in Webhooks, NEW e \in Eventos, Receber(w, e) PROVE Quieto
  BY <1>2 DEF Receber, ObraRegistrada, bancoVars, Quieto, Inv1, TypeOK
<1>3. ASSUME NEW w \in Webhooks, Reivindicar(w) \/ Repetida(w) \/ Conflitar(w)
      PROVE  Quieto
  BY <1>3 DEF Reivindicar, Repetida, Conflitar, bancoVars, Quieto, Inv1, TypeOK
<1>4. ASSUME NEW p \in Pedidos, Abandonar(p) \/ Perder(p) PROVE Quieto
  BY <1>4 DEF Abandonar, Perder, bancoVars, Quieto, Inv1, TypeOK
<1>5. ASSUME NEW w \in Webhooks, Gravar(w) PROVE Grava(w)
  <2>1. evento[w] \in Eventos /\ pedida[w] \in OuNenhum(Obras) /\ ~Existe(w)
    BY <1>5 DEF Gravar, Inv1, TypeOK, Coerencia, PedidosCoerentes, CommitCoerente
  <2>2. ChaveDe(w) \in Chaves
    BY <2>1 DEF ChaveDe, Chaves
  <2>3. \A i \in Ids : Existe(i) => entradas[i].evento # evento[w]
    BY <1>5, <2>1 DEF Gravar, EventoInedito, Inv1, Coerencia, EntradasCoerentes
  <2>4. jobs[w].fase = "nenhum"
    BY <1>5 DEF Gravar, Inv1, Coerencia, JobsCoerentes
  <2>5. /\ pc'[w] = (IF resolvida[w] = Nenhum THEN "respondida" ELSE "gravada")
        /\ \A p \in Pedidos \ {w} : pc'[p] = pc[p]
    BY <1>5 DEF Gravar, Inv1, TypeOK
  <2>6. /\ chaves'[ChaveDe(w)] = [status |-> "completed", resposta |-> w]
        /\ \A k \in Chaves \ {ChaveDe(w)} : chaves'[k] = chaves[k]
    BY <1>5, <2>2 DEF Gravar, Inv1, TypeOK
  <2>7. /\ entradas'[w] =
              [status |-> IF resolvida[w] = Nenhum THEN "pending_obra" ELSE "received",
               evento |-> evento[w], obra |-> resolvida[w],
               escopo |-> IF resolvida[w] = Nenhum THEN EscopoPendente ELSE resolvida[w]]
        /\ \A i \in Ids \ {w} : entradas'[i] = entradas[i]
    BY <1>5 DEF Gravar, Inv1, TypeOK
  <2>. QED
    BY <1>5, <2>1, <2>2, <2>3, <2>4, <2>5, <2>6, <2>7 DEF Gravar, Grava
<1>6. ASSUME NEW t \in Tarefas, NEW o \in Obras, CriarTarefa(t, o) PROVE Cria(t, o)
  <2>1. ~Existe(t)
    BY <1>6 DEF CriarTarefa, Inv1, Coerencia, CommitCoerente
  <2>. QED BY <1>6, <2>1 DEF CriarTarefa, Cria, Inv1, TypeOK
<1>7. ASSUME NEW r \in Resolvedores, NEW i \in Ids, NEW o \in Obras,
             LerPendente(r, i, o)
      PROVE  Le(r, i)
  <2>1. jobs[r].fase = "nenhum"
    BY <1>7 DEF LerPendente, Inv1, Coerencia, JobsCoerentes
  <2>. QED BY <1>7, <2>1 DEF LerPendente, PodeResolver, bancoVars, Le, Inv1, TypeOK
<1>8. ASSUME NEW r \in Resolvedores, GravarResolvida(r) PROVE Resolve(r)
  <2>1. /\ alvo[r] \in Ids /\ pedida[r] \in Obras /\ Existe(alvo[r])
        /\ entradas[alvo[r]].evento \in Eventos /\ jobs[r].fase = "nenhum"
    BY <1>8 DEF GravarResolvida, Inv1, Coerencia, PedidosCoerentes, JobsCoerentes
  <2>2. /\ pc[r] = "lida" /\ pc'[r] = "gravada"
        /\ \A p \in Pedidos \ {r} : pc'[p] = pc[p]
    BY <1>8 DEF GravarResolvida, Inv1, TypeOK
  <2>3. UNCHANGED <<chaves, tarefas, documentos, jobs, evento, pedida, resolvida, alvo>>
    BY <1>8 DEF GravarResolvida
  <2>. QED BY <1>8, <2>1, <2>2, <2>3, GravarResolvidaLema DEF Resolve, Inv1, TypeOK
<1>9. ASSUME NEW w \in Webhooks, EnfileirarRecebida(w) PROVE Enfileira(w, w)
  <2>1. jobs[w].fase = "nenhum"
    BY <1>9 DEF EnfileirarRecebida, Inv1, Coerencia, JobsCoerentes
  <2>. QED
    BY <1>9, <2>1 DEF EnfileirarRecebida, NaFila, bancoVars, Enfileira, Inv1, TypeOK
<1>10. ASSUME NEW t \in Tarefas, EnfileirarTarefa(t) PROVE Enfileira(t, t)
  <2>1. jobs[t].fase = "nenhum"
    BY <1>10 DEF EnfileirarTarefa, Inv1, Coerencia, JobsCoerentes
  <2>. QED
    BY <1>10, <2>1 DEF EnfileirarTarefa, NaFila, bancoVars, Enfileira, Inv1, TypeOK
<1>11. ASSUME NEW r \in Resolvedores, EnfileirarResolvida(r)
       PROVE  alvo[r] \in Ids /\ Enfileira(r, alvo[r])
  <2>1. jobs[r].fase = "nenhum" /\ alvo[r] \in Ids
    BY <1>11 DEF EnfileirarResolvida, Inv1, Coerencia, JobsCoerentes, PedidosCoerentes
  <2>. QED
    BY <1>11, <2>1 DEF EnfileirarResolvida, NaFila, bancoVars, Enfileira, Inv1, TypeOK
<1>12. ASSUME NEW j \in Pedidos, PassoJob(j)
       PROVE  Inicia(j) \/ Anda(j) \/ Conclui(j) \/ Falha(j)
  <2>1. /\ jobs[j].fase # "nenhum" /\ jobs[j].entrada \in Ids /\ jobs[j].tentativa >= 1
        /\ Existe(jobs[j].entrada) /\ entradas[jobs[j].entrada].obra \in Obras
        /\ entradas[jobs[j].entrada].status # "pending_obra"
        /\ jobs \in [Pedidos -> Job] /\ entradas \in [Ids -> Entrada]
    <3>1. jobs[j].fase # "nenhum"
      BY <1>12 DEF PassoJob, Iniciar, Carregar, GuardarBruta, Concluir, Encerrar,
         Falhar, MarcarFalha, Cair, FalharSemMarca, Reagendar, Desistir, EmExecucao
    <3>2. /\ jobs[j].entrada \in Ids /\ jobs[j].tentativa >= 1
          /\ Existe(jobs[j].entrada) /\ entradas[jobs[j].entrada].obra \in Obras
      BY <3>1 DEF Inv1, Coerencia, JobsCoerentes
    <3>. QED BY <3>1, <3>2 DEF Inv1, TypeOK, Coerencia, EntradasCoerentes
  <2>2. ASSUME UNCHANGED pedidoVars PROVE ApiQuieta
    BY <2>2 DEF pedidoVars, ApiQuieta
  <2>3. ASSUME NEW s \in StatusEntrada,
               entradas' = [entradas EXCEPT ![EntradaDe(j)].status = s]
        PROVE  Escreve(jobs[j].entrada, s)
    BY SMTT(30), <2>1, <2>3, MudarStatusLema DEF EntradaDe, Escreve
  <2>4. CASE Iniciar(j)
    <3>1. /\ jobs'[j].fase = "iniciado" /\ jobs'[j].entrada = jobs[j].entrada
          /\ jobs'[j].obra = entradas[jobs[j].entrada].obra
          /\ \A k \in Pedidos \ {j} : jobs'[k] = jobs[k]
      BY <2>1, <2>4, IniciarLema
    <3>2. Escreve(jobs[j].entrada, "processing") /\ ApiQuieta
      BY <2>2, <2>3, <2>4 DEF Iniciar, StatusEntrada
    <3>. QED BY <2>1, <2>4, <3>1, <3>2 DEF Inicia, MesmoJob, Iniciar
  <2>5. CASE Concluir(j)
    <3>1. /\ jobs'[j].fase = "concluida" /\ jobs'[j].entrada = jobs[j].entrada
          /\ \A k \in Pedidos \ {j} : jobs'[k] = jobs[k]
      BY <2>1, <2>5, PassarParaLema DEF Concluir, Fase, Vivo
    <3>2. Escreve(jobs[j].entrada, "completed") /\ ApiQuieta
      BY <2>2, <2>3, <2>5 DEF Concluir, StatusEntrada
    <3>. QED BY <2>1, <2>5, <3>1, <3>2 DEF Conclui, MesmoJob, Concluir, EntradaDe
  <2>6. CASE MarcarFalha(j)
    <3>1. /\ jobs'[j].fase = "falhou" /\ jobs'[j].entrada = jobs[j].entrada
          /\ \A k \in Pedidos \ {j} : jobs'[k] = jobs[k]
      BY <2>1, <2>6, PassarParaLema DEF MarcarFalha, Fase, Vivo
    <3>2. Escreve(jobs[j].entrada, "failed") /\ ApiQuieta
      BY <2>2, <2>3, <2>6 DEF MarcarFalha, StatusEntrada
    <3>3. \A k \in Chaves :
              IF k = <<entradas[jobs[j].entrada].evento, entradas[jobs[j].entrada].escopo>>
                 /\ chaves[k].status # "ausente"
              THEN chaves'[k].status = "failed" /\ chaves'[k].resposta = chaves[k].resposta
              ELSE chaves'[k] = chaves[k]
      BY <2>6 DEF MarcarFalha, ChavesFalhas, EntradaDe, Inv1, TypeOK, Chave
    <3>. QED BY <2>1, <2>6, <3>1, <3>2, <3>3 DEF Falha, MesmoJob, MarcarFalha, EntradaDe
  <2>7. CASE Carregar(j) \/ GuardarBruta(j) \/ Encerrar(j) \/ Falhar(j)
               \/ FalharSemMarca(j) \/ Cair(j) \/ Desistir(j)
    <3>1. PICK f \in Fase \ {"nenhum", "fila"} :
              /\ PassarPara(j, f)
              /\ f \in EmExecucao => jobs[j].fase \in EmExecucao
              /\ jobs[j].fase \in {"concluida", "ok", "caiu", "abandonado"} =>
                     f \in {"concluida", "ok", "caiu", "abandonado"}
              /\ jobs[j].fase = "fila" => f = "caiu"
      BY <2>7 DEF Carregar, GuardarBruta, Encerrar, Falhar, FalharSemMarca, Cair, Desistir, Fase, Vivo,
         EmExecucao
    <3>2. /\ jobs'[j].fase = f /\ jobs'[j].entrada = jobs[j].entrada
          /\ jobs'[j].obra = jobs[j].obra
          /\ \A k \in Pedidos \ {j} : jobs'[k] = jobs[k]
      BY <2>1, <3>1, PassarParaLema
    <3>3. UNCHANGED <<entradas, chaves, tarefas, documentos>> /\ ApiQuieta
      BY <2>2, <2>7 DEF Carregar, GuardarBruta, Encerrar, Falhar, FalharSemMarca, Cair, Desistir, bancoVars
    <3>. QED BY <2>1, <3>1, <3>2, <3>3 DEF Anda, MesmoJob
  <2>8. CASE Reagendar(j)
    <3>1. /\ jobs'[j].fase = "fila" /\ jobs'[j].entrada = jobs[j].entrada
          /\ jobs'[j].tentativa = jobs[j].tentativa + 1
          /\ \A k \in Pedidos \ {j} : jobs'[k] = jobs[k]
      BY <2>1, <2>8, ReagendarLema
    <3>2. jobs'[j].tentativa > 1
      BY <2>1, <3>1 DEF Job
    <3>3. UNCHANGED <<entradas, chaves, tarefas, documentos>> /\ ApiQuieta
      BY <2>2, <2>8 DEF Reagendar, bancoVars
    <3>4. jobs[j].fase # "fila" /\ "fila" \notin EmExecucao
      BY <2>8 DEF Reagendar, EmExecucao
    <3>. QED BY <2>1, <3>1, <3>2, <3>3, <3>4 DEF Anda, MesmoJob
  <2>. QED BY <1>12, <2>4, <2>5, <2>6, <2>7, <2>8 DEF PassoJob
<1>. QED
  BY <1>1, <1>2, <1>3, <1>4, <1>5, <1>6, <1>7, <1>8, <1>9, <1>10, <1>11, <1>12
     DEF Next, PassoWebhook, PassoTarefa, PassoResolvedor

-----------------------------------------------------------------------------
(* What the clients of a failed or completed entrada see                   *)

(* Beside what GET /tasks shows, the entrada of a task has no event, so no *)
(* resolver ever takes it.                                                 *)
TarefasEmDia == TarefaAcompanha /\ \A t \in Tarefas : entradas[t].evento = Nenhum

(* It holds in every reachable state.                                      *)
LEMMA TarefasEmDiaSempre == Spec => []TarefasEmDia
<1>1. Init => TarefasEmDia
  BY DEF Init, TarefasEmDia, TarefaAcompanha, SemEntrada
<1>2. Inv1 /\ TarefasEmDia /\ [Next]_vars => TarefasEmDia'
  <2> SUFFICES ASSUME Inv1, TarefasEmDia, [Next]_vars PROVE TarefasEmDia'
    OBVIOUS
  <2>1. CASE \/ Quieto
             \/ \E r \in Resolvedores, i \in Ids : Le(r, i)
             \/ \E p \in Pedidos, i \in Ids : Enfileira(p, i)
             \/ \E j \in Pedidos : Anda(j)
    <3>1. UNCHANGED <<entradas, tarefas>>
      BY <2>1 DEF Quieto, Le, Enfileira, Anda
    <3>. QED BY <3>1 DEF TarefasEmDia, TarefaAcompanha
  <2>2. ASSUME NEW w \in Webhooks, Grava(w) PROVE TarefasEmDia'
    <3>1. /\ \A t \in Tarefas : entradas'[t] = entradas[t]
          /\ tarefas' = tarefas
      BY <2>2 DEF Grava
    <3>. QED BY <3>1 DEF TarefasEmDia, TarefaAcompanha
  <2>3. ASSUME NEW t \in Tarefas, NEW o \in Obras, Cria(t, o) PROVE TarefasEmDia'
    BY <2>3 DEF Cria, TarefasEmDia, TarefaAcompanha
  <2>4. ASSUME NEW r \in Resolvedores, Resolve(r) PROVE TarefasEmDia'
    <3>1. alvo[r] \notin Tarefas
      BY <2>4 DEF Resolve, TarefasEmDia
    <3>2. /\ \A t \in Tarefas : entradas'[t] = entradas[t]
          /\ tarefas' = tarefas
      BY <2>4, <3>1 DEF Resolve
    <3>. QED BY <3>2 DEF TarefasEmDia, TarefaAcompanha
  <2>5. ASSUME NEW j \in Pedidos, Inicia(j) \/ Conclui(j) \/ Falha(j)
        PROVE  TarefasEmDia'
    <3>1. /\ Escreve(jobs[j].entrada, IF Inicia(j) THEN "processing"
                                      ELSE IF Conclui(j) THEN "completed" ELSE "failed")
          /\ entradas[jobs[j].entrada].status # "ausente"
          /\ \A t \in Tarefas :
                 IF t # jobs[j].entrada \/ Inicia(j) THEN tarefas'[t] = tarefas[t]
                 ELSE tarefas'[t] = (IF Conclui(j) THEN "COMPLETED" ELSE "FAILED")
      BY ZenonT(30), <2>5 DEF Inicia, Conclui, Falha, MarcarTarefa, MesmoJob, Existe
    <3>. QED BY <3>1 DEF Escreve, TarefasEmDia, TarefaAcompanha
  <2>. QED BY <2>1, <2>2, <2>3, <2>4, <2>5, PassosLema
<1>. QED
  BY <1>1, <1>2, Inv1Sempre, PTL DEF Spec

(* The status of a task follows its entrada through failures and retries:  *)
(* the two are written in one transaction, and a retry ends in another.    *)
THEOREM TarefaSempreAcompanha == Spec => []TarefaAcompanha
BY TarefasEmDiaSempre, PTL DEF TarefasEmDia

(* A delivery that found its obra found the one it asked for, and stored   *)
(* with its entrada the scope of the key it had claimed and completed.     *)
ChaveGravada(w) ==
    resolvida[w] # Nenhum =>
        /\ pc[w] # "livre" /\ resolvida[w] = pedida[w]
        /\ Existe(w) => /\ entradas[w].evento = evento[w]
                        /\ entradas[w].escopo = pedida[w]
                        /\ ChaveDe(w) \in Chaves /\ chaves[ChaveDe(w)].status # "ausente"
        /\ entradas[w].status = "failed" => chaves[ChaveDe(w)].status = "failed"

(* A step that keeps delivery w and its row, and what its key says.        *)
LEMMA ChaveLema ==
    ASSUME NEW w \in Webhooks, Inv1, ChaveGravada(w),
           evento'[w] = evento[w], pedida'[w] = pedida[w], resolvida'[w] = resolvida[w],
           pc[w] # "livre" => pc'[w] # "livre",
           entradas'[w] = entradas[w],
           \/ ~Existe(w)
           \/ chaves'[ChaveDe(w)] = chaves[ChaveDe(w)]
           \/ chaves'[ChaveDe(w)].status = "failed"
    PROVE  ChaveGravada(w)'
BY DEF ChaveGravada, ChaveDe, Existe

(* A failed key is the one stored with the entrada it answers.             *)
FalhaDaEntrada ==
    \A k \in Chaves : chaves[k].status = "failed" =>
        \E i \in Ids : /\ i = chaves[k].resposta /\ Existe(i)
                       /\ k = <<entradas[i].evento, entradas[i].escopo>>

(* A step that fails no key and keeps what the rows say of theirs.         *)
LEMMA FalhaDaEntradaLema ==
    ASSUME FalhaDaEntrada,
           \A k \in Chaves : chaves'[k] = chaves[k] \/ chaves'[k].status # "failed",
           \A i \in Ids : Existe(i) =>
               /\ (Existe(i))' /\ entradas'[i].evento = entradas[i].evento
               /\ entradas'[i].escopo = entradas[i].escopo
    PROVE  FalhaDaEntrada'
BY DEF FalhaDaEntrada

(* Every step keeps it: the key that a failure marks belongs to the one    *)
(* entrada of its event, which is also the one the key answers.            *)
LEMMA FalhaDaEntradaSempre == Spec => []FalhaDaEntrada
<1>1. Init => FalhaDaEntrada
  BY DEF Init, FalhaDaEntrada, SemChave
<1>2. /\ Inv1 /\ UmaEntradaPorEvento /\ RespostaVerdadeira /\ FalhaDaEntrada
      /\ [Next]_vars
      => FalhaDaEntrada'
  <2> SUFFICES ASSUME Inv1, UmaEntradaPorEvento, RespostaVerdadeira, FalhaDaEntrada,
                      [Next]_vars
               PROVE  FalhaDaEntrada'
    OBVIOUS
  <2>1. CASE \/ Quieto
             \/ \E r \in Resolvedores, i \in Ids : Le(r, i)
             \/ \E p \in Pedidos, i \in Ids : Enfileira(p, i)
             \/ \E j \in Pedidos : Anda(j)
    <3>1. UNCHANGED <<entradas, chaves>>
      BY <2>1 DEF Quieto, Le, Enfileira, Anda
    <3>. QED BY <3>1, FalhaDaEntradaLema DEF Existe
  <2>2. ASSUME NEW w \in Webhooks, Grava(w) PROVE FalhaDaEntrada'
    <3>1. /\ ~Existe(w) /\ \A i \in Ids \ {w} : entradas'[i] = entradas[i]
          /\ \A k \in Chaves : chaves'[k] = chaves[k] \/ chaves'[k].status # "failed"
      BY <2>2 DEF Grava
    <3>. QED BY <3>1, FalhaDaEntradaLema DEF Existe
  <2>3. ASSUME NEW t \in Tarefas, NEW o \in Obras, Cria(t, o) PROVE FalhaDaEntrada'
    <3>1. /\ ~Existe(t) /\ \A i \in Ids \ {t} : entradas'[i] = entradas[i]
          /\ chaves' = chaves
      BY <2>3 DEF Cria
    <3>. QED BY <3>1, FalhaDaEntradaLema DEF Existe
  <2>4. ASSUME NEW r \in Resolvedores, Resolve(r) PROVE FalhaDaEntrada'
    BY <2>4, FalhaDaEntradaLema DEF Resolve, Existe
  <2>5. ASSUME NEW j \in Pedidos, Inicia(j) \/ Conclui(j) PROVE FalhaDaEntrada'
    <3>1. /\ chaves' = chaves
          /\ Escreve(jobs[j].entrada, IF Inicia(j) THEN "processing" ELSE "completed")
      BY <2>5 DEF Inicia, Conclui
    <3>. QED BY <3>1, FalhaDaEntradaLema DEF Escreve, Existe
  <2>6. ASSUME NEW j \in Pedidos, Falha(j) PROVE FalhaDaEntrada'
    <3> DEFINE e == jobs[j].entrada
    <3> HIDE DEF e
    <3>1. /\ e \in Ids /\ Existe(e) /\ Escreve(e, "failed")
          /\ \A k \in Chaves :
                 IF k = <<entradas[e].evento, entradas[e].escopo>>
                    /\ chaves[k].status # "ausente"
                 THEN chaves'[k].status = "failed" /\ chaves'[k].resposta = chaves[k].resposta
                 ELSE chaves'[k] = chaves[k]
      BY <2>6 DEF Falha, MesmoJob, e
    <3>2. \A i \in Ids : Existe(i) =>
              /\ (Existe(i))' /\ entradas'[i].evento = entradas[i].evento
              /\ entradas'[i].escopo = entradas[i].escopo
      BY <3>1 DEF Escreve, Existe
    <3> SUFFICES ASSUME NEW k \in Chaves, chaves'[k].status = "failed"
                 PROVE  \E i \in Ids : /\ i = chaves'[k].resposta /\ (Existe(i))'
                                       /\ k = <<entradas'[i].evento, entradas'[i].escopo>>
      BY DEF FalhaDaEntrada
    <3>3. CASE chaves'[k] = chaves[k]
      BY <3>2, <3>3 DEF FalhaDaEntrada
    <3>4. CASE k = <<entradas[e].evento, entradas[e].escopo>>
               /\ chaves[k].status # "ausente"
      <4>1. k[1] \in Eventos /\ k[1] = entradas[e].evento
        BY <3>4 DEF Chaves
      <4>2. PICK i \in Ids : /\ i = chaves[k].resposta /\ Existe(i)
                             /\ entradas[i].evento = k[1]
        BY <3>4 DEF RespostaVerdadeira, Existe
      <4>3. i = e
        BY <3>1, <4>1, <4>2 DEF UmaEntradaPorEvento
      <4>4. chaves'[k].resposta = e
        BY <3>1, <3>4, <4>2, <4>3
      <4>. QED BY <3>1, <3>2, <3>4, <4>4
    <3>. QED BY <3>1, <3>3, <3>4
  <2>. QED BY <2>1, <2>2, <2>3, <2>4, <2>5, <2>6, PassosLema
<1>. QED
  BY <1>1, <1>2, Inv1Sempre, UmaEntrada, RespostasVerdadeiras, PTL DEF Spec

(* The failure of an entrada that came with its obra is written on the key *)
(* its delivery claimed: the stored scope names it, and no other delivery  *)
(* can have taken it over since.  No failure is written on another's key.  *)
THEOREM FalhaSempreMarcaChave == Spec => []FalhaMarcaChaveComObra
<1>1. Init => \A w \in Webhooks : ChaveGravada(w)
  BY DEF Init, ChaveGravada
<1>2. Inv1 /\ (\A w \in Webhooks : ChaveGravada(w)) /\ [Next]_vars
      => (\A w \in Webhooks : ChaveGravada(w))'
  <2> SUFFICES ASSUME Inv1, \A w \in Webhooks : ChaveGravada(w), [Next]_vars,
                      NEW w \in Webhooks
               PROVE  ChaveGravada(w)'
    OBVIOUS
  <2>0. Existe(w) => pc[w] # "livre" /\ entradas[w].evento = evento[w]
    BY DEF Inv1, Coerencia, CommitCoerente, PedidosCoerentes
  <2>1. CASE Quieto
    <3>1. CASE evento'[w] = evento[w] /\ pedida'[w] = pedida[w]
               /\ resolvida'[w] = resolvida[w]
      <4>1. /\ entradas' = entradas /\ chaves' = chaves
            /\ pc[w] # "livre" => pc'[w] # "livre"
        BY <2>1 DEF Quieto
      <4>. QED BY <3>1, <4>1, ChaveLema
    <3>2. CASE pc[w] = "livre" /\ pc'[w] # "livre"
               /\ resolvida'[w] \in {Nenhum, pedida'[w]}
      <4>1. entradas'[w].status = "ausente"
        BY <2>0, <2>1, <3>2 DEF Quieto, Existe
      <4>. QED BY <3>2, <4>1 DEF ChaveGravada, Existe
    <3>. QED BY <2>1, <3>1, <3>2 DEF Quieto
  <2>2. ASSUME NEW v \in Webhooks, Grava(v) PROVE ChaveGravada(w)'
    <3>1. CASE w = v
      <4>1. /\ entradas'[w].evento = evento'[w] /\ entradas'[w].status # "failed"
            /\ resolvida'[w] # Nenhum => entradas'[w].escopo = resolvida'[w]
            /\ pc'[w] # "livre" /\ (ChaveDe(w))' = ChaveDe(w)
            /\ ChaveDe(w) \in Chaves /\ chaves'[ChaveDe(w)].status # "ausente"
            /\ resolvida' = resolvida /\ pedida' = pedida
        BY <2>2, <3>1 DEF Grava, ChaveDe
      <4>2. resolvida[w] # Nenhum => resolvida[w] = pedida[w]
        BY DEF ChaveGravada
      <4>. QED BY <4>1, <4>2 DEF ChaveGravada
    <3>2. CASE w # v
      <4>1. Existe(w) => ChaveDe(w) # ChaveDe(v)
        BY <2>0, <2>2 DEF Grava, ChaveDe
      <4>2. Existe(w) /\ resolvida[w] # Nenhum => ChaveDe(w) \in Chaves
        BY DEF ChaveGravada
      <4>3. /\ entradas'[w] = entradas[w] /\ pc'[w] = pc[w]
            /\ UNCHANGED <<evento, pedida, resolvida>>
            /\ \A k \in Chaves \ {ChaveDe(v)} : chaves'[k] = chaves[k]
        BY <2>2, <3>2 DEF Grava
      <4>4. CASE resolvida[w] = Nenhum
        BY <4>3, <4>4 DEF ChaveGravada
      <4>. QED BY <4>1, <4>2, <4>3, <4>4, ChaveLema
    <3>. QED BY <3>1, <3>2
  <2>3. CASE \/ \E t \in Tarefas, o \in Obras : Cria(t, o)
             \/ \E r \in Resolvedores, i \in Ids : Le(r, i)
             \/ \E p \in Pedidos, i \in Ids : Enfileira(p, i)
             \/ \E j \in Pedidos : Anda(j)
    <3>1. /\ entradas'[w] = entradas[w] /\ chaves' = chaves
          /\ evento'[w] = evento[w] /\ pedida'[w] = pedida[w]
          /\ resolvida'[w] = resolvida[w]
          /\ pc[w] # "livre" => pc'[w] # "livre"
      BY <2>3 DEF Cria, Le, Enfileira, Anda, ApiQuieta
    <3>. QED BY <3>1, ChaveLema
  <2>4. ASSUME NEW r \in Resolvedores, Resolve(r) PROVE ChaveGravada(w)'
    <3>1. /\ entradas'[w] = entradas[w] \/
                 /\ entradas'[w].status = "received" /\ Existe(w)
                 /\ entradas'[w].evento = entradas[w].evento
                 /\ entradas'[w].escopo = entradas[w].escopo
          /\ UNCHANGED <<chaves, evento, pedida, resolvida>> /\ pc'[w] = pc[w]
      BY <2>4 DEF Resolve
    <3>. QED BY <3>1, ChaveLema DEF ChaveGravada, ChaveDe, Existe
  <2>5. ASSUME NEW j \in Pedidos, Inicia(j) \/ Conclui(j) PROVE ChaveGravada(w)'
    <3>1. PICK s \in {"processing", "completed"} : Escreve(jobs[j].entrada, s)
      BY <2>5 DEF Inicia, Conclui
    <3>2. /\ UNCHANGED <<chaves, evento, pedida, resolvida, pc>>
          /\ Existe(jobs[j].entrada)
      BY <2>5 DEF Inicia, Conclui, ApiQuieta, MesmoJob
    <3>3. \/ entradas'[w] = entradas[w]
          \/ /\ entradas'[w].status \in {"processing", "completed"} /\ Existe(w)
             /\ entradas'[w].evento = entradas[w].evento
             /\ entradas'[w].escopo = entradas[w].escopo
      BY <3>1, <3>2 DEF Escreve
    <3>. QED BY <3>2, <3>3, ChaveLema DEF ChaveGravada, ChaveDe, Existe
  <2>6. ASSUME NEW j \in Pedidos, Falha(j) PROVE ChaveGravada(w)'
    <3>1. /\ UNCHANGED <<evento, pedida, resolvida, pc>>
          /\ Escreve(jobs[j].entrada, "failed") /\ Existe(jobs[j].entrada)
          /\ \A k \in Chaves :
                 IF k = <<entradas[jobs[j].entrada].evento,
                          entradas[jobs[j].entrada].escopo>>
                    /\ chaves[k].status # "ausente"
                 THEN chaves'[k].status = "failed"
                 ELSE chaves'[k] = chaves[k]
      BY <2>6 DEF Falha, ApiQuieta, MesmoJob
    <3>2. \A k \in Chaves : chaves'[k] = chaves[k] \/ chaves'[k].status = "failed"
      BY <3>1
    <3>3. CASE w # jobs[j].entrada
      <4>1. entradas'[w] = entradas[w]
        BY <3>1, <3>3 DEF Escreve
      <4>2. CASE resolvida[w] = Nenhum
        BY <3>1, <4>2 DEF ChaveGravada
      <4>3. CASE resolvida[w] # Nenhum
        <5>1. Existe(w) => ChaveDe(w) \in Chaves
          BY <4>3 DEF ChaveGravada
        <5>. QED BY <3>1, <3>2, <4>1, <5>1, ChaveLema
      <4>. QED BY <4>2, <4>3
    <3>4. CASE w = jobs[j].entrada /\ resolvida[w] # Nenhum
      <4>1. /\ entradas[w].evento = evento[w] /\ entradas[w].escopo = pedida[w]
            /\ ChaveDe(w) \in Chaves /\ chaves[ChaveDe(w)].status # "ausente"
            /\ pc[w] # "livre" /\ resolvida[w] = pedida[w]
        BY <3>1, <3>4 DEF ChaveGravada
      <4>2. chaves'[ChaveDe(w)].status = "failed"
        BY <3>1, <3>4, <4>1 DEF ChaveDe
      <4>3. /\ entradas'[w].evento = evento[w] /\ entradas'[w].escopo = pedida[w]
            /\ (ChaveDe(w))' = ChaveDe(w)
        BY <3>1, <3>4, <4>1 DEF Escreve, ChaveDe
      <4>. QED BY <3>1, <4>1, <4>2, <4>3 DEF ChaveGravada
    <3>5. CASE resolvida[w] = Nenhum
      BY <3>1, <3>5 DEF ChaveGravada
    <3>. QED BY <3>3, <3>4, <3>5
  <2>. QED BY <2>1, <2>2, <2>3, <2>4, <2>5, <2>6, PassosLema
<1>3. (\A w \in Webhooks : ChaveGravada(w)) => FalhaMarcaASua
  BY DEF ChaveGravada, FalhaMarcaASua
<1>4. FalhaDaEntrada => ChaveFalhaDaEntrada
  BY DEF FalhaDaEntrada, ChaveFalhaDaEntrada
<1>. QED
  BY <1>1, <1>2, <1>3, <1>4, Inv1Sempre, FalhaDaEntradaSempre, PTL
     DEF Spec, FalhaMarcaChaveComObra

-----------------------------------------------------------------------------
(* Disputes                                                                *)

Dono(j) == IF j \in Resolvedores THEN alvo[j] ELSE j

(* The delivery that created entrada i answered "pending_obra": it owes i  *)
(* no job and has none.                                                    *)
NasceuPendente(i) == pc[i] = "respondida" /\ jobs[i].fase = "nenhum"

(* Each job is of the entrada of its request; what a resolver has read was *)
(* born pending, and stays pending until a resolver commits.               *)
Disputas ==
    /\ \A j \in Pedidos : jobs[j].fase # "nenhum" => jobs[j].entrada = Dono(j)
    /\ \A i \in Ids : entradas[i].status = "pending_obra" => NasceuPendente(i)
    /\ \A r \in Resolvedores : pc[r] # "livre" => NasceuPendente(alvo[r])
    /\ \A r \in Resolvedores : pc[r] = "lida" =>
           entradas[alvo[r]].status = "pending_obra" \/ \E s \in Resolvedores : Resolveu(s, alvo[r])

(* What a step must respect to keep that: the targets of the resolvers at  *)
(* work, the entradas born pending, and the resolvers that have committed. *)
LEMMA DisputasLema ==
    ASSUME \A r \in Resolvedores : pc[r] # "livre" => alvo'[r] = alvo[r] /\ pc'[r] # "livre",
           \A p \in Pedidos : pc[p] \in {"respondida", "perdida"} => pc'[p] = pc[p],
           \A p \in Pedidos : pc[p] = "gravada" =>
               pc'[p] \in {"gravada", "respondida", "perdida"}
    PROVE  /\ \A r \in Resolvedores, i \in Ids : Resolveu(r, i) => (Resolveu(r, i))'
           /\ \A i \in Ids : Disputada(i) => (Disputada(i))'
<1>1. \A r \in Resolvedores, i \in Ids : Resolveu(r, i) => (Resolveu(r, i))'
  BY DEF Resolveu
<1>. QED BY <1>1 DEF Disputada

(* Every step respects them.                                               *)
LEMMA DisputasCrescem ==
    ASSUME Inv1, [Next]_vars
    PROVE  /\ \A r \in Resolvedores : pc[r] # "livre" => alvo'[r] = alvo[r] /\ pc'[r] # "livre"
           /\ \A p \in Pedidos : pc[p] \in {"respondida", "perdida"} => pc'[p] = pc[p]
           /\ \A p \in Pedidos : pc[p] = "gravada" =>
                  pc'[p] \in {"gravada", "respondida", "perdida"}
           /\ \A i \in Ids : NasceuPendente(i) => (NasceuPendente(i))'
<1>1. CASE Quieto
  BY <1>1 DEF Quieto, NasceuPendente
<1>2. CASE \E w \in Webhooks : Grava(w)
  BY <1>2 DEF Grava, NasceuPendente
<1>3. CASE \E t \in Tarefas, o \in Obras : Cria(t, o)
  BY <1>3 DEF Cria, NasceuPendente
<1>4. CASE \E r \in Resolvedores : Resolve(r) \/ \E i \in Ids : Le(r, i)
  BY <1>4 DEF Resolve, Le, NasceuPendente
<1>5. CASE \E p \in Pedidos, i \in Ids : Enfileira(p, i)
  BY <1>5 DEF Enfileira, NasceuPendente
<1>6. CASE \E j \in Pedidos : Inicia(j) \/ Anda(j) \/ Conclui(j) \/ Falha(j)
  <2>1. ApiQuieta
    BY <1>6 DEF Inicia, Anda, Conclui, Falha
  <2>2. PICK j \in Pedidos : MesmoJob(j)
    BY <1>6 DEF Inicia, Anda, Conclui, Falha
  <2>. QED BY <2>1, <2>2 DEF ApiQuieta, MesmoJob, NasceuPendente
<1>. QED BY <1>1, <1>2, <1>3, <1>4, <1>5, <1>6, PassosLema

(* Every step keeps the agreement of resolvers, pending entradas and jobs. *)
LEMMA PassoDisputas ==
    ASSUME Inv1, Disputas, [Next]_vars
    PROVE  Disputas'
<1>1. /\ \A r \in Resolvedores : pc[r] # "livre" => alvo'[r] = alvo[r] /\ pc'[r] # "livre"
      /\ \A i \in Ids : NasceuPendente(i) => (NasceuPendente(i))'
      /\ \A r \in Resolvedores, i \in Ids : Resolveu(r, i) => (Resolveu(r, i))'
  BY DisputasCrescem, DisputasLema
<1>0. \A r \in Resolvedores : pc[r] # "livre" => alvo[r] \in Ids
  BY DEF Inv1, Coerencia, PedidosCoerentes
<1>2. ASSUME \A j \in Pedidos : jobs'[j].fase # "nenhum" =>
                 /\ jobs[j].fase # "nenhum" /\ jobs'[j].entrada = jobs[j].entrada
                 /\ j \in Resolvedores => pc[j] # "livre",
             \A i \in Ids : entradas'[i].status = "pending_obra" <=>
                 entradas[i].status = "pending_obra",
             \A r \in Resolvedores : pc'[r] \in {"livre", "lida"} => pc'[r] = pc[r],
             \A r \in Resolvedores : pc[r] = "livre" => pc'[r] = "livre"
      PROVE  Disputas'
  <2>1. \A j \in Pedidos : jobs'[j].fase # "nenhum" => jobs'[j].entrada = (Dono(j))'
    BY <1>1, <1>2 DEF Disputas, Dono
  <2>2. \A i \in Ids : entradas'[i].status = "pending_obra" => (NasceuPendente(i))'
    BY <1>1, <1>2 DEF Disputas
  <2>3. \A r \in Resolvedores : pc'[r] # "livre" => (NasceuPendente(alvo[r]))'
    <3> SUFFICES ASSUME NEW r \in Resolvedores, pc'[r] # "livre"
                 PROVE  (NasceuPendente(alvo[r]))'
      OBVIOUS
    <3>1. pc[r] # "livre" /\ alvo'[r] = alvo[r] /\ alvo[r] \in Ids
      BY <1>0, <1>1, <1>2
    <3>2. NasceuPendente(alvo[r])
      BY <3>1 DEF Disputas
    <3>3. pc'[alvo[r]] = "respondida" /\ jobs'[alvo[r]].fase = "nenhum"
      BY <1>1, <3>1, <3>2 DEF NasceuPendente
    <3>. QED BY <3>1, <3>3 DEF NasceuPendente
  <2>4. \A r \in Resolvedores : pc'[r] = "lida" =>
            \/ entradas'[alvo'[r]].status = "pending_obra"
            \/ \E s \in Resolvedores : (Resolveu(s, alvo[r]))'
    <3> SUFFICES ASSUME NEW r \in Resolvedores, pc'[r] = "lida",
                        entradas'[alvo'[r]].status # "pending_obra"
                 PROVE  \E s \in Resolvedores : (Resolveu(s, alvo[r]))'
      OBVIOUS
    <3>1. pc[r] = "lida" /\ alvo'[r] = alvo[r] /\ alvo[r] \in Ids
      BY <1>0, <1>1, <1>2
    <3>2. entradas[alvo[r]].status # "pending_obra"
      BY <1>2, <3>1
    <3>3. PICK s \in Resolvedores : Resolveu(s, alvo[r])
      BY <3>1, <3>2 DEF Disputas
    <3>. QED BY <1>1, <3>1, <3>3 DEF Resolveu
  <2>. QED BY <2>1, <2>2, <2>3, <2>4 DEF Disputas
<1>j. \A j \in Pedidos : jobs[j].fase # "nenhum" => pc[j] = "respondida"
  BY DEF Inv1, Coerencia, JobsCoerentes
<1>3. CASE Quieto
  BY <1>2, <1>3, <1>j DEF Quieto
<1>4. CASE \E t \in Tarefas, o \in Obras : Cria(t, o)
  BY <1>2, <1>4, <1>j DEF Cria, Existe
<1>5. CASE \E j \in Pedidos : Inicia(j) \/ Anda(j) \/ Conclui(j) \/ Falha(j)
  <2>1. PICK j \in Pedidos : Inicia(j) \/ Anda(j) \/ Conclui(j) \/ Falha(j)
    BY <1>5
  <2>2. MesmoJob(j) /\ ApiQuieta
    BY <2>1 DEF Inicia, Anda, Conclui, Falha
  <2>3. \/ entradas' = entradas
        \/ \E s \in {"processing", "completed", "failed"} : Escreve(jobs[j].entrada, s)
    BY <2>1 DEF Inicia, Anda, Conclui, Falha
  <2>4. \A i \in Ids : entradas'[i].status = "pending_obra" <=>
                       entradas[i].status = "pending_obra"
    BY <2>2, <2>3 DEF Escreve, MesmoJob
  <2>5. \A k \in Pedidos : jobs'[k].fase # "nenhum" =>
            jobs[k].fase # "nenhum" /\ jobs'[k].entrada = jobs[k].entrada
    BY <2>2 DEF MesmoJob
  <2>. QED BY <1>2, <1>j, <2>2, <2>4, <2>5 DEF ApiQuieta
<1>6. ASSUME NEW w \in Webhooks, Grava(w) PROVE Disputas'
  <2>1. \A i \in Ids : entradas'[i].status = "pending_obra" => (NasceuPendente(i))'
    BY <1>1, <1>6 DEF Grava, Disputas, NasceuPendente
  <2>2. UNCHANGED <<jobs, alvo>> /\ \A p \in Pedidos \ {w} : pc'[p] = pc[p]
    BY <1>6 DEF Grava
  <2>3. \A r \in Resolvedores : pc'[r] # "livre" => (NasceuPendente(alvo[r]))'
    BY <1>0, <1>1, <2>2 DEF Disputas, NasceuPendente
  <2>4. \A r \in Resolvedores : pc'[r] = "lida" => alvo[r] # w
    <3>1. \A r \in Resolvedores : pc[r] = "lida" => NasceuPendente(alvo[r])
      BY DEF Disputas
    <3>. QED BY <1>6, <2>2, <3>1 DEF Grava, NasceuPendente
  <2>5. \A r \in Resolvedores : pc'[r] = "lida" =>
            \/ entradas'[alvo'[r]].status = "pending_obra"
            \/ \E s \in Resolvedores : (Resolveu(s, alvo[r]))'
    <3> SUFFICES ASSUME NEW r \in Resolvedores, pc'[r] = "lida",
                        entradas'[alvo'[r]].status # "pending_obra"
                 PROVE  \E s \in Resolvedores : (Resolveu(s, alvo[r]))'
      OBVIOUS
    <3>1. pc[r] = "lida" /\ alvo'[r] = alvo[r] /\ alvo[r] \in Ids \ {w}
      BY <1>0, <2>2, <2>4
    <3>2. entradas[alvo[r]].status # "pending_obra"
      BY <1>6, <3>1 DEF Grava
    <3>3. PICK s \in Resolvedores : Resolveu(s, alvo[r])
      BY <3>1, <3>2 DEF Disputas
    <3>. QED BY <1>1, <3>1, <3>3 DEF Resolveu
  <2>. QED BY <2>1, <2>2, <2>3, <2>5 DEF Disputas, Dono
<1>7. ASSUME NEW r \in Resolvedores, NEW i \in Ids, Le(r, i) PROVE Disputas'
  <2>1. /\ alvo'[r] = i /\ \A s \in Resolvedores \ {r} : alvo'[s] = alvo[s]
        /\ \A p \in Pedidos \ {r} : pc'[p] = pc[p]
        /\ UNCHANGED <<jobs, entradas>> /\ jobs[r].fase = "nenhum"
        /\ entradas[i].status = "pending_obra"
    BY <1>7 DEF Le
  <2>2. \A j \in Pedidos : jobs'[j].fase # "nenhum" => jobs'[j].entrada = (Dono(j))'
    BY <2>1 DEF Disputas, Dono
  <2>3. \A k \in Ids : entradas'[k].status = "pending_obra" => (NasceuPendente(k))'
    BY <1>1, <2>1 DEF Disputas
  <2>4. \A s \in Resolvedores : pc'[s] # "livre" => (NasceuPendente(alvo[s]))'
    <3> SUFFICES ASSUME NEW s \in Resolvedores, pc'[s] # "livre"
                 PROVE  (NasceuPendente(alvo[s]))'
      OBVIOUS
    <3>1. CASE s = r
      BY <2>1, <2>3, <3>1 DEF NasceuPendente
    <3>2. CASE s # r
      <4>1. pc[s] # "livre" /\ alvo'[s] = alvo[s] /\ alvo[s] \in Ids
        BY <1>0, <2>1, <3>2
      <4>2. NasceuPendente(alvo[s])
        BY <4>1 DEF Disputas
      <4>. QED BY <1>1, <4>1, <4>2 DEF NasceuPendente
    <3>. QED BY <3>1, <3>2
  <2>5. \A s \in Resolvedores : pc'[s] = "lida" =>
            \/ entradas'[alvo'[s]].status = "pending_obra"
            \/ \E v \in Resolvedores : (Resolveu(v, alvo[s]))'
    <3> SUFFICES ASSUME NEW s \in Resolvedores, pc'[s] = "lida", s # r,
                        entradas'[alvo'[s]].status # "pending_obra"
                 PROVE  \E v \in Resolvedores : (Resolveu(v, alvo[s]))'
      BY <2>1
    <3>1. pc[s] = "lida" /\ alvo'[s] = alvo[s] /\ alvo[s] \in Ids
      BY <1>0, <2>1
    <3>2. PICK v \in Resolvedores : Resolveu(v, alvo[s])
      BY <2>1, <3>1 DEF Disputas
    <3>. QED BY <1>1, <3>1, <3>2 DEF Resolveu
  <2>. QED BY <2>2, <2>3, <2>4, <2>5 DEF Disputas
<1>8. ASSUME NEW r \in Resolvedores, Resolve(r) PROVE Disputas'
  <2>1. /\ pc'[r] = "gravada" /\ pc[r] = "lida" /\ alvo[r] \in Ids
        /\ \A p \in Pedidos \ {r} : pc'[p] = pc[p]
        /\ UNCHANGED <<jobs, alvo>>
        /\ entradas'[alvo[r]].status = "received"
        /\ \A k \in Ids \ {alvo[r]} : entradas'[k] = entradas[k]
    BY <1>8 DEF Resolve
  <2>2. \A k \in Ids : entradas'[k].status = "pending_obra" => (NasceuPendente(k))'
    BY <1>1, <2>1 DEF Disputas
  <2>3. \A s \in Resolvedores : pc'[s] # "livre" => (NasceuPendente(alvo[s]))'
    BY <1>0, <1>1, <2>1 DEF Disputas, NasceuPendente
  <2>4. \A s \in Resolvedores : pc'[s] = "lida" =>
            \/ entradas'[alvo'[s]].status = "pending_obra"
            \/ \E v \in Resolvedores : (Resolveu(v, alvo[s]))'
    <3> SUFFICES ASSUME NEW s \in Resolvedores, pc'[s] = "lida",
                        entradas'[alvo'[s]].status # "pending_obra"
                 PROVE  \E v \in Resolvedores : (Resolveu(v, alvo[s]))'
      OBVIOUS
    <3>1. pc[s] = "lida" /\ alvo'[s] = alvo[s] /\ alvo[s] \in Ids
      BY <1>0, <2>1
    <3>2. CASE alvo[s] = alvo[r]
      BY <2>1, <3>2 DEF Resolveu
    <3>3. CASE alvo[s] # alvo[r]
      <4>1. entradas[alvo[s]].status # "pending_obra"
        BY <2>1, <3>1, <3>3
      <4>2. PICK v \in Resolvedores : Resolveu(v, alvo[s])
        BY <3>1, <4>1 DEF Disputas
      <4>. QED BY <1>1, <3>1, <4>2 DEF Resolveu
    <3>. QED BY <3>2, <3>3
  <2>. QED BY <2>1, <2>2, <2>3, <2>4 DEF Disputas, Dono
<1>9. ASSUME NEW p \in Pedidos, NEW i \in Ids, Enfileira(p, i) PROVE Disputas'
  <2>1. /\ UNCHANGED <<entradas, alvo>>
        /\ \A q \in Pedidos \ {p} : pc'[q] = pc[q] /\ jobs'[q] = jobs[q]
        /\ pc'[p] = "respondida" /\ pc[p] = "gravada" /\ jobs'[p].entrada = Dono(p)
    BY <1>9 DEF Enfileira, Dono
  <2>2. \A j \in Pedidos : jobs'[j].fase # "nenhum" => jobs'[j].entrada = (Dono(j))'
    BY <2>1 DEF Disputas, Dono
  <2>3. \A k \in Ids : entradas'[k].status = "pending_obra" => (NasceuPendente(k))'
    BY <1>1, <2>1 DEF Disputas
  <2>4. \A s \in Resolvedores : pc'[s] # "livre" => (NasceuPendente(alvo[s]))'
    <3> SUFFICES ASSUME NEW s \in Resolvedores, pc'[s] # "livre"
                 PROVE  (NasceuPendente(alvo[s]))'
      OBVIOUS
    <3>1. pc[s] # "livre" /\ alvo[s] \in Ids
      BY <1>0, <2>1
    <3>2. NasceuPendente(alvo[s])
      BY <3>1 DEF Disputas
    <3>. QED BY <1>1, <2>1, <3>1, <3>2 DEF NasceuPendente
  <2>5. \A s \in Resolvedores : pc'[s] = "lida" =>
            \/ entradas'[alvo'[s]].status = "pending_obra"
            \/ \E v \in Resolvedores : (Resolveu(v, alvo[s]))'
    <3> SUFFICES ASSUME NEW s \in Resolvedores, pc'[s] = "lida",
                        entradas'[alvo'[s]].status # "pending_obra"
                 PROVE  \E v \in Resolvedores : (Resolveu(v, alvo[s]))'
      OBVIOUS
    <3>1. pc[s] = "lida" /\ alvo'[s] = alvo[s] /\ alvo[s] \in Ids
      BY <1>0, <2>1
    <3>2. PICK v \in Resolvedores : Resolveu(v, alvo[s])
      BY <2>1, <3>1 DEF Disputas
    <3>. QED BY <1>1, <3>1, <3>2 DEF Resolveu
  <2>. QED BY <2>2, <2>3, <2>4, <2>5 DEF Disputas
<1>. QED BY <1>3, <1>4, <1>5, <1>6, <1>7, <1>8, <1>9, PassosLema

(* It holds in every reachable state.                                      *)
LEMMA DisputasSempre == Spec => []Disputas
<1>1. Init => Disputas
  BY DEF Init, Disputas, SemEntrada, SemJob
<1>2. Disputas /\ Inv1 /\ [Next]_vars => Disputas'
  BY PassoDisputas
<1>. QED
  BY <1>1, <1>2, Inv1Sempre, PTL DEF Spec

(* An entrada whose job exists was either given that job by its own        *)
(* request, or by a resolver that has committed.                           *)
LEMMA JobDeResolvedor ==
    ASSUME Inv1, Disputas, NEW r \in Resolvedores, pc[r] # "livre",
           NEW j \in Pedidos, jobs[j].fase # "nenhum", jobs[j].entrada = alvo[r]
    PROVE  j \in Resolvedores /\ Resolveu(j, alvo[r])
<1>1. jobs[j].entrada = Dono(j) /\ pc[j] = "respondida"
  BY DEF Disputas, Inv1, Coerencia, JobsCoerentes
<1>2. jobs[alvo[r]].fase = "nenhum"
  BY DEF Disputas, NasceuPendente
<1>3. j \in Resolvedores
  BY <1>1, <1>2 DEF Dono
<1>. QED BY <1>1, <1>3 DEF Dono, Resolveu

(* An undisputed entrada has one job.                                      *)
LEMMA UmJobLema ==
    ASSUME Inv1, Disputas, NEW j \in Pedidos, NEW k \in Pedidos,
           jobs[j].fase # "nenhum", jobs[k].fase # "nenhum",
           jobs[j].entrada = jobs[k].entrada, ~Disputada(jobs[j].entrada)
    PROVE  j = k
<1>1. /\ jobs[j].entrada = Dono(j) /\ pc[j] = "respondida"
      /\ jobs[k].entrada = Dono(k) /\ pc[k] = "respondida"
  BY DEF Disputas, Inv1, Coerencia, JobsCoerentes
<1> SUFFICES ASSUME j # k PROVE FALSE
  OBVIOUS
<1>2. CASE j \in Resolvedores
  <2>1. k \in Resolvedores /\ Resolveu(k, alvo[j])
    BY <1>1, <1>2, JobDeResolvedor DEF Dono
  <2>2. Resolveu(j, alvo[j]) /\ jobs[j].entrada = alvo[j]
    BY <1>1, <1>2 DEF Resolveu, Dono
  <2>. QED BY <1>2, <2>1, <2>2 DEF Resolveu, Disputada
<1>3. CASE k \in Resolvedores
  <2>1. j \in Resolvedores /\ Resolveu(j, alvo[k])
    BY <1>1, <1>3, JobDeResolvedor DEF Dono
  <2>2. Resolveu(k, alvo[k]) /\ jobs[k].entrada = alvo[k]
    BY <1>1, <1>3 DEF Resolveu, Dono
  <2>. QED BY <1>3, <2>1, <2>2 DEF Resolveu, Disputada
<1>4. CASE j \notin Resolvedores /\ k \notin Resolvedores
  BY <1>1, <1>4 DEF Dono
<1>. QED BY <1>2, <1>3, <1>4

(* A resolver has committed for entrada i; one of them asked for obra o.   *)
Tomada(i) == \E r \in Resolvedores : Resolveu(r, i)
Pediu(i, o) == \E r \in Resolvedores : Resolveu(r, i) /\ pedida[r] = o

(* What its resolvers asked for bounds the obras an entrada they took, its *)
(* jobs and its documentos can have.                                       *)
Cercadas ==
    /\ \A i \in Ids : Tomada(i) => Pediu(i, entradas[i].obra)
    /\ \A j \in Pedidos : jobs[j].fase \in EmExecucao /\ Tomada(jobs[j].entrada) =>
           Pediu(jobs[j].entrada, jobs[j].obra)
    /\ \A d \in documentos : Tomada(d.entrada) => Pediu(d.entrada, d.obra)

(* What a resolver asked for stands, and only a commit takes an entrada.   *)
LEMMA TomadaLema ==
    ASSUME Inv1, [Next]_vars
    PROVE  /\ \A i \in Ids, o \in Obras : Pediu(i, o) => Pediu(i, o)'
           /\ \A i \in Ids : Tomada(i)' =>
                  Tomada(i) \/ \E r \in Resolvedores : Resolve(r) /\ i = alvo[r]
<1>1. \A r \in Resolvedores, i \in Ids : Resolveu(r, i) => (Resolveu(r, i))'
  BY DisputasCrescem, DisputasLema
<1>2. \A r \in Resolvedores : pc[r] # "livre" => pedida'[r] = pedida[r]
  <2>1. ASSUME NEW r \in Resolvedores, NEW i \in Ids, Le(r, i)
        PROVE  \A s \in Resolvedores : pc[s] # "livre" => pedida'[s] = pedida[s]
    BY <2>1 DEF Le
  <2>. QED
    BY <2>1, PassosLema DEF Quieto, Grava, Cria, Resolve, Enfileira, Inicia, Anda,
       Conclui, Falha, ApiQuieta
<1>3. \A i \in Ids, o \in Obras : Pediu(i, o) => Pediu(i, o)'
  BY <1>1, <1>2 DEF Pediu, Resolveu
<1>4. ASSUME NEW r \in Resolvedores, NEW i \in Ids, (Resolveu(r, i))'
      PROVE  Resolveu(r, i) \/ (Resolve(r) /\ i = alvo[r])
  <2>1. CASE Quieto \/ \E j \in Pedidos : Inicia(j) \/ Anda(j) \/ Conclui(j) \/ Falha(j)
    BY <1>4, <2>1 DEF Quieto, Inicia, Anda, Conclui, Falha, ApiQuieta, Resolveu
  <2>2. CASE \/ \E w \in Webhooks : Grava(w)
             \/ \E t \in Tarefas, o \in Obras : Cria(t, o)
    BY <1>4, <2>2 DEF Grava, Cria, Resolveu
  <2>3. CASE \E s \in Resolvedores, k \in Ids : Le(s, k)
    BY <1>4, <2>3 DEF Le, Resolveu
  <2>4. CASE \E s \in Resolvedores : Resolve(s)
    BY <1>4, <2>4 DEF Resolve, Resolveu
  <2>5. CASE \E p \in Pedidos, k \in Ids : Enfileira(p, k)
    BY <1>4, <2>5 DEF Enfileira, Resolveu
  <2>. QED BY <2>1, <2>2, <2>3, <2>4, <2>5, PassosLema
<1>. QED
  BY <1>3, <1>4 DEF Tomada

(* Every step keeps the bound.                                             *)
LEMMA PassoCercadas ==
    ASSUME Inv1, Disputas, Artefatos, Cercadas, [Next]_vars
    PROVE  Cercadas'
<1>m. /\ \A i \in Ids, o \in Obras : Pediu(i, o) => Pediu(i, o)'
      /\ \A i \in Ids : Tomada(i)' =>
             Tomada(i) \/ \E r \in Resolvedores : Resolve(r) /\ i = alvo[r]
  BY TomadaLema
<1>o. \A i \in Ids : Tomada(i) => Existe(i) /\ entradas[i].obra \in Obras
  <2>1. \A r \in Resolvedores, i \in Ids : Resolveu(r, i) =>
            Existe(i) /\ pedida[r] \in Obras
    BY DEF Resolveu, Inv1, Coerencia, PedidosCoerentes
  <2>. QED BY <2>1 DEF Tomada, Pediu, Cercadas
<1>j. /\ \A j \in Pedidos : jobs[j].fase # "nenhum" =>
             jobs[j].entrada \in Ids /\ Existe(jobs[j].entrada)
      /\ \A j \in Pedidos : jobs[j].fase \in EmExecucao => jobs[j].obra \in Obras
      /\ "nenhum" \notin EmExecucao /\ "fila" \notin EmExecucao
      /\ "concluida" \notin EmExecucao /\ "falhou" \notin EmExecucao
      /\ "guardado" \in EmExecucao
  BY DEF Inv1, Coerencia, JobsCoerentes, EmExecucao
<1>d. \A d \in documentos :
          /\ d.entrada \in Ids /\ d.obra \in Obras /\ d.job \in Pedidos
          /\ jobs[d.job].fase # "nenhum" /\ jobs[d.job].entrada = d.entrada
  BY DEF Inv1, TypeOK, Documento, Artefatos, ArtefatosCoerentes
<1>1. ASSUME ~\E r \in Resolvedores : Resolve(r),
             \A i \in Ids : Existe(i) => entradas'[i].obra = entradas[i].obra,
             \A j \in Pedidos : jobs'[j].fase \in EmExecucao =>
                 /\ jobs[j].fase # "nenhum" /\ jobs'[j].entrada = jobs[j].entrada
                 /\ \/ jobs[j].fase \in EmExecucao /\ jobs'[j].obra = jobs[j].obra
                    \/ jobs'[j].obra = entradas[jobs[j].entrada].obra,
             \A d \in documentos' : d \notin documentos =>
                 \E j \in Pedidos : /\ jobs[j].fase \in EmExecucao
                                    /\ d.entrada = jobs[j].entrada /\ d.obra = jobs[j].obra
      PROVE  Cercadas'
  <2>1. \A i \in Ids : Tomada(i)' => Tomada(i)
    BY <1>1, <1>m
  <2>2. \A i \in Ids : Tomada(i)' => Pediu(i, entradas[i].obra)'
    BY <1>1, <1>m, <1>o, <2>1 DEF Cercadas
  <2>. QED BY <1>1, <1>m, <1>o, <1>j, <1>d, <2>1, <2>2 DEF Cercadas
<1>2. CASE (~\E r \in Resolvedores : Resolve(r)) /\ Quieto
  BY <1>1, <1>2, <1>j DEF Quieto
<1>3. ASSUME ~\E r \in Resolvedores : Resolve(r), NEW w \in Webhooks, Grava(w)
      PROVE  Cercadas'
  BY <1>1, <1>3, <1>j DEF Grava
<1>4. ASSUME ~\E r \in Resolvedores : Resolve(r), NEW t \in Tarefas, NEW o \in Obras,
             Cria(t, o)
      PROVE  Cercadas'
  BY <1>1, <1>4, <1>j DEF Cria
<1>5. ASSUME ~\E r \in Resolvedores : Resolve(r), NEW r \in Resolvedores, NEW i \in Ids,
             Le(r, i)
      PROVE  Cercadas'
  BY <1>1, <1>5, <1>j DEF Le
<1>6. ASSUME ~\E r \in Resolvedores : Resolve(r), NEW p \in Pedidos, NEW i \in Ids,
             Enfileira(p, i)
      PROVE  Cercadas'
  BY <1>1, <1>6, <1>j DEF Enfileira
<1>7. ASSUME ~\E r \in Resolvedores : Resolve(r), NEW j \in Pedidos,
             Inicia(j) \/ Anda(j) \/ Falha(j)
      PROVE  Cercadas'
  <2>1. /\ MesmoJob(j) /\ documentos' = documentos
        /\ entradas' = entradas \/ \E s \in StatusEntrada : Escreve(jobs[j].entrada, s)
        /\ jobs'[j].fase \in EmExecucao =>
               \/ jobs[j].fase \in EmExecucao /\ jobs'[j].obra = jobs[j].obra
               \/ jobs'[j].obra = entradas[jobs[j].entrada].obra
    BY <1>7, <1>j DEF Inicia, Anda, Falha, StatusEntrada
  <2>2. \A i \in Ids : entradas'[i].obra = entradas[i].obra
    BY <2>1 DEF Escreve
  <2>. QED BY <1>1, <1>7, <1>j, <2>1, <2>2 DEF MesmoJob
<1>8. ASSUME ~\E r \in Resolvedores : Resolve(r), NEW j \in Pedidos, Conclui(j)
      PROVE  Cercadas'
  <2>1. /\ MesmoJob(j) /\ documentos' = documentos \cup NovosDocumentos(j)
        /\ jobs[j].fase \in {"guardado", "pronto"} /\ jobs'[j].fase = "concluida"
        /\ \A i \in Ids : entradas'[i].obra = entradas[i].obra
    BY <1>8 DEF Conclui, Escreve
  <2>2. \A d \in NovosDocumentos(j) :
            /\ jobs[j].fase \in EmExecucao
            /\ d.entrada = jobs[j].entrada /\ d.obra = jobs[j].obra
    BY <1>j DEF NovosDocumentos, EntradaDe
  <2>. QED BY <1>1, <1>8, <1>j, <2>1, <2>2 DEF MesmoJob
<1>9. ASSUME NEW r \in Resolvedores, Resolve(r) PROVE Cercadas'
  <2>1. /\ pc[r] = "lida" /\ pc'[r] = "gravada" /\ alvo[r] \in Ids /\ pedida[r] \in Obras
        /\ entradas'[alvo[r]].obra = pedida[r]
        /\ \A k \in Ids \ {alvo[r]} : entradas'[k] = entradas[k]
        /\ UNCHANGED <<documentos, jobs, pedida, alvo>>
        /\ \A p \in Pedidos \ {r} : pc'[p] = pc[p]
    BY <1>9 DEF Resolve
  <2>2. Pediu(alvo[r], pedida[r])'
    BY <2>1 DEF Pediu, Resolveu
  <2>3. \A i \in Ids : i # alvo[r] /\ Tomada(i)' => Tomada(i)
    BY <2>1 DEF Tomada, Resolveu
  <2>4. \A j \in Pedidos : jobs[j].fase # "nenhum" /\ jobs[j].entrada = alvo[r] =>
            Tomada(alvo[r])
    BY <2>1, JobDeResolvedor DEF Tomada
  <2>5. \A i \in Ids : Tomada(i)' => Pediu(i, entradas[i].obra)'
    <3> SUFFICES ASSUME NEW i \in Ids, Tomada(i)' PROVE Pediu(i, entradas[i].obra)'
      OBVIOUS
    <3>1. CASE i = alvo[r]
      <4>1. pedida'[r] = pedida[r] /\ entradas'[i].obra = pedida[r]
        BY <2>1, <3>1
      <4>. QED BY <2>1, <3>1, <4>1 DEF Pediu, Resolveu
    <3>2. CASE i # alvo[r]
      BY <1>m, <1>o, <2>1, <2>3, <3>2 DEF Cercadas
    <3>. QED BY <3>1, <3>2
  <2>6. \A j \in Pedidos : jobs'[j].fase \in EmExecucao /\ Tomada(jobs[j].entrada)' =>
            Pediu(jobs[j].entrada, jobs[j].obra)'
    BY <1>m, <1>j, <2>1, <2>3, <2>4 DEF Cercadas
  <2>7. \A d \in documentos' : Tomada(d.entrada)' => Pediu(d.entrada, d.obra)'
    BY <1>m, <1>d, <2>1, <2>3, <2>4 DEF Cercadas
  <2>. QED BY <2>5, <2>6, <2>7 DEF Cercadas
<1>. QED
  BY <1>2, <1>3, <1>4, <1>5, <1>6, <1>7, <1>8, <1>9, PassosLema

(* It holds in every reachable state.                                      *)
LEMMA CercadasSempre == Spec => []Cercadas
<1>1. Init => Cercadas
  BY DEF Init, Cercadas, Tomada, Resolveu
<1>2. Inv1 /\ Disputas /\ Artefatos /\ Cercadas /\ [Next]_vars => Cercadas'
  BY PassoCercadas
<1>. QED
  BY <1>1, <1>2, Inv1Sempre, DisputasSempre, ArtefatosSempre, PTL DEF Spec

(* A retry never adds a second documento of its job, wherever the earlier  *)
(* attempt died, and however many resolvers race for an entrada, each of   *)
(* its documentos is of the job of one of them, under an obra one of them  *)
(* asked for: n of them leave at most n documentos.                        *)
THEOREM RetentativaSegura == Spec => []RetentativaNaoDuplica
<1>1. Inv1 /\ Disputas /\ Artefatos /\ Cercadas => RetentativaNaoDuplica
  <2> SUFFICES ASSUME Inv1, Disputas, Artefatos, Cercadas
               PROVE  UmDocumentoPorJob /\ DisputaLimitada
    BY DEF RetentativaNaoDuplica
  <2>1. UmDocumentoPorJob
    BY DEF Artefatos
  <2>2. ASSUME NEW d \in documentos, ObrasPedidas(d.entrada) # {}
        PROVE  /\ d.job \in Resolvedores /\ Resolveu(d.job, d.entrada)
               /\ d.obra \in ObrasPedidas(d.entrada)
    <3>1. PICK r \in Resolvedores : Resolveu(r, d.entrada)
      BY <2>2 DEF ObrasPedidas
    <3>2. /\ d.job \in Pedidos /\ jobs[d.job].fase # "nenhum"
          /\ jobs[d.job].entrada = d.entrada
      BY DEF Inv1, TypeOK, Documento, Artefatos, ArtefatosCoerentes
    <3>3. pc[r] # "livre" /\ alvo[r] = d.entrada
      BY <3>1 DEF Resolveu
    <3>4. d.job \in Resolvedores /\ Resolveu(d.job, d.entrada)
      BY <3>2, <3>3, JobDeResolvedor
    <3>5. Pediu(d.entrada, d.obra)
      BY <3>1 DEF Cercadas, Tomada
    <3>. QED BY <3>4, <3>5 DEF Pediu, ObrasPedidas
  <2>. QED BY <2>1, <2>2 DEF DisputaLimitada
<1>. QED
  BY <1>1, Inv1Sempre, DisputasSempre, ArtefatosSempre, CercadasSempre, PTL

(* A resolver that commits over an entrada that has a job disputes it.     *)
LEMMA ResolverDisputa ==
    ASSUME Inv1, Disputas, [Next]_vars, NEW r \in Resolvedores,
           Resolve(r) \/ \E i \in Ids : Enfileira(r, i), NEW k \in Ids, k = alvo[r],
           NEW j \in Pedidos, jobs[j].fase # "nenhum", jobs[j].entrada = k
    PROVE  (Disputada(k))'
<1>1. /\ pc[r] \in {"lida", "gravada"} /\ pc'[r] \in {"gravada", "respondida"}
      /\ alvo' = alvo
  BY DEF Resolve, Enfileira
<1>2. j \in Resolvedores /\ Resolveu(j, alvo[r]) /\ pc[j] = "respondida"
  BY <1>1, JobDeResolvedor DEF Inv1, Coerencia, JobsCoerentes
<1>3. pc'[j] = "respondida"
  BY <1>2, DisputasCrescem
<1>4. r # j
  BY <1>1, <1>2
<1>. QED BY <1>1, <1>2, <1>3, <1>4 DEF Resolveu, Disputada

(* Undisputed, an entrada keeps the obra its job has read and its          *)
(* documento is filed under.                                               *)
ObraFirme ==
    /\ \A j \in Pedidos : jobs[j].fase \in EmExecucao /\ ~Disputada(jobs[j].entrada) =>
           jobs[j].obra = entradas[jobs[j].entrada].obra
    /\ \A d \in documentos : ~Disputada(d.entrada) => d.obra = entradas[d.entrada].obra

(* Undisputed, a completed entrada has no attempt that could still move it *)
(* except the retry of a job that died after its commit.                   *)
Quietas == {"concluida", "ok", "caiu", "abandonado"}

CompletaQuieta ==
    \A j \in Pedidos :
        /\ jobs[j].fase # "nenhum" /\ ~Disputada(jobs[j].entrada)
        /\ entradas[jobs[j].entrada].status = "completed"
        => \/ jobs[j].fase \in Quietas
           \/ jobs[j].fase = "fila" /\ jobs[j].tentativa > 1

Incontestes == ObraFirme /\ CompletaQuieta

(* Every step keeps both, as long as nobody disputes the entrada.          *)
LEMMA PassoIncontestes ==
    ASSUME Inv1, Disputas, Artefatos, Incontestes, [Next]_vars
    PROVE  Incontestes'
<1>m. \A i \in Ids : Disputada(i) => (Disputada(i))'
  BY DisputasCrescem, DisputasLema
<1>j. /\ \A j \in Pedidos : jobs[j].fase # "nenhum" =>
             /\ jobs[j].entrada \in Ids /\ pc[j] = "respondida" /\ Existe(jobs[j].entrada)
             /\ jobs[j].entrada = Dono(j)
      /\ "nenhum" \notin EmExecucao /\ "fila" \notin EmExecucao
      /\ \A f \in Quietas : f \notin EmExecucao
  BY DEF Inv1, Coerencia, JobsCoerentes, Disputas, EmExecucao, Quietas
<1>d. \A d \in documentos :
          /\ d.entrada \in Ids /\ d.job \in Pedidos /\ jobs[d.job].fase # "nenhum"
          /\ jobs[d.job].entrada = d.entrada /\ Existe(d.entrada)
  BY <1>j DEF Inv1, TypeOK, Documento, Artefatos, ArtefatosCoerentes
<1>1. ASSUME UNCHANGED <<jobs, documentos>>,
             \A i \in Ids : Existe(i) => entradas'[i] = entradas[i]
      PROVE  Incontestes'
  <2>1. ObraFirme'
    BY <1>1, <1>m, <1>j, <1>d DEF Incontestes, ObraFirme
  <2>2. CompletaQuieta'
    BY <1>1, <1>m, <1>j DEF Incontestes, CompletaQuieta
  <2>. QED BY <2>1, <2>2 DEF Incontestes
<1>2. CASE \/ Quieto \/ \E w \in Webhooks : Grava(w)
           \/ \E t \in Tarefas, o \in Obras : Cria(t, o)
           \/ \E r \in Resolvedores, i \in Ids : Le(r, i)
  BY <1>1, <1>2 DEF Quieto, Grava, Cria, Le, Existe
<1>3. ASSUME NEW r \in Resolvedores, Resolve(r) PROVE Incontestes'
  <2>1. /\ UNCHANGED <<jobs, documentos>> /\ alvo[r] \in Ids
        /\ entradas'[alvo[r]].status = "received"
        /\ \A k \in Ids \ {alvo[r]} : entradas'[k] = entradas[k]
    BY <1>3 DEF Resolve
  <2>2. \A i \in Ids, j \in Pedidos :
            i = alvo[r] /\ jobs[j].fase # "nenhum" /\ jobs[j].entrada = i =>
            (Disputada(i))'
    BY <1>3, ResolverDisputa
  <2>3. ObraFirme'
    BY <2>1, <2>2, <1>m, <1>j, <1>d DEF Incontestes, ObraFirme
  <2>4. CompletaQuieta'
    BY <2>1, <2>2, <1>m, <1>j DEF Incontestes, CompletaQuieta
  <2>. QED BY <2>3, <2>4 DEF Incontestes
<1>4. ASSUME NEW p \in Pedidos, NEW i \in Ids, Enfileira(p, i) PROVE Incontestes'
  <2>1. /\ UNCHANGED <<entradas, documentos, alvo>> /\ jobs[p].fase = "nenhum"
        /\ \A k \in Pedidos \ {p} : jobs'[k] = jobs[k]
        /\ jobs'[p].fase = "fila" /\ jobs'[p].entrada = i
        /\ i = Dono(p) /\ pc[p] = "gravada"
    BY <1>4 DEF Enfileira, Dono
  <2>2. ObraFirme'
    BY <2>1, <1>m, <1>j, <1>d DEF Incontestes, ObraFirme
  <2>3. entradas[i].status = "completed" => (Disputada(i))'
    <3> SUFFICES ASSUME entradas[i].status = "completed" PROVE (Disputada(i))'
      OBVIOUS
    <3>1. PICK d \in documentos : d.entrada = i
      BY DEF Artefatos, CompletaTemDocumento
    <3>2. d.job \in Pedidos /\ jobs[d.job].fase # "nenhum" /\ jobs[d.job].entrada = i
          /\ d.job # p
      BY <2>1, <3>1, <1>d
    <3>3. CASE p \in Resolvedores
      BY <1>4, <2>1, <3>2, <3>3, ResolverDisputa DEF Dono
    <3>4. CASE p \notin Resolvedores
      <4>1. p \in Ids /\ i = p
        BY <2>1, <3>4 DEF Dono
      <4>2. d.job \in Resolvedores /\ alvo[d.job] = p /\ pc[d.job] = "respondida"
        BY <4>1, <3>2, <1>j DEF Dono
      <4>3. NasceuPendente(p)
        BY <4>2 DEF Disputas
      <4>. QED BY <2>1, <4>3 DEF NasceuPendente
    <3>. QED BY <3>3, <3>4
  <2>4. CompletaQuieta'
    BY <2>1, <2>3, <1>m, <1>j DEF Incontestes, CompletaQuieta
  <2>. QED BY <2>2, <2>4 DEF Incontestes
<1>5. ASSUME NEW j \in Pedidos, Inicia(j) PROVE Incontestes'
  <2>1. /\ MesmoJob(j) /\ Escreve(jobs[j].entrada, "processing")
        /\ jobs'[j].obra = entradas[jobs[j].entrada].obra /\ documentos' = documentos
    BY <1>5 DEF Inicia
  <2>2. ObraFirme'
    BY <2>1, <1>m, <1>j, <1>d DEF MesmoJob, Escreve, Incontestes, ObraFirme
  <2>3. CompletaQuieta'
    BY <2>1, <1>m, <1>j DEF MesmoJob, Escreve, Incontestes, CompletaQuieta
  <2>. QED BY <2>2, <2>3 DEF Incontestes
<1>6. ASSUME NEW j \in Pedidos, Anda(j) PROVE Incontestes'
  <2>1. /\ MesmoJob(j) /\ UNCHANGED <<entradas, documentos>>
        /\ jobs'[j].fase \in EmExecucao =>
               jobs[j].fase \in EmExecucao /\ jobs'[j].obra = jobs[j].obra
        /\ jobs[j].fase \in Quietas =>
               \/ jobs'[j].fase \in Quietas
               \/ jobs'[j].fase = "fila" /\ jobs'[j].tentativa > 1
        /\ jobs[j].fase = "fila" => jobs'[j].fase \in Quietas
    BY <1>6 DEF Anda, Quietas
  <2>2. ObraFirme'
    BY <2>1, <1>m, <1>j, <1>d DEF MesmoJob, Incontestes, ObraFirme
  <2>3. CompletaQuieta'
    BY <2>1, <1>m, <1>j DEF MesmoJob, Incontestes, CompletaQuieta
  <2>. QED BY <2>2, <2>3 DEF Incontestes
<1>7. ASSUME NEW j \in Pedidos, Conclui(j) PROVE Incontestes'
  <2>1. /\ MesmoJob(j) /\ Escreve(jobs[j].entrada, "completed")
        /\ jobs[j].fase \in EmExecucao /\ jobs'[j].fase = "concluida"
        /\ documentos' = documentos \cup NovosDocumentos(j)
    BY <1>7 DEF Conclui, EmExecucao
  <2>2. \A k \in Pedidos : k # j /\ jobs[k].fase # "nenhum"
                           /\ jobs[k].entrada = jobs[j].entrada =>
            (Disputada(jobs[j].entrada))'
    BY <1>m, <1>j, <2>1, UmJobLema DEF MesmoJob
  <2>3. \A n \in NovosDocumentos(j) : n.entrada = jobs[j].entrada /\ n.obra = jobs[j].obra
    BY DEF NovosDocumentos, EntradaDe
  <2>4. "concluida" \in Quietas /\ "concluida" \notin EmExecucao
    BY <1>j DEF Quietas
  <2>5. \A d \in documentos' : ~(Disputada(d.entrada))' => d.obra = entradas'[d.entrada].obra
    BY <2>1, <2>3, <1>m, <1>d, <1>j DEF MesmoJob, Escreve, Incontestes, ObraFirme
  <2>6. ObraFirme'
    BY <2>1, <2>4, <2>5, <1>m, <1>j DEF MesmoJob, Escreve, Incontestes, ObraFirme
  <2>7. CompletaQuieta'
    BY <2>1, <2>2, <2>4, <1>m, <1>j DEF MesmoJob, Escreve, Incontestes, CompletaQuieta
  <2>. QED BY <2>6, <2>7 DEF Incontestes
<1>8. ASSUME NEW j \in Pedidos, Falha(j) PROVE Incontestes'
  <2>1. /\ MesmoJob(j) /\ Escreve(jobs[j].entrada, "failed")
        /\ jobs'[j].fase = "falhou" /\ documentos' = documentos
    BY <1>8 DEF Falha
  <2>2. "falhou" \notin EmExecucao
    BY DEF EmExecucao
  <2>3. ObraFirme'
    BY <2>1, <2>2, <1>m, <1>j, <1>d DEF MesmoJob, Escreve, Incontestes, ObraFirme
  <2>4. CompletaQuieta'
    BY <2>1, <1>m, <1>j DEF MesmoJob, Escreve, Incontestes, CompletaQuieta
  <2>. QED BY <2>3, <2>4 DEF Incontestes
<1>. QED BY <1>2, <1>3, <1>4, <1>5, <1>6, <1>7, <1>8, PassosLema

(* It holds in every reachable state.                                      *)
LEMMA IncontestesSempre == Spec => []Incontestes
<1>1. Init => Incontestes
  BY DEF Init, Incontestes, ObraFirme, CompletaQuieta, SemJob, EmExecucao
<1>2. Inv1 /\ Disputas /\ Artefatos /\ Incontestes /\ [Next]_vars => Incontestes'
  BY PassoIncontestes
<1>. QED
  BY <1>1, <1>2, Inv1Sempre, DisputasSempre, ArtefatosSempre, PTL DEF Spec

(* Unless two resolvers raced for it, an entrada is filed once, under its  *)
(* obra, through redeliveries, retries, crashes and a slow resolver.       *)
THEOREM SemDisputaUmSo == Spec => []SemDisputaUmDocumento
<1>1. Inv1 /\ Disputas /\ Artefatos /\ Incontestes => SemDisputaUmDocumento
  <2> SUFFICES ASSUME Inv1, Disputas, Artefatos, Incontestes,
                      NEW d \in documentos, ~Disputada(d.entrada)
               PROVE  /\ d.obra = entradas[d.entrada].obra
                      /\ \A f \in documentos : f.entrada = d.entrada => f = d
    BY DEF SemDisputaUmDocumento
  <2>1. \A f \in documentos : /\ f.job \in Pedidos /\ jobs[f.job].fase # "nenhum"
                              /\ jobs[f.job].entrada = f.entrada
    BY DEF Inv1, TypeOK, Documento, Artefatos, ArtefatosCoerentes
  <2>2. \A f \in documentos : f.entrada = d.entrada => f.job = d.job
    BY <2>1, UmJobLema
  <2>. QED
    BY <2>2 DEF Incontestes, ObraFirme, Artefatos, UmDocumentoPorJob
<1>. QED
  BY <1>1, Inv1Sempre, DisputasSempre, ArtefatosSempre, IncontestesSempre, PTL

(* A completed entrada nobody disputed is only ever reopened by the retry  *)
(* of the job that completed it: never by a resolver, a second delivery or *)
(* a late failure.                                                         *)
THEOREM CompletaSoReabre == Spec => CompletaSoReabrePorRetentativa
<1> DEFINE Passo ==
      \A i \in Ids :
          entradas[i].status = "completed" /\ ~Disputada(i)'
              /\ entradas'[i].status # "completed" =>
          /\ entradas'[i].status = "processing"
          /\ \E j \in Pedidos : jobs[j].entrada = i /\ jobs[j].tentativa > 1
                               /\ jobs'[j].fase = "iniciado"
<1>1. Inv1 /\ Disputas /\ Artefatos /\ Incontestes /\ [Next]_vars => Passo
  <2> SUFFICES ASSUME Inv1, Disputas, Artefatos, Incontestes, [Next]_vars,
                      NEW i \in Ids, entradas[i].status = "completed",
                      ~(Disputada(i))', entradas'[i].status # "completed"
               PROVE  /\ entradas'[i].status = "processing"
                      /\ \E j \in Pedidos : jobs[j].entrada = i /\ jobs[j].tentativa > 1
                                           /\ jobs'[j].fase = "iniciado"
    OBVIOUS
  <2>m. ~Disputada(i)
    BY DisputasCrescem, DisputasLema
  <2>1. CASE \/ Quieto \/ \E w \in Webhooks : Grava(w)
             \/ \E t \in Tarefas, o \in Obras : Cria(t, o)
             \/ \E r \in Resolvedores, k \in Ids : Le(r, k)
             \/ \E p \in Pedidos, k \in Ids : Enfileira(p, k)
             \/ \E j \in Pedidos : Anda(j)
    BY <2>1 DEF Quieto, Grava, Cria, Le, Enfileira, Anda, Existe
  <2>2. ASSUME NEW r \in Resolvedores, Resolve(r) PROVE FALSE
    <3>1. i = alvo[r]
      BY <2>2 DEF Resolve
    <3>2. PICK d \in documentos : d.entrada = i
      BY DEF Artefatos, CompletaTemDocumento
    <3>3. d.job \in Pedidos /\ jobs[d.job].fase # "nenhum" /\ jobs[d.job].entrada = i
      BY <3>2 DEF Inv1, TypeOK, Documento, Artefatos, ArtefatosCoerentes
    <3>. QED BY <2>2, <3>1, <3>3, ResolverDisputa
  <2>3. ASSUME NEW j \in Pedidos, Conclui(j) \/ Falha(j) PROVE FALSE
    <3>1. MesmoJob(j) /\ jobs[j].entrada = i /\ Falha(j)
      BY <2>3 DEF Conclui, Falha, Escreve
    <3>2. jobs[j].fase = "erro"
      BY <3>1 DEF Falha
    <3>. QED BY <2>m, <3>1, <3>2 DEF MesmoJob, Incontestes, CompletaQuieta, Quietas
  <2>4. ASSUME NEW j \in Pedidos, Inicia(j)
        PROVE  /\ entradas'[i].status = "processing"
               /\ jobs[j].entrada = i /\ jobs[j].tentativa > 1
               /\ jobs'[j].fase = "iniciado"
    <3>1. MesmoJob(j) /\ jobs[j].entrada = i /\ jobs[j].fase = "fila"
      BY <2>4 DEF Inicia, Escreve
    <3>2. jobs[j].tentativa > 1
      BY <2>m, <3>1 DEF MesmoJob, Incontestes, CompletaQuieta, Quietas
    <3>. QED BY <2>4, <3>1, <3>2 DEF Inicia, Escreve
  <2>. QED BY <2>1, <2>2, <2>3, <2>4, PassosLema
<1>. HIDE DEF Passo
<1>2. [][Passo]_vars => CompletaSoReabrePorRetentativa
  BY PTL DEF CompletaSoReabrePorRetentativa, Passo
<1>. QED
  BY <1>1, <1>2, Inv1Sempre, DisputasSempre, ArtefatosSempre, IncontestesSempre, PTL
     DEF Spec

-----------------------------------------------------------------------------
(* The refinement of Classificacao                                         *)

SemDisputas == \A i \in Ids : ~Disputada(i)

Invs == /\ Inv1 /\ TarefasEmDia /\ UmaEntradaPorEvento /\ Disputas /\ Artefatos
        /\ Incontestes /\ SemDisputaUmDocumento

Arquivada(i, o) == \E d \in documentos : d.entrada = i /\ d.obra = o

(* What the abstract variables say of an item that did not arrive, and of  *)
(* one that arrived as entrada i.                                          *)
NaoChegou(x) ==
    /\ EntradasDe(x) = {} /\ aceitasBar[x] = 0 /\ obraBar[x] = Nenhum
    /\ \A o \in Obras : copiasBar[x][o] = 0

Chegou(x, i) ==
    /\ EntradasDe(x) = {i} /\ aceitasBar[x] = 1 /\ obraBar[x] = entradas[i].obra
    /\ \A o \in Obras : copiasBar[x][o] = (IF Arquivada(i, o) THEN 1 ELSE 0)

Retrato ==
    /\ aceitasBar = [x \in Itens |-> aceitasBar[x]]
    /\ obraBar = [x \in Itens |-> obraBar[x]]
    /\ copiasBar = [x \in Itens |-> [o \in Obras |-> copiasBar[x][o]]]
    /\ \A x \in Itens : NaoChegou(x) \/ \E i \in Ids : Chegou(x, i)

(* An item is at most one entrada.                                         *)
LEMMA UmPorItem ==
    ASSUME Invs, NEW x \in Itens, NEW i \in EntradasDe(x)
    PROVE  EntradasDe(x) = {i}
<1> SUFFICES ASSUME NEW k \in EntradasDe(x) PROVE k = i
  OBVIOUS
<1>1. /\ i \in Ids /\ Existe(i) /\ (i = x \/ entradas[i].evento = x)
      /\ k \in Ids /\ Existe(k) /\ (k = x \/ entradas[k].evento = x)
  BY DEF EntradasDe
<1>2. CASE x \in Eventos
  <2>1. entradas[i].evento = x /\ entradas[k].evento = x
    BY <1>1, <1>2, EventosDistintos DEF EventosDistintos
  <2>. QED BY <1>1, <1>2, <2>1 DEF Invs, UmaEntradaPorEvento
<1>3. CASE x \in Tarefas
  <2>1. x \notin Eventos /\ x # Nenhum
    BY <1>3, EventosDistintos DEF EventosDistintos
  <2>2. entradas[i].evento \in OuNenhum(Eventos) /\ entradas[k].evento \in OuNenhum(Eventos)
    BY <1>1 DEF Invs, Inv1, TypeOK, Entrada
  <2>. QED BY <1>1, <2>1, <2>2
<1>. QED BY <1>2, <1>3 DEF Itens

(* An undisputed entrada has at most one documento.                        *)
LEMMA CopiasLema ==
    ASSUME Invs, SemDisputas, NEW i \in Ids, NEW o \in Obras
    PROVE  Cardinality({d \in documentos : d.entrada \in {i} /\ d.obra = o})
           = (IF Arquivada(i, o) THEN 1 ELSE 0)
<1> DEFINE D == {d \in documentos : d.entrada \in {i} /\ d.obra = o}
<1>1. CASE ~Arquivada(i, o)
  <2>1. D = {}
    BY <1>1 DEF Arquivada
  <2>. QED BY <1>1, <2>1, FS_EmptySet
<1>2. CASE Arquivada(i, o)
  <2>1. PICK d \in documentos : d.entrada = i /\ d.obra = o
    BY <1>2 DEF Arquivada
  <2>2. \A f \in documentos : f.entrada = i => f = d
    BY <2>1 DEF Invs, SemDisputas, SemDisputaUmDocumento
  <2>3. D = {d}
    BY <2>1, <2>2
  <2>4. Cardinality({d}) = 1
    BY FS_Singleton
  <2>. QED BY <1>2, <2>3, <2>4
<1>. QED BY <1>1, <1>2

(* The abstract variables are what the rows say.                           *)
LEMMA RetratoLema == Invs /\ SemDisputas => Retrato
<1> SUFFICES ASSUME Invs, SemDisputas PROVE Retrato
  OBVIOUS
<1>1. \A x \in Itens : aceitasBar[x] = Cardinality(EntradasDe(x))
  BY DEF aceitasBar
<1>2. \A x \in Itens : obraBar[x] = IF EntradasDe(x) = {} THEN Nenhum
                                    ELSE entradas[CHOOSE i \in EntradasDe(x) : TRUE].obra
  BY DEF obraBar
<1>3. \A x \in Itens, o \in Obras : copiasBar[x][o] =
          Cardinality({d \in documentos : d.entrada \in EntradasDe(x) /\ d.obra = o})
  BY DEF copiasBar
<1>4. ASSUME NEW x \in Itens PROVE NaoChegou(x) \/ \E i \in Ids : Chegou(x, i)
  <2>1. CASE EntradasDe(x) = {}
    <3>1. aceitasBar[x] = 0 /\ obraBar[x] = Nenhum
      BY <1>1, <1>2, <2>1, FS_EmptySet
    <3>2. ASSUME NEW o \in Obras PROVE copiasBar[x][o] = 0
      <4>1. {d \in documentos : d.entrada \in EntradasDe(x) /\ d.obra = o} = {}
        BY <2>1
      <4>2. copiasBar[x][o] = Cardinality({})
        BY <1>3, <4>1
      <4>. QED BY <4>2, FS_EmptySet
    <3>. QED BY <2>1, <3>1, <3>2 DEF NaoChegou
  <2>2. CASE EntradasDe(x) # {}
    <3>1. PICK i \in EntradasDe(x) : TRUE
      BY <2>2
    <3>2. i \in Ids /\ EntradasDe(x) = {i}
      BY <3>1, UmPorItem DEF EntradasDe
    <3>3. aceitasBar[x] = 1
      <4>1. Cardinality({i}) = 1
        BY FS_Singleton
      <4>. QED BY <1>1, <3>2, <4>1
    <3>4. obraBar[x] = entradas[i].obra
      <4>1. (CHOOSE k \in {i} : TRUE) = i
        OBVIOUS
      <4>. QED BY <1>2, <2>2, <3>2, <4>1
    <3>5. ASSUME NEW o \in Obras
          PROVE  copiasBar[x][o] = (IF Arquivada(i, o) THEN 1 ELSE 0)
      <4>1. copiasBar[x][o] =
                Cardinality({d \in documentos : d.entrada \in {i} /\ d.obra = o})
        BY <1>3, <3>2
      <4>. QED BY <3>2, <4>1, CopiasLema
    <3>. QED BY <3>2, <3>3, <3>4, <3>5 DEF Chegou
  <2>. QED BY <2>1, <2>2
<1>. QED
  <2>1. aceitasBar = [x \in Itens |-> aceitasBar[x]]
    BY DEF aceitasBar
  <2>2. obraBar = [x \in Itens |-> obraBar[x]]
    BY DEF obraBar
  <2>3. copiasBar = [x \in Itens |-> [o \in Obras |-> copiasBar[x][o]]]
    BY DEF copiasBar
  <2>. QED BY <1>4, <2>1, <2>2, <2>3 DEF Retrato

(* What a step does to the item x alone, from what it does to the rows.    *)
LEMMA ItemIgual ==
    ASSUME Retrato, Retrato', NEW x \in Itens,
           (EntradasDe(x))' = EntradasDe(x),
           \A i \in EntradasDe(x) :
               /\ entradas'[i].obra = entradas[i].obra
               /\ \A o \in Obras : (Arquivada(i, o))' <=> Arquivada(i, o)
    PROVE  /\ aceitasBar'[x] = aceitasBar[x] /\ obraBar'[x] = obraBar[x]
           /\ \A o \in Obras : copiasBar'[x][o] = copiasBar[x][o]
<1>1. CASE NaoChegou(x)
  <2>1. (NaoChegou(x))'
    <3>1. ASSUME NEW i \in Ids PROVE ~(Chegou(x, i))'
      BY <1>1 DEF NaoChegou, Chegou
    <3>. QED BY <3>1 DEF Retrato
  <2>. QED BY <1>1, <2>1 DEF NaoChegou
<1>2. ASSUME NEW i \in Ids, Chegou(x, i)
      PROVE  /\ aceitasBar'[x] = aceitasBar[x] /\ obraBar'[x] = obraBar[x]
             /\ \A o \in Obras : copiasBar'[x][o] = copiasBar[x][o]
  <2>1. EntradasDe(x) = {i} /\ (EntradasDe(x))' = {i}
    BY <1>2 DEF Chegou
  <2>2. (Chegou(x, i))'
    <3>1. ~(NaoChegou(x))'
      BY <2>1 DEF NaoChegou
    <3>2. ASSUME NEW k \in Ids, (Chegou(x, k))' PROVE k = i
      BY <2>1, <3>2 DEF Chegou
    <3>. QED BY <3>1, <3>2 DEF Retrato
  <2>3. /\ entradas'[i].obra = entradas[i].obra
        /\ \A o \in Obras : (Arquivada(i, o))' <=> Arquivada(i, o)
    BY <2>1
  <2>. QED BY <1>2, <2>2, <2>3 DEF Chegou
<1>. QED BY <1>1, <1>2 DEF Retrato

(* Two functions of the items that agree everywhere are equal.             *)
LEMMA NadaMuda ==
    ASSUME Retrato, Retrato',
           \A x \in Itens :
               /\ (EntradasDe(x))' = EntradasDe(x)
               /\ \A i \in EntradasDe(x) :
                      /\ entradas'[i].obra = entradas[i].obra
                      /\ \A o \in Obras : (Arquivada(i, o))' <=> Arquivada(i, o)
    PROVE  UNCHANGED <<aceitasBar, obraBar, copiasBar>>
<1>1. \A x \in Itens :
          /\ aceitasBar'[x] = aceitasBar[x] /\ obraBar'[x] = obraBar[x]
          /\ \A o \in Obras : copiasBar'[x][o] = copiasBar[x][o]
  BY ItemIgual
<1>. HIDE DEF aceitasBar, obraBar, copiasBar
<1>2. /\ aceitasBar = [x \in Itens |-> aceitasBar[x]]
      /\ aceitasBar' = [x \in Itens |-> aceitasBar'[x]]
      /\ obraBar = [x \in Itens |-> obraBar[x]]
      /\ obraBar' = [x \in Itens |-> obraBar'[x]]
      /\ copiasBar = [x \in Itens |-> [o \in Obras |-> copiasBar[x][o]]]
      /\ copiasBar' = [x \in Itens |-> [o \in Obras |-> copiasBar'[x][o]]]
  BY DEF Retrato
<1>3. aceitasBar' = aceitasBar
  BY <1>1, <1>2
<1>4. obraBar' = obraBar
  BY <1>1, <1>2
<1>5. copiasBar' = copiasBar
  BY <1>1, <1>2
<1>. QED BY <1>3, <1>4, <1>5

(* The rows of an item depend on which rows exist and on their events.     *)
LEMMA MesmasLinhas ==
    ASSUME \A i \in Ids : /\ (Existe(i))' <=> Existe(i)
                          /\ entradas'[i].evento = entradas[i].evento
    PROVE  \A x \in Itens : (EntradasDe(x))' = EntradasDe(x)
BY DEF EntradasDe

(* A commit of the API that creates entrada i of item x, with obra o or    *)
(* none, is the arrival of x.                                              *)
LEMMA ChegadaLema ==
    ASSUME Retrato, Retrato', Invs, NEW x \in Itens, NEW i \in Ids,
           NEW o \in OuNenhum(Obras),
           EntradasDe(x) = {}, (EntradasDe(x))' = {i},
           \A y \in Itens \ {x} : (EntradasDe(y))' = EntradasDe(y),
           ~Existe(i), entradas'[i].obra = o,
           \A k \in Ids \ {i} : entradas'[k] = entradas[k],
           documentos' = documentos
    PROVE  Abstrata!Aceitar(x, o)
<1>1. \A k \in Ids, p \in Obras : (Arquivada(k, p))' <=> Arquivada(k, p)
  BY DEF Arquivada
<1>2. \A p \in Obras : ~(Arquivada(i, p))'
  BY DEF Arquivada, Invs, Inv1, TypeOK, Documento, Artefatos, ArtefatosCoerentes, Coerencia,
     JobsCoerentes
<1>3. aceitasBar[x] = 0 /\ \A p \in Obras : copiasBar[x][p] = 0
  <2>1. \A k \in Ids : ~Chegou(x, k)
    BY DEF Chegou
  <2>. QED BY <2>1 DEF Retrato, NaoChegou
<1>4. aceitasBar'[x] = 1 /\ obraBar'[x] = o /\ \A p \in Obras : copiasBar'[x][p] = 0
  <2>1. (Chegou(x, i))'
    <3>1. ~(NaoChegou(x))'
      BY DEF NaoChegou
    <3>2. ASSUME NEW k \in Ids, (Chegou(x, k))' PROVE k = i
      BY <3>2 DEF Chegou
    <3>. QED BY <3>1, <3>2 DEF Retrato
  <2>. QED BY <1>2, <2>1 DEF Chegou
<1>5. \A y \in Itens \ {x} :
          /\ aceitasBar'[y] = aceitasBar[y] /\ obraBar'[y] = obraBar[y]
          /\ \A p \in Obras : copiasBar'[y][p] = copiasBar[y][p]
  <2> SUFFICES ASSUME NEW y \in Itens \ {x}
               PROVE  /\ aceitasBar'[y] = aceitasBar[y] /\ obraBar'[y] = obraBar[y]
                      /\ \A p \in Obras : copiasBar'[y][p] = copiasBar[y][p]
    OBVIOUS
  <2>1. \A k \in EntradasDe(y) : k \in Ids /\ k # i
    BY DEF EntradasDe
  <2>. QED BY <1>1, <2>1, ItemIgual
<1>. HIDE DEF aceitasBar, obraBar, copiasBar
<1>6. /\ aceitasBar = [y \in Itens |-> aceitasBar[y]]
      /\ aceitasBar' = [y \in Itens |-> aceitasBar'[y]]
      /\ obraBar = [y \in Itens |-> obraBar[y]]
      /\ obraBar' = [y \in Itens |-> obraBar'[y]]
      /\ copiasBar = [y \in Itens |-> [p \in Obras |-> copiasBar[y][p]]]
      /\ copiasBar' = [y \in Itens |-> [p \in Obras |-> copiasBar'[y][p]]]
  BY DEF Retrato
<1>7. aceitasBar' = [aceitasBar EXCEPT ![x] = 1]
  BY <1>4, <1>5, <1>6
<1>8. obraBar' = [obraBar EXCEPT ![x] = o]
  BY <1>4, <1>5, <1>6
<1>9. copiasBar' = copiasBar
  <2>1. \A y \in Itens, p \in Obras : copiasBar'[y][p] = copiasBar[y][p]
    BY <1>3, <1>4, <1>5
  <2>. QED BY <1>6, <2>1
<1>. QED BY <1>3, <1>7, <1>8, <1>9 DEF Abstrata!Aceitar

(* A committed entrada is of exactly one item.                             *)
LEMMA ItemDaEntrada ==
    ASSUME Invs, NEW i \in Ids, Existe(i)
    PROVE  \E x \in Itens : /\ i \in EntradasDe(x)
                            /\ \A y \in Itens : i \in EntradasDe(y) => y = x
<1>1. CASE i \in Tarefas
  <2>1. entradas[i].evento = Nenhum /\ i \in Itens /\ Nenhum \notin Itens
    BY <1>1 DEF Invs, TarefasEmDia, Itens
  <2>. QED BY <2>1 DEF EntradasDe
<1>2. CASE i \in Webhooks
  <2>1. /\ entradas[i].evento \in Eventos /\ entradas[i].evento \in Itens
        /\ i \notin Itens
    BY <1>2, EventosDistintos
       DEF EventosDistintos, Invs, Inv1, Coerencia, PedidosCoerentes, CommitCoerente, Itens
  <2>. QED BY <2>1 DEF EntradasDe
<1>. QED BY <1>1, <1>2

(* A resolver that commits undisputed confirms the obra of its item.       *)
LEMMA ConfirmacaoLema ==
    ASSUME Retrato, Retrato', Invs, SemDisputas', [Next]_vars,
           NEW r \in Resolvedores, Resolve(r)
    PROVE  \E x \in Itens, o \in Obras : Abstrata!Confirmar(x, o)
<1>1. PICK i \in Ids : i = alvo[r]
  BY DEF Resolve
<1>2. PICK o \in Obras : o = pedida[r]
  BY DEF Resolve
<1>3. /\ Existe(i) /\ pc[r] = "lida" /\ pc'[r] = "gravada" /\ alvo' = alvo
      /\ entradas'[i].obra = o /\ documentos' = documentos
      /\ \A k \in Ids \ {i} : entradas'[k] = entradas[k]
      /\ entradas'[i].status = "received" /\ entradas'[i].evento = entradas[i].evento
  BY <1>1, <1>2 DEF Resolve
<1>4. entradas[i].status = "pending_obra"
  <2> SUFFICES ASSUME NEW s \in Resolvedores, Resolveu(s, i) PROVE FALSE
    BY <1>1, <1>3 DEF Invs, Disputas
  <2>1. (Resolveu(s, i))' /\ s # r
    BY <1>3, DisputasCrescem, DisputasLema DEF Resolveu, Invs
  <2>2. (Resolveu(r, i))'
    BY <1>1, <1>3 DEF Resolveu
  <2>. QED BY <2>1, <2>2 DEF Disputada, SemDisputas
<1>5. entradas[i].obra = Nenhum
  BY <1>3, <1>4 DEF Invs, Inv1, Coerencia, EntradasCoerentes
<1>6. PICK x \in Itens : /\ i \in EntradasDe(x)
                         /\ \A y \in Itens : i \in EntradasDe(y) => y = x
  BY <1>3, ItemDaEntrada
<1>7. \A y \in Itens : (EntradasDe(y))' = EntradasDe(y)
  BY <1>3, MesmasLinhas DEF Existe
<1>8. \A k \in Ids, p \in Obras : (Arquivada(k, p))' <=> Arquivada(k, p)
  BY <1>3 DEF Arquivada
<1>9. EntradasDe(x) = {i}
  BY <1>6, UmPorItem
<1>10. Chegou(x, i) /\ (Chegou(x, i))'
  <2>1. ~NaoChegou(x) /\ ~(NaoChegou(x))'
    BY <1>7, <1>9 DEF NaoChegou
  <2>2. \A k \in Ids : (Chegou(x, k) => k = i) /\ ((Chegou(x, k))' => k = i)
    BY <1>7, <1>9 DEF Chegou
  <2>. QED BY <2>1, <2>2 DEF Retrato
<1>11. /\ aceitasBar[x] = 1 /\ obraBar[x] = Nenhum
       /\ aceitasBar'[x] = 1 /\ obraBar'[x] = o
       /\ \A p \in Obras : copiasBar'[x][p] = copiasBar[x][p]
  BY <1>3, <1>5, <1>8, <1>10 DEF Chegou
<1>12. \A y \in Itens \ {x} :
          /\ aceitasBar'[y] = aceitasBar[y] /\ obraBar'[y] = obraBar[y]
          /\ \A p \in Obras : copiasBar'[y][p] = copiasBar[y][p]
  <2> SUFFICES ASSUME NEW y \in Itens \ {x}
               PROVE  /\ aceitasBar'[y] = aceitasBar[y] /\ obraBar'[y] = obraBar[y]
                      /\ \A p \in Obras : copiasBar'[y][p] = copiasBar[y][p]
    OBVIOUS
  <2>1. \A k \in EntradasDe(y) : k \in Ids \ {i}
    BY <1>6 DEF EntradasDe
  <2>. QED BY <1>3, <1>7, <1>8, <2>1, ItemIgual
<1>. HIDE DEF aceitasBar, obraBar, copiasBar
<1>13. /\ aceitasBar = [y \in Itens |-> aceitasBar[y]]
       /\ aceitasBar' = [y \in Itens |-> aceitasBar'[y]]
       /\ obraBar = [y \in Itens |-> obraBar[y]]
       /\ obraBar' = [y \in Itens |-> obraBar'[y]]
       /\ copiasBar = [y \in Itens |-> [p \in Obras |-> copiasBar[y][p]]]
       /\ copiasBar' = [y \in Itens |-> [p \in Obras |-> copiasBar'[y][p]]]
  BY DEF Retrato
<1>14. aceitasBar' = aceitasBar
  <2>1. \A y \in Itens : aceitasBar'[y] = aceitasBar[y]
    BY <1>11, <1>12
  <2>. QED BY <1>13, <2>1
<1>15. obraBar' = [obraBar EXCEPT ![x] = o]
  BY <1>11, <1>12, <1>13
<1>16. copiasBar' = copiasBar
  <2>1. \A y \in Itens, p \in Obras : copiasBar'[y][p] = copiasBar[y][p]
    BY <1>11, <1>12
  <2>. QED BY <1>13, <2>1
<1>. QED
  <2>1. Abstrata!Confirmar(x, o)
    BY <1>11, <1>14, <1>15, <1>16 DEF Abstrata!Confirmar
  <2>. QED BY <2>1

(* The commit of a job that has classified an undisputed entrada files its *)
(* item; the commit of resumed work changes nothing.                       *)
LEMMA ArquivamentoLema ==
    ASSUME Retrato, Retrato', Invs, SemDisputas, NEW j \in Pedidos, Conclui(j)
    PROVE  \/ \E x \in Itens : Abstrata!Arquivar(x)
           \/ UNCHANGED <<aceitasBar, obraBar, copiasBar>>
<1>1. PICK i \in Ids : i = jobs[j].entrada
  BY DEF Conclui, MesmoJob
<1>2. /\ Existe(i) /\ entradas[i].obra \in Obras /\ jobs[j].fase # "nenhum"
      /\ entradas'[i].status = "completed" /\ entradas'[i].obra = entradas[i].obra
      /\ entradas'[i].evento = entradas[i].evento
      /\ \A k \in Ids \ {i} : entradas'[k] = entradas[k]
      /\ jobs[j].fase \in {"guardado", "pronto"}
      /\ documentos' = documentos \cup NovosDocumentos(j)
  BY <1>1 DEF Conclui, MesmoJob, Escreve
<1>3. \A y \in Itens : (EntradasDe(y))' = EntradasDe(y)
  BY <1>2, MesmasLinhas DEF Existe
<1>4. \A k \in Ids : entradas'[k].obra = entradas[k].obra
  BY <1>2
<1>5. CASE jobs[j].fase = "pronto"
  <2>1. documentos' = documentos
    BY <1>2, <1>5 DEF NovosDocumentos
  <2>2. \A k \in Ids, o \in Obras : (Arquivada(k, o))' <=> Arquivada(k, o)
    BY <2>1 DEF Arquivada
  <2>3. \A x \in Itens : EntradasDe(x) \subseteq Ids
    BY DEF EntradasDe
  <2>4. UNCHANGED <<aceitasBar, obraBar, copiasBar>>
    BY <1>3, <1>4, <2>2, <2>3, NadaMuda
  <2>. QED BY <2>4
<1>6. CASE jobs[j].fase = "guardado"
  <2>1. PICK x \in Itens : /\ i \in EntradasDe(x)
                           /\ \A y \in Itens : i \in EntradasDe(y) => y = x
    BY <1>2, ItemDaEntrada
  <2>2. EntradasDe(x) = {i}
    BY <2>1, UmPorItem
  <2>3. PICK o \in Obras : o = entradas[i].obra
    BY <1>2
  <2>4. jobs[j].obra = o
    BY <1>1, <1>6, <2>3 DEF Invs, SemDisputas, Incontestes, ObraFirme, EmExecucao
  <2>5. \A d \in documentos : d.entrada # i
    <3> SUFFICES ASSUME NEW d \in documentos, d.entrada = i PROVE FALSE
      OBVIOUS
    <3>1. /\ d.job \in Pedidos /\ jobs[d.job].entrada = i
          /\ jobs[d.job].fase \notin {"nenhum", "guardado"}
      BY DEF Invs, Inv1, TypeOK, Documento, Artefatos, ArtefatosCoerentes
    <3>2. d.job = j
      BY <1>1, <1>2, <3>1, UmJobLema DEF Invs, SemDisputas
    <3>. QED BY <1>6, <3>1, <3>2
  <2>6. \E n \in NovosDocumentos(j) : n.entrada = i /\ n.obra = o
    BY <1>1, <1>6, <2>4 DEF NovosDocumentos, EntradaDe
  <2>7. \A n \in NovosDocumentos(j) : n.entrada = i /\ n.obra = o
    BY <1>1, <1>6, <2>4 DEF NovosDocumentos, EntradaDe
  <2>8. \A p \in Obras : ~Arquivada(i, p) /\ ((Arquivada(i, p))' <=> p = o)
    BY <1>2, <2>5, <2>6, <2>7 DEF Arquivada
  <2>9. \A k \in Ids \ {i}, p \in Obras : (Arquivada(k, p))' <=> Arquivada(k, p)
    BY <1>2, <2>7 DEF Arquivada
  <2>10. Chegou(x, i) /\ (Chegou(x, i))'
    <3>1. ~NaoChegou(x) /\ ~(NaoChegou(x))'
      BY <1>3, <2>2 DEF NaoChegou
    <3>2. \A k \in Ids : (Chegou(x, k) => k = i) /\ ((Chegou(x, k))' => k = i)
      BY <1>3, <2>2 DEF Chegou
    <3>. QED BY <3>1, <3>2 DEF Retrato
  <2>11. /\ obraBar[x] = o /\ obraBar'[x] = o
         /\ aceitasBar'[x] = aceitasBar[x]
         /\ \A p \in Obras : copiasBar[x][p] = 0
         /\ \A p \in Obras : copiasBar'[x][p] = (IF p = o THEN 1 ELSE 0)
    BY <1>2, <2>3, <2>8, <2>10 DEF Chegou
  <2>12. \A y \in Itens \ {x} :
            /\ aceitasBar'[y] = aceitasBar[y] /\ obraBar'[y] = obraBar[y]
            /\ \A p \in Obras : copiasBar'[y][p] = copiasBar[y][p]
    <3> SUFFICES ASSUME NEW y \in Itens \ {x}
                 PROVE  /\ aceitasBar'[y] = aceitasBar[y] /\ obraBar'[y] = obraBar[y]
                        /\ \A p \in Obras : copiasBar'[y][p] = copiasBar[y][p]
      OBVIOUS
    <3>1. \A k \in EntradasDe(y) : k \in Ids \ {i}
      BY <2>1 DEF EntradasDe
    <3>. QED BY <1>3, <1>4, <2>9, <3>1, ItemIgual
  <2>. HIDE DEF aceitasBar, obraBar, copiasBar
  <2>13. /\ aceitasBar = [y \in Itens |-> aceitasBar[y]]
         /\ aceitasBar' = [y \in Itens |-> aceitasBar'[y]]
         /\ obraBar = [y \in Itens |-> obraBar[y]]
         /\ obraBar' = [y \in Itens |-> obraBar'[y]]
         /\ copiasBar = [y \in Itens |-> [p \in Obras |-> copiasBar[y][p]]]
         /\ copiasBar' = [y \in Itens |-> [p \in Obras |-> copiasBar'[y][p]]]
    BY DEF Retrato
  <2>14. aceitasBar' = aceitasBar
    <3>1. \A y \in Itens : aceitasBar'[y] = aceitasBar[y]
      BY <2>11, <2>12
    <3>. QED BY <2>13, <3>1
  <2>15. obraBar' = obraBar
    <3>1. \A y \in Itens : obraBar'[y] = obraBar[y]
      BY <2>11, <2>12
    <3>. QED BY <2>13, <3>1
  <2>16. copiasBar' = [copiasBar EXCEPT ![x][obraBar[x]] = 1]
    <3>1. [copiasBar EXCEPT ![x][o] = 1] = [copiasBar EXCEPT ![x] = [copiasBar[x] EXCEPT ![o] = 1]]
      OBVIOUS
    <3>2. copiasBar[x] = [p \in Obras |-> copiasBar[x][p]]
      BY <2>13
    <3>3. copiasBar'[x] = [p \in Obras |-> copiasBar'[x][p]]
      BY <2>13
    <3>4. [copiasBar[x] EXCEPT ![o] = 1] = copiasBar'[x]
      BY <2>11, <3>2, <3>3
    <3>5. \A y \in Itens \ {x} : copiasBar'[y] = copiasBar[y]
      BY <2>12, <2>13
    <3>6. copiasBar' = [copiasBar EXCEPT ![x] = copiasBar'[x]]
      BY <2>13, <3>5
    <3>. QED BY <2>11, <3>1, <3>4, <3>6
  <2>17. Abstrata!Arquivar(x)
    BY <2>11, <2>14, <2>15, <2>16 DEF Abstrata!Arquivar
  <2>. QED BY <2>17
<1>. QED BY <1>2, <1>5, <1>6

(* Every undisputed step is a step of Classificacao or changes none of its *)
(* variables.                                                              *)
LEMMA PassoClassificacao ==
    ASSUME Retrato, Retrato', Invs, SemDisputas, SemDisputas', [Next]_vars
    PROVE  [Abstrata!Next]_(Abstrata!vars)
<1> USE DEF Abstrata!vars
<1>s. \A x \in Itens : EntradasDe(x) \subseteq Ids
  BY DEF EntradasDe
<1>1. CASE \/ Quieto \/ \E r \in Resolvedores, i \in Ids : Le(r, i)
           \/ \E p \in Pedidos, i \in Ids : Enfileira(p, i)
           \/ \E j \in Pedidos : Anda(j)
  <2>1. UNCHANGED <<entradas, documentos>>
    BY <1>1 DEF Quieto, Le, Enfileira, Anda
  <2>2. \A x \in Itens : (EntradasDe(x))' = EntradasDe(x)
    BY <2>1, MesmasLinhas DEF Existe
  <2>3. \A k \in Ids, o \in Obras : (Arquivada(k, o))' <=> Arquivada(k, o)
    BY <2>1 DEF Arquivada
  <2>. QED BY <1>s, <2>1, <2>2, <2>3, NadaMuda
<1>2. ASSUME NEW w \in Webhooks, Grava(w) PROVE Abstrata!Next
  <2>1. PICK x \in Eventos : x = evento[w]
    BY <1>2 DEF Grava
  <2>2. PICK o \in OuNenhum(Obras) : o = resolvida[w]
    BY DEF Invs, Inv1, TypeOK
  <2>3. /\ ~Existe(w) /\ \A i \in Ids : Existe(i) => entradas[i].evento # x
        /\ (Existe(w))' /\ entradas'[w].evento = x /\ entradas'[w].obra = o
        /\ \A k \in Ids \ {w} : entradas'[k] = entradas[k]
        /\ documentos' = documentos
    BY <1>2, <2>1, <2>2 DEF Grava, Existe
  <2>4. x \in Itens /\ w \notin Itens /\ x \notin Ids
    BY <1>2, <2>1, EventosDistintos DEF EventosDistintos, Itens
  <2>5. EntradasDe(x) = {} /\ (EntradasDe(x))' = {w}
    BY <1>2, <2>3, <2>4 DEF EntradasDe, Existe
  <2>6. \A y \in Itens \ {x} : (EntradasDe(y))' = EntradasDe(y)
    BY <1>2, <2>3, <2>4 DEF EntradasDe, Existe
  <2>7. Abstrata!Aceitar(x, o)
    BY <1>2, <2>3, <2>4, <2>5, <2>6, ChegadaLema
  <2>. QED BY <2>4, <2>7 DEF Abstrata!Next
<1>3. ASSUME NEW t \in Tarefas, NEW o \in Obras, Cria(t, o) PROVE Abstrata!Next
  <2>1. /\ ~Existe(t) /\ (Existe(t))' /\ entradas'[t].evento = Nenhum
        /\ entradas'[t].obra = o /\ documentos' = documentos
        /\ \A k \in Ids \ {t} : entradas'[k] = entradas[k]
    BY <1>3 DEF Cria, Existe
  <2>2. t \in Itens /\ t \notin Eventos /\ Nenhum \notin Itens
    BY <1>3, EventosDistintos DEF EventosDistintos, Itens
  <2>3. \A i \in Ids : entradas[i].evento # t
    BY <2>2 DEF Invs, Inv1, TypeOK, Entrada
  <2>4. EntradasDe(t) = {} /\ (EntradasDe(t))' = {t}
    BY <1>3, <2>1, <2>2, <2>3 DEF EntradasDe, Existe
  <2>5. \A y \in Itens \ {t} : (EntradasDe(y))' = EntradasDe(y)
    BY <1>3, <2>1, <2>2 DEF EntradasDe, Existe
  <2>6. Abstrata!Aceitar(t, o)
    BY <1>3, <2>1, <2>2, <2>4, <2>5, ChegadaLema
  <2>. QED BY <2>2, <2>6 DEF Abstrata!Next
<1>4. ASSUME NEW r \in Resolvedores, Resolve(r) PROVE Abstrata!Next
  BY <1>4, ConfirmacaoLema DEF Abstrata!Next
<1>5. ASSUME NEW j \in Pedidos, Conclui(j) PROVE [Abstrata!Next]_(Abstrata!vars)
  BY <1>5, ArquivamentoLema DEF Abstrata!Next
<1>6. ASSUME NEW j \in Pedidos, Inicia(j) \/ Falha(j)
      PROVE  UNCHANGED <<aceitasBar, obraBar, copiasBar>>
  <2>1. /\ documentos' = documentos /\ Existe(jobs[j].entrada)
        /\ Escreve(jobs[j].entrada, IF Inicia(j) THEN "processing" ELSE "failed")
    BY <1>6 DEF Inicia, Falha, MesmoJob
  <2>2. \A i \in Ids : /\ (Existe(i))' <=> Existe(i)
                       /\ entradas'[i].evento = entradas[i].evento
                       /\ entradas'[i].obra = entradas[i].obra
    BY <2>1 DEF Escreve, Existe
  <2>3. \A x \in Itens : (EntradasDe(x))' = EntradasDe(x)
    BY <2>2, MesmasLinhas
  <2>4. \A k \in Ids, o \in Obras : (Arquivada(k, o))' <=> Arquivada(k, o)
    BY <2>1 DEF Arquivada
  <2>. QED BY <1>s, <2>2, <2>3, <2>4, NadaMuda
<1>. QED
  BY <1>1, <1>2, <1>3, <1>4, <1>5, <1>6, PassosLema DEF Invs

(* The invariants together.                                                *)
LEMMA InvsSempre == Spec => []Invs
BY Inv1Sempre, TarefasEmDiaSempre, UmaEntrada, DisputasSempre, ArtefatosSempre,
   IncontestesSempre, SemDisputaUmSo, PTL DEF Invs

(* On every behaviour in which no two resolvers race for an entrada, each  *)
(* event and each task is accepted at most once, is given one obra once    *)
(* and is filed at most once under it: through redeliveries with other     *)
(* scopes, deaths anywhere, and retries of committed work.                 *)
THEOREM ImplementaSemDisputa ==
    Spec /\ []SemDisputas => ImplementaClassificacao
<1>1. Init => Abstrata!Init
  <2> SUFFICES ASSUME Init PROVE Abstrata!Init
    OBVIOUS
  <2>1. \A x \in Itens : EntradasDe(x) = {}
    BY DEF Init, EntradasDe, Existe, SemEntrada
  <2>2. documentos = {}
    BY DEF Init
  <2>3. Cardinality({}) = 0
    BY FS_EmptySet
  <2>4. aceitasBar = [x \in Itens |-> 0]
    BY <2>1, <2>3 DEF aceitasBar
  <2>5. obraBar = [x \in Itens |-> Nenhum]
    BY <2>1 DEF obraBar
  <2>6. \A x \in Itens, o \in Obras :
            Cardinality({d \in documentos : d.entrada \in EntradasDe(x) /\ d.obra = o}) = 0
    <3>1. \A x \in Itens, o \in Obras :
              {d \in documentos : d.entrada \in EntradasDe(x) /\ d.obra = o} = {}
      BY <2>2
    <3>. QED BY <2>3, <3>1
  <2>7. copiasBar = [x \in Itens |-> [o \in Obras |-> 0]]
    BY <2>6 DEF copiasBar
  <2>. QED BY <2>4, <2>5, <2>7 DEF Abstrata!Init
<1>2. /\ Invs /\ SemDisputas /\ Invs' /\ SemDisputas' /\ Retrato /\ Retrato' /\ [Next]_vars
      => [Abstrata!Next]_(Abstrata!vars)
  BY PassoClassificacao
<1>. HIDE DEF Invs, SemDisputas, Retrato
<1>. QED
  BY <1>1, <1>2, InvsSempre, RetratoLema, PTL
     DEF Spec, ImplementaClassificacao, Abstrata!Spec

(* With one resolver at a time there is nothing to dispute.                *)
THEOREM ImplementaComUmResolvedor ==
    ASSUME \A r, s \in Resolvedores : r = s
    PROVE  Spec => ImplementaClassificacao
<1>1. SemDisputas
  BY DEF SemDisputas, Disputada
<1>. QED
  BY <1>1, ImplementaSemDisputa, PTL

=============================================================================
