------------------------------ MODULE Entradas ------------------------------
(***************************************************************************)
(* The ingestion pipeline: API requests and RQ jobs over one database.     *)
(***************************************************************************)
EXTENDS Ingestao, Worker

Init ==
    /\ cadastro = {}
    /\ contexto = Nenhum
    /\ pc = [p \in Pedidos |-> "livre"]
    /\ evento = [w \in Webhooks |-> Nenhum]
    /\ pedida = [p \in Pedidos |-> Nenhum]
    /\ resolvida = [w \in Webhooks |-> Nenhum]
    /\ alvo = [r \in Resolvedores |-> Nenhum]
    /\ resposta = [w \in Webhooks |-> [tipo |-> "nenhuma", entrada |-> Nenhum]]
    /\ chaves = [k \in Chaves |-> SemChave]
    /\ mensagens = [e \in Eventos |-> SemMensagem]
    /\ entradas = [i \in Ids |-> SemEntrada]
    /\ tarefas = [t \in Tarefas |-> "ausente"]
    /\ documentos = {}
    /\ bruta = {}
    /\ jobs = [p \in Pedidos |-> SemJob]

Cadastros == \/ \E o \in Obras : CadastrarObra(o)
             \/ \E o \in OuNenhum(Obras) : DefinirContexto(o)

PassoWebhook(w) ==
    \/ \E e \in Eventos : Receber(w, e)
    \/ Reivindicar(w) \/ Repetida(w) \/ Gravar(w) \/ Conflitar(w)
    \/ EnfileirarRecebida(w)

PassoTarefa(t) == (\E o \in Obras : CriarTarefa(t, o)) \/ EnfileirarTarefa(t)

PassoResolvedor(r) ==
    \/ \E i \in Ids, o \in Obras : LerPendente(r, i, o)
    \/ GravarResolvida(r) \/ EnfileirarResolvida(r)

PassoJob(j) ==
    \/ Iniciar(j) \/ Carregar(j) \/ GuardarBruta(j) \/ Concluir(j) \/ Encerrar(j)
    \/ Falhar(j) \/ FalharSemMarca(j) \/ MarcarFalha(j) \/ Cair(j)
    \/ Reagendar(j) \/ Desistir(j)

Next ==
    \/ Cadastros
    \/ \E w \in Webhooks : PassoWebhook(w)
    \/ \E t \in Tarefas : PassoTarefa(t)
    \/ \E r \in Resolvedores : PassoResolvedor(r)
    \/ \E p \in Pedidos : Abandonar(p) \/ Perder(p)
    \/ \E j \in Pedidos : PassoJob(j)

Spec == Init /\ [][Next]_vars

(***************************************************************************)
(* The workers keep consuming: a queued job starts, a running attempt ends *)
(* one way or another, RQ's scheduler and the monitoring of dead           *)
(* processes re-queue or give up.  A request that has begun ends too.      *)
(* Nothing obliges a sender to call, or an attempt to fail.                *)
(***************************************************************************)
AvancarJob(j) ==
    \/ Iniciar(j) \/ Carregar(j) \/ GuardarBruta(j) \/ Concluir(j) \/ Encerrar(j)
    \/ MarcarFalha(j) \/ Reagendar(j) \/ Desistir(j)

AvancarPedido(p) ==
    \/ p \in Webhooks /\ (Reivindicar(p) \/ Repetida(p) \/ Gravar(p)
                          \/ Conflitar(p) \/ EnfileirarRecebida(p))
    \/ p \in Tarefas /\ EnfileirarTarefa(p)
    \/ p \in Resolvedores /\ (GravarResolvida(p) \/ EnfileirarResolvida(p))

Justica == \A p \in Pedidos : WF_vars(AvancarJob(p)) /\ WF_vars(AvancarPedido(p))

SpecJusta == Spec /\ Justica

-----------------------------------------------------------------------------
(* Type invariant *)

PcPedido == {"livre", "resolvida", "reivindicada", "lida", "gravada",
             "respondida", "conflito", "morta", "perdida"}

TipoResposta == {"nenhuma", "queued", "pending_obra", "cache", "duplicate"}

Resposta == [tipo : TipoResposta, entrada : OuNenhum(Ids)]

(* Every variable keeps the type of its table, queue or local.             *)
TypeOK ==
    /\ cadastro \subseteq Obras
    /\ contexto \in OuNenhum(Obras)
    /\ pc \in [Pedidos -> PcPedido]
    /\ evento \in [Webhooks -> OuNenhum(Eventos)]
    /\ pedida \in [Pedidos -> OuNenhum(Obras)]
    /\ resolvida \in [Webhooks -> OuNenhum(Obras)]
    /\ alvo \in [Resolvedores -> OuNenhum(Ids)]
    /\ resposta \in [Webhooks -> Resposta]
    /\ chaves \in [Chaves -> Chave]
    /\ mensagens \in [Eventos -> Mensagem]
    /\ entradas \in [Ids -> Entrada]
    /\ tarefas \in [Tarefas -> {"ausente", "QUEUED", "COMPLETED", "FAILED"}]
    /\ documentos \subseteq Documento
    /\ bruta \subseteq [entrada : Ids, obra : Obras]
    /\ jobs \in [Pedidos -> Job]

-----------------------------------------------------------------------------
(* Inductive strengthening: how the rows, the requests and the jobs agree. *)

(* A request knows what it is about once it has begun.                     *)
PedidosCoerentes ==
    /\ \A w \in Webhooks : pc[w] # "livre" => evento[w] \in Eventos
    /\ \A w \in Webhooks : Existe(w) => entradas[w].evento = evento[w]
    /\ \A r \in Resolvedores : pc[r] # "livre" =>
          /\ alvo[r] \in Ids /\ pedida[r] \in Obras
          /\ Existe(alvo[r]) /\ entradas[alvo[r]].evento \in Eventos

(* A request owns the row it commits, and owes a job only to an entrada    *)
(* that has an obra.                                                       *)
CommitCoerente ==
    /\ \A i \in Ids : pc[i] \in {"livre", "resolvida", "reivindicada"} => ~Existe(i)
    /\ \A i \in Ids : pc[i] = "gravada" => Existe(i) /\ entradas[i].obra \in Obras
    /\ \A r \in Resolvedores : pc[r] = "gravada" => entradas[alvo[r]].obra \in Obras

(* A pending entrada waits for its obra, any other has one; each event has *)
(* its message.                                                            *)
EntradasCoerentes ==
    \A i \in Ids : Existe(i) =>
        /\ IF entradas[i].status = "pending_obra"
           THEN entradas[i].obra = Nenhum /\ entradas[i].evento \in Eventos
           ELSE entradas[i].obra \in Obras
        /\ entradas[i].evento \in Eventos => mensagens[entradas[i].evento].existe

(* A job was enqueued by a request that has answered, for an entrada with  *)
(* an obra; while it runs it has an obra too.                              *)
JobsCoerentes ==
    \A j \in Pedidos :
        /\ jobs[j].fase = "nenhum" => jobs[j].entrada = Nenhum
        /\ jobs[j].fase # "nenhum" =>
              /\ pc[j] = "respondida"
              /\ jobs[j].entrada \in Ids /\ jobs[j].tentativa >= 1
              /\ Existe(jobs[j].entrada) /\ entradas[jobs[j].entrada].obra \in Obras
        /\ jobs[j].fase \in EmExecucao => jobs[j].obra \in Obras

(* Requests, rows and jobs agree; the properties below lean on it.         *)
Coerencia ==
    PedidosCoerentes /\ CommitCoerente /\ EntradasCoerentes /\ JobsCoerentes

(* A job and what it has produced agree: it resumes only what exists, it   *)
(* has stored the envelope before it classifies, and it never classifies   *)
(* what one of its attempts has already classified.                        *)
ArtefatosCoerentes ==
    /\ \A j \in Pedidos : jobs[j].fase = "pronto" => TemArtefatos(j)
    /\ \A j \in Pedidos : jobs[j].fase = "guardado" => Envelope(j) \in bruta
    /\ \A d \in documentos :
          /\ jobs[d.job].entrada = d.entrada
          /\ jobs[d.job].fase \notin {"nenhum", "classificar", "guardado"}
    /\ \A b \in bruta : Existe(b.entrada) /\ entradas[b.entrada].obra \in Obras

-----------------------------------------------------------------------------
(* Safety *)

(* However deliveries of an event interleave, die, or resolve to different *)
(* obras (and so claim different keys), one of them creates an entrada.    *)
UmaEntradaPorEvento ==
    \A i, j \in Ids :
        Existe(i) /\ Existe(j) /\ entradas[i].evento \in Eventos
            /\ entradas[i].evento = entradas[j].evento => i = j

(* The entrada named by an answer, or by the response_json a later         *)
(* delivery will get, is committed and is of that event: no answer runs    *)
(* ahead of its transaction.                                               *)
RespostaVerdadeira ==
    /\ \A w \in Webhooks : resposta[w].entrada # Nenhum =>
          LET r == entradas[resposta[w].entrada] IN
          r.status # "ausente" /\ r.evento = evento[w]
    /\ \A k \in Chaves : chaves[k].status # "ausente" =>
          LET r == entradas[chaves[k].resposta] IN
          chaves[k].resposta \in Ids /\ r.status # "ausente" /\ r.evento = k[1]

(* The request that owes entrada i a job, or that died owing it.           *)
Deve(p, i) ==
    /\ pc[p] \in {"gravada", "perdida"}
    /\ p = i \/ (p \in Resolvedores /\ alvo[p] = i)

(* The phases in which a job still has to write a final status, or gave up *)
(* after an attempt that marked nothing.                                   *)
Encarregado == EmExecucao \cup {"fila", "erro", "caiu", "abandonado"}

(* An entrada in "received" or "processing" has a job to take it further   *)
(* or a request about to enqueue one, or is lost with one of them.         *)
EmMaos ==
    \A i \in Ids : entradas[i].status \in {"received", "processing"} =>
        \/ \E j \in Pedidos : jobs[j].entrada = i
                             /\ jobs[j].fase \in Encarregado
        \/ \E p \in Pedidos : Deve(p, i)

(* RQ gives a job up after its last attempt, not before.                   *)
DesisteNaUltima ==
    \A j \in Pedidos : jobs[j].fase \in {"esgotado", "abandonado"} =>
        jobs[j].tentativa = MaxTentativas

(* An accepted entrada stays in somebody's hands until it is settled; the  *)
(* only ones that never move again are those of a request that died, or    *)
(* was refused by Redis, between commit and enqueue, and those of a job    *)
(* that used up every attempt and whose last one died, or raised outside   *)
(* the try, without marking it.                                            *)
NaoEsquecida == EmMaos /\ DesisteNaUltima

(* "completed" is never written without a documento for the entrada, over  *)
(* every retry, crash and concurrent job.                                  *)
CompletaTemDocumento ==
    \A i \in Ids : entradas[i].status = "completed" =>
        \E d \in documentos : d.entrada = i

(* Two resolvers read the same pending entrada before either committed.    *)
Resolveu(r, i) == alvo[r] = i /\ pc[r] \in {"gravada", "respondida", "perdida"}

Disputada(i) == \E r, s \in Resolvedores : r # s /\ Resolveu(r, i) /\ Resolveu(s, i)

(* Unless two resolvers raced for it, an entrada has at most one documento *)
(* and that documento is filed under the obra of the entrada.              *)
SemDisputaUmDocumento ==
    \A d \in documentos : ~Disputada(d.entrada) =>
        /\ d.obra = entradas[d.entrada].obra
        /\ \A f \in documentos : f.entrada = d.entrada => f = d

(* The attempts of one job, whatever kills them, create one documento.     *)
UmDocumentoPorJob == \A d, f \in documentos : d.job = f.job => d = f

(* The obras that the resolvers of entrada i have committed for it.        *)
ObrasPedidas(i) == {pedida[r] : r \in {s \in Resolvedores : Resolveu(s, i)}}

(* What a resolver took is filed only by the jobs of its resolvers and     *)
(* only under obras they asked for.                                        *)
DisputaLimitada ==
    \A d \in documentos : ObrasPedidas(d.entrada) # {} =>
        /\ d.job \in Resolvedores /\ Resolveu(d.job, d.entrada)
        /\ d.obra \in ObrasPedidas(d.entrada)

(* A crash after the commit finds the artefacts and does not classify      *)
(* again, and a dispute of n resolvers over an entrada, however their      *)
(* commits and jobs interleave, leaves at most n documentos of it, one for *)
(* each of them, none under an obra that nobody asked for.                 *)
RetentativaNaoDuplica == UmDocumentoPorJob /\ DisputaLimitada

(* The raw envelope is the source of truth: a documento is committed only  *)
(* after the envelope of its entrada is in the bucket, under its obra.     *)
EnvelopeAntesDoDocumento ==
    \A d \in documentos : [entrada |-> d.entrada, obra |-> d.obra] \in bruta

(* What GET /tasks/{id} reports agrees with the entrada of the task when   *)
(* that is waiting, completed or failed, also after failures and retries.  *)
TarefaAcompanha ==
    \A t \in Tarefas :
        /\ entradas[t].status = "ausente" <=> tarefas[t] = "ausente"
        /\ entradas[t].status = "received" => tarefas[t] = "QUEUED"
        /\ entradas[t].status = "completed" => tarefas[t] = "COMPLETED"
        /\ entradas[t].status = "failed" => tarefas[t] = "FAILED"

(* The failure of an entrada that arrived with its obra marks the very key *)
(* its delivery claimed.                                                   *)
FalhaMarcaASua ==
    \A w \in Webhooks : entradas[w].status = "failed" /\ resolvida[w] # Nenhum =>
        chaves[ChaveDe(w)].status = "failed"

(* A key marked as failed is the one its entrada stored.                   *)
ChaveFalhaDaEntrada ==
    \A k \in Chaves : chaves[k].status = "failed" =>
        LET i == chaves[k].resposta IN
        i \in Ids /\ k = <<entradas[i].evento, entradas[i].escopo>>

(* A failure marks its own key and no other: an entrada whose obra was not *)
(* registered stored a key it had not claimed, and marking that one never  *)
(* hits the key of another delivery of the event.                          *)
FalhaMarcaChaveComObra == FalhaMarcaASua /\ ChaveFalhaDaEntrada

(* No job, envelope or documento exists for an entrada that waits for its  *)
(* obra, and one that has left that state has an obra.                     *)
PendenteIntocada ==
    \A i \in Ids :
        IF entradas[i].status = "pending_obra"
        THEN /\ \A j \in Pedidos : jobs[j].entrada # i
             /\ \A b \in bruta : b.entrada # i
             /\ \A d \in documentos : d.entrada # i
        ELSE Existe(i) => entradas[i].obra \in Obras

-----------------------------------------------------------------------------
(* Action properties *)

(* A completed entrada that no two resolvers disputed leaves "completed"   *)
(* only when a job that died after its commit starts another attempt.      *)
CompletaSoReabrePorRetentativa ==
    [][\A i \in Ids :
          entradas[i].status = "completed" /\ ~Disputada(i)'
              /\ entradas'[i].status # "completed" =>
          /\ entradas'[i].status = "processing"
          /\ \E j \in Pedidos : jobs[j].entrada = i /\ jobs[j].tentativa > 1
                               /\ jobs'[j].fase = "iniciado"]_vars

-----------------------------------------------------------------------------
(* Liveness, under SpecJusta *)

(* No accepted entrada stays in "received" or "processing" for ever, at    *)
(* any of its attempts, unless it was lost in one of the two ways          *)
(* NaoEsquecida names: its request died owing the job, or the last attempt *)
(* of its job ended without marking it.  (The attempts are finitely many,  *)
(* so the entradas are settled in one state from which they do not move.)  *)
AceitaTermina ==
    []<>(\A i \in Ids : entradas[i].status \in {"received", "processing"} =>
           \/ \E p \in Pedidos : Deve(p, i) /\ pc[p] = "perdida"
           \/ \E j \in Pedidos : jobs[j].entrada = i /\ jobs[j].fase = "abandonado")

(* No delivery waits for ever, for the key of another or for its own       *)
(* transaction, whatever becomes of that other.                            *)
EntregaRespondida ==
    []<>(\A w \in Webhooks : pc[w] \notin {"resolvida", "reivindicada", "gravada"})

-----------------------------------------------------------------------------
(* Refinement: the pipeline implements Classificacao when an entrada is    *)
(* not disputed (one resolver).                                            *)

Itens == Eventos \cup Tarefas

EntradasDe(x) == {i \in Ids : Existe(i) /\ (i = x \/ entradas[i].evento = x)}

aceitasBar == [x \in Itens |-> Cardinality(EntradasDe(x))]
obraBar == [x \in Itens |-> IF EntradasDe(x) = {} THEN Nenhum
                            ELSE entradas[CHOOSE i \in EntradasDe(x) : TRUE].obra]
copiasBar == [x \in Itens |-> [o \in Obras |->
    Cardinality({d \in documentos : d.entrada \in EntradasDe(x) /\ d.obra = o})]]

Abstrata == INSTANCE Classificacao
            WITH aceitas <- aceitasBar, obraDe <- obraBar, copias <- copiasBar

(* Each event and task is accepted at most once, gets one obra once and is *)
(* filed at most once under it, through redeliveries, retries and crashes. *)
ImplementaClassificacao == Abstrata!Spec

=============================================================================
