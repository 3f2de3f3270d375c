------------------------------- MODULE Worker -------------------------------
(***************************************************************************)
(* The RQ job process_entrada: entrada_service.run_entrada_pipeline and    *)
(* entrada_pipeline_steps.  The replicas of the worker consume one queue,  *)
(* so any job in it may start at any time and jobs interleave freely.      *)
(***************************************************************************)
EXTENDS EntradasBase

EntradaDe(j) == jobs[j].entrada

PassarPara(j, fase) == jobs' = [jobs EXCEPT ![j].fase = fase]

(* The row is loaded once (expire_on_commit=False): the job keeps the obra *)
(* it saw here.  "processing" is written over whatever status there was.   *)
Iniciar(j) ==
    /\ jobs[j].fase = "fila"
    /\ jobs' = [jobs EXCEPT ![j] =
          [fase |-> "iniciado", entrada |-> EntradaDe(j),
           obra |-> entradas[EntradaDe(j)].obra, tentativa |-> jobs[j].tentativa]]
    /\ entradas' = [entradas EXCEPT ![EntradaDe(j)].status = "processing"]
    /\ UNCHANGED <<envVars, pedidoVars, chaves, mensagens, tarefas, documentos,
                   bruta>>

(* Mutants: the bucket asked instead of the database; nothing asked.       *)
TemEnvelope(j) == \E b \in bruta : b.entrada = EntradaDe(j)
NuncaTemArtefatos(j) == EntradaDe(j) = Nenhum

(* load_existing_artifacts                                                 *)
TemArtefatos(j) == \E d \in documentos : d.entrada = EntradaDe(j)

(* An entrada without obra, or one that already has documento and triagem, *)
(* goes straight to the final commit.                                      *)
Carregar(j) ==
    /\ jobs[j].fase = "iniciado"
    /\ PassarPara(j, IF jobs[j].obra = Nenhum \/ TemArtefatos(j)
                     THEN "pronto" ELSE "classificar")
    /\ UNCHANGED <<envVars, pedidoVars, bancoVars, bruta>>

(* The envelope a job writes: obra and entrada are in its key, so a later  *)
(* attempt (of the same day, for a task) overwrites the same object.       *)
Envelope(j) == [entrada |-> EntradaDe(j), obra |-> jobs[j].obra]

(* Mutant: a later attempt trusts the first to have stored the envelope.   *)
GuardarSoNaPrimeira(j) ==
    /\ jobs[j].fase = "classificar"
    /\ bruta' = IF jobs[j].tentativa = 1 THEN bruta \cup {Envelope(j)} ELSE bruta
    /\ PassarPara(j, "guardado")
    /\ UNCHANGED <<envVars, pedidoVars, bancoVars>>

(* persist_raw_bucket; the bucket is not rolled back with the transaction. *)
GuardarBruta(j) ==
    /\ jobs[j].fase = "classificar"
    /\ bruta' = bruta \cup {Envelope(j)}
    /\ PassarPara(j, "guardado")
    /\ UNCHANGED <<envVars, pedidoVars, bancoVars>>

(* process_media and run_triagem came through: persist_documento_triagem   *)
(* inserts documento and triagem in the transaction of the final commit.   *)
NovosDocumentos(j) ==
    IF jobs[j].fase = "guardado"
    THEN {[entrada |-> EntradaDe(j), obra |-> jobs[j].obra, job |-> j,
           tentativa |-> jobs[j].tentativa]}
    ELSE {}

(* Mutant: only successes reach the task.                                  *)
MarcarSoSucesso(i, status) ==
    tarefas' = [t \in Tarefas |-> IF t = i /\ status = "COMPLETED"
                                  THEN status ELSE tarefas[t]]

(* _mark_task *)
MarcarTarefa(i, status) ==
    tarefas' = [t \in Tarefas |-> IF t = i THEN status ELSE tarefas[t]]

(* Mutant: resumed work returns before the status is written.              *)
ConcluirSemStatus(j) ==
    /\ jobs[j].fase \in {"guardado", "pronto"}
    /\ documentos' = documentos \cup NovosDocumentos(j)
    /\ entradas' = IF jobs[j].fase = "pronto" THEN entradas
                   ELSE [entradas EXCEPT ![EntradaDe(j)].status = "completed"]
    /\ MarcarTarefa(EntradaDe(j), "COMPLETED")
    /\ PassarPara(j, "concluida")
    /\ UNCHANGED <<envVars, pedidoVars, chaves, mensagens, bruta>>

Concluir(j) ==
    /\ jobs[j].fase \in {"guardado", "pronto"}
    /\ documentos' = documentos \cup NovosDocumentos(j)
    /\ entradas' = [entradas EXCEPT ![EntradaDe(j)].status = "completed"]
    /\ MarcarTarefa(EntradaDe(j), "COMPLETED")
    /\ PassarPara(j, "concluida")
    /\ UNCHANGED <<envVars, pedidoVars, chaves, mensagens, bruta>>

(* The job returns and RQ acknowledges it.                                 *)
Encerrar(j) ==
    /\ jobs[j].fase = "concluida"
    /\ PassarPara(j, "ok")
    /\ UNCHANGED <<envVars, pedidoVars, bancoVars, bruta>>

-----------------------------------------------------------------------------
(* Failures *)

(* S3, OpenAI or the database raised inside _process: rollback.            *)
Falhar(j) ==
    /\ jobs[j].fase \in EmExecucao
    /\ PassarPara(j, "erro")
    /\ UNCHANGED <<envVars, pedidoVars, bancoVars, bruta>>

(* The database raised where no handler marks it: in session.get or in the *)
(* first commit, both before the try, or in the exception handler itself.  *)
(* RQ sees a failed attempt; no row has changed.                           *)
FalharSemMarca(j) ==
    /\ jobs[j].fase \in {"fila", "erro"}
    /\ PassarPara(j, "caiu")
    /\ UNCHANGED <<envVars, pedidoVars, bancoVars, bruta>>

(* Mutant: the pending scope for every entrada.                            *)
ChavesFalhasPendentes(i) ==
    {k \in Chaves : k = <<entradas[i].evento, EscopoPendente>>
                    /\ chaves[k].status # "ausente"}

(* _fail_entrada_idempotency: the key stored with the entrada, if it has   *)
(* one; the UPDATE touches no row when that key was never claimed.         *)
ChavesFalhas(i) ==
    {k \in Chaves : k = <<entradas[i].evento, entradas[i].escopo>>
                    /\ chaves[k].status # "ausente"}

(* The exception handler commits the failure, then raises again.           *)
MarcarFalha(j) ==
    /\ jobs[j].fase = "erro"
    /\ entradas' = [entradas EXCEPT ![EntradaDe(j)].status = "failed"]
    /\ MarcarTarefa(EntradaDe(j), "FAILED")
    /\ chaves' = [k \in Chaves |-> IF k \in ChavesFalhas(EntradaDe(j))
                                   THEN [chaves[k] EXCEPT !.status = "failed"]
                                   ELSE chaves[k]]
    /\ PassarPara(j, "falhou")
    /\ UNCHANGED <<envVars, pedidoVars, mensagens, documentos, bruta>>

(* The process is killed, or the job timeout interrupts the event loop, at *)
(* any point from its taking the job to RQ's acknowledgement: no handler   *)
(* runs, Postgres rolls back, RQ finds the attempt dead.  Each death costs *)
(* an attempt, which bounds them.                                          *)
Cair(j) ==
    /\ jobs[j].fase \in EmExecucao \cup {"fila", "erro", "concluida"}
    /\ PassarPara(j, "caiu")
    /\ UNCHANGED <<envVars, pedidoVars, bancoVars, bruta>>

(* Mutant: one retry too many.                                             *)
RestaUmaAMais(j) == jobs[j].tentativa <= MaxTentativas

(* Retry(max=RQ_RETRY_MAX)                                                 *)
RestaTentativa(j) == jobs[j].tentativa < MaxTentativas

(* Mutant: a worker without the scheduler never sees the delayed retry.    *)
ReagendarSemScheduler(j) == jobs[j].fase = "fila" /\ FALSE /\ UNCHANGED vars

Reagendar(j) ==
    /\ jobs[j].fase \in {"falhou", "caiu"}
    /\ RestaTentativa(j)
    /\ jobs' = [jobs EXCEPT ![j] = NaFila(EntradaDe(j), jobs[j].tentativa + 1)]
    /\ UNCHANGED <<envVars, pedidoVars, bancoVars, bruta>>

Desistir(j) ==
    /\ jobs[j].fase \in {"falhou", "caiu"}
    /\ ~RestaTentativa(j)
    /\ PassarPara(j, IF jobs[j].fase = "falhou" THEN "esgotado" ELSE "abandonado")
    /\ UNCHANGED <<envVars, pedidoVars, bancoVars, bruta>>
=============================================================================
