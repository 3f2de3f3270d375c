------------------------------ MODULE Ingestao ------------------------------
(***************************************************************************)
(* The API side of the ingestion: entrada_service.ingest_telegram,         *)
(* resolve_pending_obra, POST /tasks, and the registrations they read.     *)
(* Any request may die between two of its steps (Abandonar, Perder).       *)
(***************************************************************************)
EXTENDS EntradasBase

-----------------------------------------------------------------------------
(* Registrations: obra_service.upsert_obra, telegram_context.upsert_contexto *)

CadastrarObra(o) ==
    /\ o \notin cadastro
    /\ cadastro' = cadastro \cup {o}
    /\ UNCHANGED <<contexto, pedidoVars, bancoVars, bruta, jobs>>

(* An inactive row resolves nothing: it is the same as no row.             *)
DefinirContexto(o) ==
    /\ o \in OuNenhum(cadastro) /\ o # contexto
    /\ contexto' = o
    /\ UNCHANGED <<cadastro, pedidoVars, bancoVars, bruta, jobs>>

-----------------------------------------------------------------------------
(* ingest_telegram *)

ObraSolicitada(e) == IF ObraPedida[e] # Nenhum THEN ObraPedida[e] ELSE contexto

ObraRegistrada(o) == IF o \in cadastro THEN o ELSE Nenhum

(* resolve_telegram_obra: payload, else prefix, else the chat's context.   *)
Receber(w, e) ==
    /\ pc[w] = "livre"
    /\ pc' = [pc EXCEPT ![w] = "resolvida"]
    /\ evento' = [evento EXCEPT ![w] = e]
    /\ pedida' = [pedida EXCEPT ![w] = ObraSolicitada(e)]
    /\ resolvida' = [resolvida EXCEPT ![w] = ObraRegistrada(ObraSolicitada(e))]
    /\ UNCHANGED <<envVars, alvo, resposta, bancoVars, bruta, jobs>>

ChaveDe(w) == <<evento[w], pedida[w]>>

(* Mutant: the claim is committed on its own, and a dead owner keeps it.   *)
ChaveTravadaPorMorta(w) ==
    \E v \in Webhooks \ {w} : pc[v] \in {"reivindicada", "morta"}
                              /\ ChaveDe(v) = ChaveDe(w)

(* The unique index makes a second INSERT of a key wait for the first      *)
(* transaction to end.                                                     *)
ChaveTravada(w) ==
    \E v \in Webhooks \ {w} : pc[v] = "reivindicada" /\ ChaveDe(v) = ChaveDe(w)

(* Mutant: the answer is stored and committed with the claim.              *)
ReivindicarECompletar(w) ==
    /\ pc[w] = "resolvida"
    /\ ~ChaveTravada(w)
    /\ chaves[ChaveDe(w)].status = "ausente"
    /\ chaves' = [chaves EXCEPT ![ChaveDe(w)] = [status |-> "completed", resposta |-> w]]
    /\ pc' = [pc EXCEPT ![w] = "reivindicada"]
    /\ UNCHANGED <<envVars, evento, pedida, resolvida, alvo, resposta, mensagens,
                   entradas, tarefas, documentos, bruta, jobs>>

(* claim_idempotency: INSERT .. ON CONFLICT DO NOTHING inserted the row.    *)
Reivindicar(w) ==
    /\ pc[w] = "resolvida"
    /\ ~ChaveTravada(w)
    /\ chaves[ChaveDe(w)].status = "ausente"
    /\ pc' = [pc EXCEPT ![w] = "reivindicada"]
    /\ UNCHANGED <<envVars, evento, pedida, resolvida, alvo, resposta,
                   bancoVars, bruta, jobs>>

(* The key exists: a completed one returns its response_json, any other    *)
(* answers "duplicate".                                                    *)
Repetida(w) ==
    /\ pc[w] = "resolvida"
    /\ ~ChaveTravada(w)
    /\ chaves[ChaveDe(w)].status # "ausente"
    /\ pc' = [pc EXCEPT ![w] = "respondida"]
    /\ resposta' = [resposta EXCEPT ![w] =
          IF chaves[ChaveDe(w)].status = "completed"
          THEN [tipo |-> "cache", entrada |-> chaves[ChaveDe(w)].resposta]
          ELSE [tipo |-> "duplicate", entrada |-> Nenhum]]
    /\ UNCHANGED <<envVars, evento, pedida, resolvida, alvo, bancoVars, bruta,
                   jobs>>

(* Mutant: no unique index.                                                *)
EventoSemIndice(e) == e \in Eventos

(* telegram_messages.event_id is UNIQUE.                                   *)
EventoInedito(e) == ~mensagens[e].existe

(* The transaction of a claim that won: message, entrada, completed key.   *)
(* Without an obra the entrada is pending and, whatever scope was claimed, *)
(* stores the key of the pending scope.                                    *)
Gravar(w) ==
    /\ pc[w] = "reivindicada"
    /\ EventoInedito(evento[w])
    /\ LET o == resolvida[w] IN
       /\ mensagens' = [mensagens EXCEPT ![evento[w]] = [existe |-> TRUE, obra |-> o]]
       /\ entradas' = [entradas EXCEPT ![w] =
             [status |-> IF o = Nenhum THEN "pending_obra" ELSE "received",
              evento |-> evento[w], obra |-> o,
              escopo |-> IF o = Nenhum THEN EscopoPendente ELSE o]]
       /\ pc' = [pc EXCEPT ![w] = IF o = Nenhum THEN "respondida" ELSE "gravada"]
       /\ resposta' = IF o = Nenhum
                      THEN [resposta EXCEPT ![w] = [tipo |-> "pending_obra", entrada |-> w]]
                      ELSE resposta
    /\ chaves' = [chaves EXCEPT ![ChaveDe(w)] = [status |-> "completed", resposta |-> w]]
    /\ UNCHANGED <<envVars, evento, pedida, resolvida, alvo, tarefas, documentos,
                   bruta, jobs>>

(* IntegrityError on the message: rollback (the claim goes too) and a 500. *)
Conflitar(w) ==
    /\ pc[w] = "reivindicada"
    /\ ~EventoInedito(evento[w])
    /\ pc' = [pc EXCEPT ![w] = "conflito"]
    /\ UNCHANGED <<envVars, evento, pedida, resolvida, alvo, resposta,
                   bancoVars, bruta, jobs>>

(* The job is enqueued after the commit, then the handler answers "queued". *)
EnfileirarRecebida(w) ==
    /\ pc[w] = "gravada"
    /\ pc' = [pc EXCEPT ![w] = "respondida"]
    /\ resposta' = [resposta EXCEPT ![w] = [tipo |-> "queued", entrada |-> w]]
    /\ jobs' = [jobs EXCEPT ![w] = NaFila(w, 1)]
    /\ UNCHANGED <<envVars, evento, pedida, resolvida, alvo, bancoVars, bruta>>

-----------------------------------------------------------------------------
(* create_task; 400 and 404 answers change nothing *)

CriarTarefa(t, o) ==
    /\ pc[t] = "livre"
    /\ o \in cadastro
    /\ tarefas' = [tarefas EXCEPT ![t] = "QUEUED"]
    /\ entradas' = [entradas EXCEPT ![t] =
          [status |-> "received", evento |-> Nenhum, obra |-> o, escopo |-> Nenhum]]
    /\ pc' = [pc EXCEPT ![t] = "gravada"]
    /\ UNCHANGED <<envVars, evento, pedida, resolvida, alvo, resposta, chaves,
                   mensagens, documentos, bruta, jobs>>

EnfileirarTarefa(t) ==
    /\ pc[t] = "gravada"
    /\ pc' = [pc EXCEPT ![t] = "respondida"]
    /\ jobs' = [jobs EXCEPT ![t] = NaFila(t, 1)]
    /\ UNCHANGED <<envVars, evento, pedida, resolvida, alvo, resposta, bancoVars,
                   bruta>>

-----------------------------------------------------------------------------
(* resolve_pending_obra *)

(* Mutant: an entrada already classified may be given another obra.        *)
PodeResolverConcluida(i) == entradas[i].status \in {"pending_obra", "completed"}

PodeResolver(i) == entradas[i].status = "pending_obra"

(* Entrada and obra are read; the entrada must still be pending.  Any      *)
(* other answer (not_found, obra_not_found, queued=False) changes nothing. *)
LerPendente(r, i, o) ==
    /\ pc[r] = "livre"
    /\ PodeResolver(i)
    /\ o \in cadastro
    /\ pc' = [pc EXCEPT ![r] = "lida"]
    /\ alvo' = [alvo EXCEPT ![r] = i]
    /\ pedida' = [pedida EXCEPT ![r] = o]
    /\ UNCHANGED <<envVars, evento, resolvida, resposta, bancoVars, bruta, jobs>>

(* The commit writes by primary key: nothing re-reads the status.          *)
GravarResolvida(r) ==
    /\ pc[r] = "lida"
    /\ LET i == alvo[r]  e == entradas[alvo[r]].evento IN
       /\ entradas' = [entradas EXCEPT ![i] =
             [status |-> "received", evento |-> e, obra |-> pedida[r],
              escopo |-> entradas[i].escopo]]
       /\ mensagens' = [mensagens EXCEPT ![e].obra = pedida[r]]
    /\ pc' = [pc EXCEPT ![r] = "gravada"]
    /\ UNCHANGED <<envVars, evento, pedida, resolvida, alvo, resposta, chaves,
                   tarefas, documentos, bruta, jobs>>

(* Mutant: the job is enqueued without waiting for the commit.             *)
EnfileirarSemCommit(r) ==
    /\ pc[r] \in {"lida", "gravada"}
    /\ pc' = [pc EXCEPT ![r] = "respondida"]
    /\ jobs' = [jobs EXCEPT ![r] = NaFila(alvo[r], 1)]
    /\ UNCHANGED <<envVars, evento, pedida, resolvida, alvo, resposta, bancoVars,
                   bruta>>

EnfileirarResolvida(r) ==
    /\ pc[r] = "gravada"
    /\ pc' = [pc EXCEPT ![r] = "respondida"]
    /\ jobs' = [jobs EXCEPT ![r] = NaFila(alvo[r], 1)]
    /\ UNCHANGED <<envVars, evento, pedida, resolvida, alvo, resposta, bancoVars,
                   bruta>>

-----------------------------------------------------------------------------
(* The request dies, or the commit fails: Postgres rolls back.             *)
Abandonar(p) ==
    /\ pc[p] \in {"resolvida", "reivindicada", "lida"}
    /\ pc' = [pc EXCEPT ![p] = "morta"]
    /\ UNCHANGED <<envVars, evento, pedida, resolvida, alvo, resposta,
                   bancoVars, bruta, jobs>>

(* The process dies after the commit, or Redis refuses the job.            *)
Perder(p) ==
    /\ pc[p] = "gravada"
    /\ pc' = [pc EXCEPT ![p] = "perdida"]
    /\ UNCHANGED <<envVars, evento, pedida, resolvida, alvo, resposta,
                   bancoVars, bruta, jobs>>
=============================================================================
