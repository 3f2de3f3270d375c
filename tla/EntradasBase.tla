---------------------------- MODULE EntradasBase ----------------------------
(***************************************************************************)
(* The state shared by the API handlers (Ingestao) and the RQ jobs         *)
(* (Worker): the Postgres tables idempotency_keys, telegram_messages,      *)
(* entradas_brutas, tasks, documentos (+ triagens), the raw envelopes in   *)
(* the bucket, and the queue "obrabot".                                    *)
(*                                                                         *)
(* Postgres runs at READ COMMITTED.  A handler's writes become visible in  *)
(* one step, its commit; what it read before stays in local variables.     *)
(***************************************************************************)
EXTENDS Naturals, FiniteSets

CONSTANTS
    Obras,          \* obra ids that may be registered
    Eventos,        \* Telegram event_ids; the content of an event never changes
    Webhooks,       \* deliveries of POST /openclaw/telegram-event
    Tarefas,        \* requests POST /tasks
    Resolvedores,   \* requests POST /entradas/{id}/resolver-obra
    ObraPedida,     \* obra named by the payload or the text prefix, or Nenhum
    MaxTentativas,  \* 1 + RQ_RETRY_MAX
    Nenhum          \* "no value" (SQL NULL)

(* A request that commits an entrada gives it its id.                      *)
Ids == Webhooks \cup Tarefas
Pedidos == Ids \cup Resolvedores

ASSUME ConstantesOK ==
    /\ Webhooks \cap Tarefas = {} /\ Resolvedores \cap Ids = {}
    /\ Nenhum \notin Obras \cup Eventos \cup Pedidos
    /\ ObraPedida \in [Eventos -> Obras \cup {Nenhum}]
    /\ MaxTentativas \in Nat \ {0}

(* An event_id of Telegram is not the id of an entrada.                    *)
ASSUME EventosDistintos == Eventos \cap Ids = {}

VARIABLES
    cadastro,    \* registered obras
    contexto,    \* obra of the active telegram_contextos row of the chat
    pc,          \* where each API request is
    evento,      \* event a webhook delivers
    pedida,      \* obra a webhook or resolver asked for (the claim's scope)
    resolvida,   \* obra row found for it, or Nenhum
    alvo,        \* entrada a resolver works on
    resposta,    \* what the webhook answered
    chaves,      \* idempotency_keys
    mensagens,   \* telegram_messages
    entradas,    \* entradas_brutas
    tarefas,     \* tasks.status
    documentos,  \* documentos, each with the triagem of the same transaction
    bruta,       \* raw envelopes in the bucket
    jobs         \* RQ jobs, named by the request that enqueued them

envVars    == <<cadastro, contexto>>
pedidoVars == <<pc, evento, pedida, resolvida, alvo, resposta>>
bancoVars  == <<chaves, mensagens, entradas, tarefas, documentos>>
vars == <<envVars, pedidoVars, bancoVars, bruta, jobs>>

-----------------------------------------------------------------------------
(* Column and field types *)

OuNenhum(S) == S \cup {Nenhum}

(* PENDING_OBRA_IDEMPOTENCY_SCOPE: the scope of a claim without any obra.  *)
EscopoPendente == Nenhum

(* A key hashes event, content, chat and obra scope; the first fixes the   *)
(* next two.                                                               *)
Chaves == Eventos \X OuNenhum(Obras)
Chave == [status : {"ausente", "completed", "failed"}, resposta : OuNenhum(Ids)]

Mensagem == [existe : BOOLEAN, obra : OuNenhum(Obras)]

StatusEntrada ==
    {"ausente", "pending_obra", "received", "processing", "completed", "failed"}

Entrada == [status : StatusEntrada, evento : OuNenhum(Eventos),
            obra : OuNenhum(Obras), escopo : OuNenhum(Obras)]

Documento == [entrada : Ids, obra : Obras, job : Pedidos, tentativa : 1..MaxTentativas]

(* Phases of a job.  "concluida" has committed but RQ has not been told;   *)
(* "falhou" is an attempt whose failure was marked, "caiu" one that died   *)
(* or raised where nothing marks it; "esgotado" and "abandonado" are jobs  *)
(* with no retry left after the one or the other.                          *)
EmExecucao == {"iniciado", "classificar", "guardado", "pronto"}
Vivo == EmExecucao \cup {"fila", "erro", "falhou", "caiu", "concluida"}
Fase == Vivo \cup {"nenhum", "ok", "esgotado", "abandonado"}

Job == [fase : Fase, entrada : OuNenhum(Ids), obra : OuNenhum(Obras),
        tentativa : 0..MaxTentativas]

-----------------------------------------------------------------------------
(* Rows before anything happened *)

SemChave    == [status |-> "ausente", resposta |-> Nenhum]
SemMensagem == [existe |-> FALSE, obra |-> Nenhum]
SemEntrada  == [status |-> "ausente", evento |-> Nenhum, obra |-> Nenhum,
                escopo |-> Nenhum]
SemJob      == [fase |-> "nenhum", entrada |-> Nenhum, obra |-> Nenhum,
                tentativa |-> 0]

(* enqueue_entrada, and the queue entry of a later attempt.                *)
NaFila(i, t) == [fase |-> "fila", entrada |-> i, obra |-> Nenhum, tentativa |-> t]

Existe(i) == entradas[i].status # "ausente"
=============================================================================
