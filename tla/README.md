# Verification of agente-obrabot

TLA+ models of the backend in `src/` (FastAPI, Postgres, RQ on Redis, an S3
bucket), the TLC runs that check them on small instances, and proofs checked
by TLAPS. Source paths below are relative to the repository.

## 1. Inventory

| Component | State | Operations | Interacts with |
|---|---|---|---|
| Ingestion (`entrada_service`, `ingestao_service`, routes `openclaw`, `tasks`, `entradas`) | `idempotency_keys`, `telegram_messages`, `entradas_brutas`, `tasks` | `ingest_telegram`, `resolve_pending_obra`, `create_task` | reads obras and contexts; enqueues on `obrabot` after its commit |
| Worker (`worker/index`, `entrada_pipeline_steps`) | the queue, `documentos`, `triagens`, raw envelopes | `process_entrada`: mark processing, load artefacts, store raw, media, triage, commit; on error mark failed and re-raise | same tables as the ingestion; bucket; OpenAI; Telegram |
| Obras and contexts (`obra_service`, `telegram_context_service`) | `obras`, `telegram_contextos` | upsert, set status, resolve an obra for a message | read by every ingestion |
| Documentos (`rdo_service`, `approval_service`, `common`) | `documentos`, `aprovacoes`, drafts and finals in the bucket | create draft, edit, approve/reject, finalise, approve and finalise | bucket, audit |
| Photo reports (`foto_service`) | the same, for `relatorio_fotografico` | generate, approve, finalise (renders again) | photos of the worker |
| Bucket (`bucket_service`) | objects by key | put (check-then-put when overwriting is not allowed), get, keys | all of the above |
| Measurements (`medicao_service`) | `medicao_periodos`, `medicoes` | register, close a period | budget items |
| Baseline (`orcamento_service`) | `orcamento_itens`, `cronograma_atividades`, baseline in `obras.metadata_json` | import, validate, approve | obras, bucket |
| Rate limits (`rate_limit_service`, `core/security`, `api/deps`) | counters and event marks in Redis | checks of the webhook, of login, of protected routes | run before the ingestion |
| Media and daily aggregation (`entrada_pipeline_steps`, `media_service`, `rdo_aggregator_service`) | `arquivos`, `fotos`, `audio_transcricoes`, `triagens`, binary objects | file the media of a message; list a day, one statement per table | worker; bucket; readers |
| Body limit (`api/middleware`) | bytes consumed of one request | refuse or cut a body above the limit | every route |
| Pure code | none | heuristics of triage, media extraction, file names | |
| Admin panel, configuration, migrations, templates, OpenClaw skills | none of their own | | call the services above |

What is hard here: requests, redeliveries and jobs run concurrently at READ
COMMITTED with no `SELECT ... FOR UPDATE` anywhere; the commit, the enqueue and
the bucket write are three separate effects; RQ retries attempts that died at
any point; and the identity of a delivery depends on rows (obras, contexts)
that change between two deliveries. `PROJECT.json` lists each hazard at its
line with the properties that watch it; where a property excepts the very
overlap, because the code lets it happen, a note there says what is left.

What makes each component correct:

- ingestion: one entrada per event; answers and cached answers are true;
  nothing accepted is forgotten; a pending entrada is left alone;
- worker: completed implies filed; retries and crashes never file twice; the
  raw envelope precedes the documento; the task reports what happened;
- documentos: only what a human approved is published, once, and what the row
  says is what the bucket holds;
- measurements: nothing enters a closed period; the closed total is what was
  validated;
- baseline: the snapshot approved is the one validated, and stays;
- contexts: a delivery never meets two active contexts of a topic, and is given
  an obra only by one that was active while it looked;
- media: one file, one object and one account of each media of a message; a day
  is shown whole;
- rate limits: a counter lets its limit through and expires; an event whose
  sender insists is recorded; a refusal as repeated is true;
- body limit: the application is never given more than the limit, and the
  client gets one answer.

## 2. Plan

Modules, in the order they were written. Each is parameterised by `CONSTANTS`
with a named assumption, has one action per step of the code, and no
`RECURSIVE` operator.

| Module | Component | Section | Proofs |
|---|---|---|---|
| `EntradasBase`, `Ingestao`, `Worker`, composed by `Entradas`; `Classificacao` (abstract) | ingestion and worker | 3 | `EntradasProofs` |
| `Documentos`; `Publicacao` (abstract) | RDO, photo reports, approval, bucket | 4 | `DocumentosProofs` |
| `Medicoes` | measurements | 5 | `MedicoesProofs` |
| `Baseline` | budget, schedule, baseline, edit of the obra | 6 | `BaselineProofs` |
| `Contextos` | Telegram contexts and resolution of an obra | 7 | `ContextosProofs` |
| `Limites` | rate limits and event marks, authentication of the webhook | 8 | `LimitesProofs` |
| `Diario` | media of a message, aggregation of a day | 9 | `DiarioProofs` |
| `Corpo` | body limit | 10 | `CorpoProofs` |

`MCEntradas`, `MCDocumentos` and so on give the values TLC uses. A property
that a run names may be a conjunction of named parts (`FechamentoIntegro`,
`TopicoIntegro`, ...), each with its comment.

Every invariant and every action property of a passing run, and both
refinements, are also theorems; section 11 gives the conditions some of them
have. What the proofs leave to do: `PublicaOAprovado` for several processes, from an
invariant that does not say whose object is under a final key; and the
implementation of `Classificacao` in the presence of disputes, item by item,
for the items nobody disputes.

### Conventions of all modules

- The database is Postgres at READ COMMITTED: a statement sees what was
  committed before it. There is no `SELECT ... FOR UPDATE` and no version
  column. A transaction's writes become visible at its commit; where a flush
  takes a row lock or the slot of a unique index before that, the lock is a
  variable (`reserva`, `trava`).
- An `UPDATE` of SQLAlchemy writes only the attributes that changed. Where two
  writers of one row can meet, the model keeps, per column, the value the
  writer did not change.
- A replica of the API is one uvicorn process. What is synchronous between two
  awaits (bucket, PDF, Redis) is one step in one process; several replicas
  interleave inside it. `Documentos` has both (`UmProcesso`).
- A request may die between any two steps (`Cair`); a bound counts deaths.
- Deadlock is not checked in any run: a system whose senders stop calling
  stops. Where requests wait for one another, an invariant says that whoever
  is waited for can go on, or is aborted (`SemImpasse` in `Documentos`,
  `Baseline` and `Contextos`, `ReservaDeQuemCria` in `Medicoes`). It names the
  wait (`Espera`), which is also the guard of the step that waits, and not
  `ENABLED`: so it can be proved, needs no fairness, and is within TLC's reach
  where a liveness property is not.
- History variables, which the code does not have and no guard reads, let a
  property name its exceptions: `juntos` (who was in progress along with each
  request: `Medicoes`, `Baseline`, `Contextos`), `disputa`, `decididos`,
  `vistos` and `gemeos` (`Documentos`), `editado` (`Baseline`), `vistas` (`Contextos`),
  `passaram` and `perdidos` (`Limites`), `mudou` (`Diario`). An exception is
  always "two requests overlapped" or "a process died or was refused", never
  "the property fails".

## 3. The ingestion pipeline

`EntradasBase` declares the constants and the shared state; `Ingestao` holds
the actions of API requests, `Worker` those of RQ jobs; `Entradas` composes
them and states the properties; `MCEntradas` gives the values TLC uses;
`Classificacao` is the abstract specification; `EntradasProofs` the proofs.

### State

| Variable | Code |
|---|---|
| `cadastro`, `contexto` | rows of `obras`; the obra of the active `telegram_contextos` row of the chat (one chat) |
| `pc`, `evento`, `pedida`, `resolvida`, `alvo` | where a request is and its locals; requests are webhook deliveries, `POST /tasks`, and `POST /entradas/{id}/resolver-obra` |
| `resposta` | answer of a delivery: `queued`, `pending_obra`, the cached `response_json`, or `duplicate` |
| `chaves` | `idempotency_keys` by event and obra scope (content and chat are functions of the event). The scope is the obra asked for, registered or not; `Nenhum` is `__PENDING_OBRA__` |
| `mensagens`, `entradas`, `tarefas` | their tables; an entrada, and a task, is named by the request that commits it |
| `documentos` | a documento and the triagem of the same transaction, with the job and attempt that inserted it |
| `bruta` | raw envelopes in the bucket |
| `jobs` | RQ jobs, named by the request that enqueued them; `tentativa` counts attempts |

A request is a sequence of steps: its reads, the point where it waits for or
wins the key, its commit, its enqueue. Its writes appear in one step, the
commit, because Postgres shows them to nobody before. `Abandonar` ends a request
before its commit, `Perder` between commit and enqueue (process death, or Redis
refusing). A job's steps are: mark processing (a commit), load artefacts, store
the envelope, then media, triage and the final commit in one step, since
nothing between is visible; `Falhar` is an exception anywhere in `_process`,
`MarcarFalha` the handler that commits the failure, `FalharSemMarca` an
exception no handler marks: in `session.get` or the first commit, which are
outside the `try` (`entrada_service.py:302-307`), or in the handler itself.
`Cair` is a death at any point from the taking of the job to its
acknowledgement: a killed process, or RQ's job timeout, which interrupts the
event loop with a cancellation that `except Exception` does not catch. RQ sees
both as a failed attempt. `Reagendar` and `Desistir` are RQ's. Deaths and
failures need no bound of their own: each costs an attempt, of which there are
`MaxTentativas`.

The replicas of the worker are unlimited: any queued job may start. The row
lock an attempt takes when SQLAlchemy flushes `storage_key` early only removes
interleavings; the model keeps them.

`Carregar` keeps the branch of `_process` for an entrada without obra.
`Coerencia`, which is proved, shows that no job ever meets it.

### Runs

| Run | Instance | What it shows |
|---|---|---|
| `entregas` | 2 obras, 2 events (one names no obra), 2 deliveries, 1 resolver, 2 attempts; 459 000 states | `TypeOK`, one entrada per event, true answers, untouched pending entradas, a failure marks the claimed key when the obra was known and never another's, refinement of `Classificacao` |
| `disputa` | 2 obras, 1 event, 1 delivery, 2 resolvers, 2 attempts; 223 000 | two jobs on one entrada: nothing forgotten, given up only at the last attempt, completed is filed, a retry files once, a dispute leaves one documento for each resolver at most and under an obra one of them asked for, envelope first, undisputed entradas have one documento under their obra; completed reopens only for a retry |
| `vivacidade` | 1 obra, 1 event, 2 deliveries, 1 task, 1 resolver, 2 attempts, fairness; 416 000 | accepted entradas are settled at every attempt, blocked deliveries are released, the task row agrees with its entrada |

Two deliveries are enough for every race on a key or on an event's unique
index, which are pairwise; the third party is the resolver or the
registration. Two resolvers are the dispute. Two attempts let one fail or die
anywhere and another find its remains, or fail or die too. Model values are not
declared symmetric because `ObraPedida` distinguishes them.

### Fairness

`SpecJusta` gives weak fairness to what the program's own machinery drives:
workers take queued jobs, an attempt advances or its handler runs, RQ's
scheduler (`with_scheduler=True`, `worker/index.py:43`) re-queues, and a request
that has begun goes on. Nothing is assumed about senders, failures, deaths or
registrations. Because `Falhar` and `Cair` are never obliged but always
possible, `AceitaTermina` must hold also when every attempt fails. It is stated
as `[]<>`: again and again there is a state in which no accepted entrada is in
progress, but for the two kinds that are lost, those of a request that died or
was refused between commit and enqueue and those of a job whose last attempt
ended without marking anything. `EntregaRespondida` likewise. Both are stronger
than "each leads to", since they speak of all entradas in one state, and
cheaper for TLC.

### Divergences recorded

The properties above hold with these exceptions, which are behaviours of the
code that its docs describe otherwise:

- a failed key is never claimed again (`ingestao_service.py:127` says that it
  is): after the last attempt redeliveries are answered `duplicate`;
- the same event redelivered after its obra was registered, or after the
  context changed, ends in an integrity error, not in the cached answer the
  ingestion skill describes (`SKILL.md:68` of `ingestao-telegram`);
- an entrada accepted for an unregistered obra remembers a key its delivery did
  not claim, so its failure marks none (hence `ComObra`); `ChaveFalhaDaEntrada`
  says that it never marks that of another delivery;
- two concurrent resolutions of one entrada create two documentos (hence
  `SemDisputa`); `DisputaLimitada` says that they do nothing worse: one
  documento for each, under an obra that one of them asked for.

### Proofs

`EntradasProofs` proves, for any sets of obras, events, requests, any number of
attempts and deaths, under two named assumptions: `ConstantesOK` (the kinds of
request are disjoint, `Nenhum` is no obra, event or request, the bounds are
naturals) and `EventosDistintos` (an event of Telegram is not the id of an
entrada).

1. `Inv1 == TypeOK /\ Coerencia` is inductive (`PassoInv1`, one step per
   action). Type correctness is not inductive alone: that `Gravar` keeps types
   needs to know that a request past `Receber` has an event, that `Iniciar`
   does needs the obra of a queued entrada. `Coerencia` says how requests,
   rows and jobs agree.
2. `UmaEntrada`: an event has one entrada. Rests on "each entrada of an event
   has its message" and the unique index in `Gravar`.
3. `RespostasVerdadeiras`: strengthened by "who has not answered has no
   answer".
4. `ArtefatosDoJob`: what a job has produced agrees with its phase; from it
   `CompletaComDocumento`, `EnvelopePrimeiro`, the first half of
   `RetentativaSegura`, and with `Inv1`, `PendenteSemTrabalho`.
5. `NadaEsquecido`: each step hands an entrada in progress from one party to
   the next (`PassoEmMaos`), and only the last attempt is given up
   (`PassoDesiste`).
6. `PassosLema` sorts the steps of `Next` by what they do to rows and jobs
   (`Quieto`, `Grava`, `Cria`, `Le`, `Resolve`, `Enfileira`, `Inicia`, `Anda`,
   `Conclui`, `Falha`). The theorems that follow have one case per kind of step
   instead of one per action.
7. `TarefaSempreAcompanha` (with: the entrada of a task is no event's) and
   `FalhaSempreMarcaChave` (`ChaveGravada`: the key an entrada remembers, if the
   obra was known, is in `chaves`, and has failed if the entrada has;
   `FalhaDaEntrada`: a key is marked only by the entrada its answer names,
   because an event has one entrada).
8. `SemDisputaUmSo`: an entrada nobody disputes has one documento, under its
   obra. `Disputas` says whose entrada each job is of, and that what a resolver
   read was born pending and stays so until a resolver commits: two jobs of one
   entrada are then a dispute (`UmJobLema`). `Cercadas` adds, of an entrada some
   resolver took, that its own obra, that of its running jobs and that of its
   documentos are ones its resolvers asked for: with `Disputas`, the second half
   of `RetentativaSegura`. `Incontestes` says that the obra of an undisputed entrada stands once its job has read
   it, and that a completed one has no job that could file it again. From it
   `CompletaSoReabre`.
9. The refinement. `Retrato` describes the three abstract variables by the
   rows: an item did not arrive, or is one entrada, accepted once, and filed as
   often as it has a documento, which is at most once. `Retrato` holds in each
   state without dispute; a step of the classified kinds is then a step of
   `Classificacao` or changes none of the rows (`PassoClassificacao`).
   `ImplementaSemDisputa` is the implementation on every behaviour without
   disputes, `ImplementaComUmResolvedor` its case of run `entregas`.

### Not modelled here

The Telegram answer of the worker (best effort, after the commit) and retry
intervals (a retry may come at any time). The media of a message are the
subject of `Diario`, several topics of a chat that of `Contextos`; here the
first only lengthen the step that classifies and the second are one chat.

## 4. Documentos and their publication

`Documentos` models one obra: draft creation, edit, decision, finalisation and
approve-and-finalise, for the RDO and the photo report. `documentos` and
`aprovacoes` are the committed rows; `bucket` the objects by key, with the
documento their sidecar names; `pc` and `pedido` where each request is and the
row it read; `trava` the request whose flushed approval holds the row
(`approve_and_finalize` flushes before it puts the PDF); `slug` and `fotos`
what else the keys and the reports depend on. A content is a version number
in one of three forms (HTML, its PDF, or neither, for a PDF taken as a draft).

Each operation reads its row, puts an object, and commits, in steps of their
own. With `UmProcesso` the check that a final key is free and its put are one
step (`Publicar`), otherwise two (`VerificarChave`, `PublicarVerificada`), as
`put_bytes` runs them. The obra (`rdo_service.py:264`) and the photos
(`foto_service.py:189`), awaited just before the put, are read in the step of
the put or of the check: what changes in between only makes the key or the
photos those of a moment earlier. A photo that cannot be read keeps its place
in the report, without its image.
Edits and decisions hold their row from the flush of their audit event
(`audit_service.py:29`) to the commit that follows it at once; here that is
their commit.

| Run | Instance | What it shows |
|---|---|---|
| `documentos_processo` | one process, 2 drafts of an RDO of one day, 2 requests at a time, 2 contents, one rename of the obra, no death; 1 122 000 states | the hash of the row is that of its object, the RDO published is one somebody approved, drafts have numbers of their own up to publication, a published object changes only after its documento was taken back, refinement of `Publicacao` |
| `documentos_replicas` | several processes, an RDO or photo draft, a triaged documento, 2 requests, a photo, 1 death; 750 000 | nothing is final, as row or as object, without a human decision; the row lock is held by who publishes and goes with it; reviewed photos are published |
| `achado_final` | one RDO, one request | the finding below |

Two requests at a time are all the races there are on one row or one key; two
drafts of one day are the race on the revision and on the final key; a rename
between draft and publication is what separates the key of the draft from the
final one. Deaths are in the run of several processes because the two in one
run exceed five minutes; the properties of the first that a death would break
name `disputa`, which contains who died.

`Publicacao` is the promise: a final key is written once, for a documento
somebody decided to approve, and a documento counts as published only under a
key of its own. It is implemented by one process, not by several: two that
both find the key free both write it (`bucket_service.py:182`). The
deployment starts one per replica.

**Finding** (`achado_final`): `docs/storage-taxonomy.md:56` says that objects
under `finalizados_pdf` are not overwritten. Rejecting a finalised RDO makes it
editable again with its final key, and `rdo_service.py:214` writes the edit
over the PDF. `FinalMudaSoReaberto` says that nothing else does it.

Divergences that appear as conditions of the properties:

- the final PDF is put before the commit of the approval, so a death leaves a
  final object without finalised documento (`docs/architecture.md:93`: only after a
  registered approval): `FinalDecidido` speaks of decisions asked for, not of committed ones;
- decisions are accepted in every status (the life cycle of `architecture.md:89`
  has arrows);
- an edit that slips between approval and publication is published
  (`guia-engenheiro:158`): `PublicaOAprovado` excepts `disputa`;
- photos that arrive after the draft are in the final report
  (`guia-engenheiro:117`): `FotosRevistasPublicadas` is one-sided;
- two drafts of one day requested together take the same revision: they are
  in `gemeos`, which `RevisaoUnica` and `AprovadoPublicavel` except;
- a triaged documento has revision 0 and the day of its publication, so it may
  take the final key of a draft of that day: `AprovadoPublicavel` excepts it.

**Proofs** (`DocumentosProofs`, any documentos, days, slugs, renames and
requests, any number of versions, photos and deaths, from
`DocumentosAssumption` and `NenhumAssumption`: `Nenhum` is no documento, key,
content or object). The steps are proved in groups (`Grupos`): those that read,
that put an object, that write a row, that give up.

1. `InvP` is inductive: types, the rows (`LinhasCertas`: the key of a row is
   the one its columns give it, and only a documento somebody approved has a
   final one), what requests hold of them (`PedidosCertos`), the row lock
   (`TravasCertas`), that a key in a row or in a request past its put has its
   object (`ObjetosGuardados`), and `FinalAprovado` itself. Hence
   `FinalSempreAprovado` and `TravasSempreEmOrdem`, with any number of processes.
2. `InvD` adds, with one process, that the object under a final key is of the
   documento whose row or whose publication names that key. With it each step
   is a step of `Publicacao` or leaves it alone: `ImplementaSempre`. This is
   where the put of another request between check and put is excluded.
3. `InvR` adds the revisions of drafts not inserted yet: `RevisaoSemprePropria`.
4. `InvH` adds that the only request on a documento in peace knows its row
   (`EmPaz`), and what its object holds at each point of that request
   (`GravadosCertos`): `HashSempreConfere`, and `FinalSempreMudaSoReaberto`.
5. `InvV` adds that what is approved was seen by who approved it:
   `PublicaSempreOAprovado`.
6. `InvF`, for photo reports, with any number of processes: the photos of what
   is stored, seen and published only grow in this order: `FotosSempreRevistas`.

`ImplementaSempre` and the theorems of 4 and 5 assume `UmProcesso`, as the run
`documentos_processo` does. With several processes TLC refutes three of the four
properties; for `PublicaOAprovado` it finds no counterexample on either instance,
and the condition comes from the proof, which uses `InvH`.

## 5. Measurements

`Medicoes`: `periodos` (the row of `medicao_periodos`), `reserva` (its
uncommitted insert, which makes others wait on the unique index), `medicoes`
(items by the request that committed them), `fechamento` (who closed, as
`metadata.fechamento`), `conferidas` (what the closing counted). A
registration reads the period, validates the items, creates the period if it
saw none, commits; a closing reads the period, validates what is there,
commits. `ImportarItem` makes budget items appear.

Run `medicoes`: 1 period, 1 code, 4 requests, 1 death, symmetric requests;
92 000 states. Four requests are a first registration that waits for another
one, one that is late, and a closing, or two closings with two registrations.
Periods do not interact.

`FechamentoIntegro` is the whole of it. Its exceptions are divergences: a
registration in progress along with the closing enters a closed period
uncounted (`docs/api-reference.md:357`), and two closings in progress together
both succeed (`api-reference.md:372`). The theorem says that these are all.

**Proofs** (`MedicoesProofs`, from `MedicoesAssumption` only, any number of
periods, codes, requests and deaths). `Inv1`, inductive, joins types, who
holds the row of a period (`ReservaDeQuemCria`), that such a period is not
committed yet (`ReservaInedita`), that a measurement has its period, and what
each request in progress has checked (`PedidosCertos`, `ItensAceitos`,
`FechamentosCertos`). `FechadoParaSempre` follows from `ReservaInedita`: whoever
is about to create a period creates one nobody closed. `FechamentoConfere`
needs a second invariant, `Inv2`: two requests in progress know each other
(`Conhecidos`), and what a closing has not counted was registered by one it
knows (`ContagemCerta`). Together: `FechamentoSempreIntegro`.

## 6. Budget, schedule and baseline

`Baseline`: `linhas` (both tables; a budget item is unique by its code, an
activity only by its id), `trava` and `escrita` (rows a transaction has
flushed), `obra` (its metadata), `objeto` (the snapshot of the day). An import
selects and writes its rows one by one; an approval validates, reads obra and
rows again in three statements, stores the snapshot, writes the metadata it
read with the baseline added; `upsert_obra` replaces the metadata. PostgreSQL
aborts an import that waits in a circle, of two or more (`Circulo`, `Impasse`,
marked external). `validate_baseline` counts the two tables in two statements
(`orcamento_service.py:124-131`); `Validar` is one step, which tells the same,
for no row is ever deleted.

Run `baseline`: 2 imports, 2 approvals, 1 edit, 2 codes, values 1 and 2,
batches of one row that differ in either column and of two rows in both
orders, 1 death, symmetric; 491 000 states. The batches are the smallest that
make an UPDATE touch one column of two, and two imports wait for each other.

It shows that imports that cross are not stuck and never both write a row;
that a code has one activity, columns agree with the stored payload, the
snapshot is the one the obra speaks of, and an edit stays — each but for
requests in progress together; and that an approved baseline is never empty,
with no exception. Divergences: an edit of the obra drops the baseline with
the rest of the metadata (`SKILL.md:56` of `cronograma`), an approval writes
back metadata an edit replaced meanwhile, `created_at` decides between two
activities of one code (the model lets it be any).

**Proofs** (`BaselineProofs`, any finite set of codes and of imports, any
values, batches, approvals, edits and deaths, from `BaselineAssumption` and
`NenhumAssumption`). `Inv` is inductive, and is a conjunction of parts each
proved from the parts before it:

- `InvT`, types and what each phase of a request has read;
- `InvJ`, requests in progress together know each other;
- `InvL`, `EscritaTravada`, locks are of imports in progress, and the row an
  import is about to send is one its transaction saw, or did not find;
- `InvU`, two activities of one code, in the table or on their way to it, are
  of imports that know each other: `AtividadeSempreUnica`;
- `InvC`, while imports do not meet, columns agree with the payload, also in
  rows not committed, and what a pending row was read as is still the row:
  `LinhaSempreCoerente`;
- `InvB`, an approval in progress found rows, and the snapshot is that of the
  baseline in the obra but for approvals that met: `BaselineSempreAprovado`;
- `InvE`, what an edit alone in its time has read of the obra still stands:
  `EdicaoSemprePrevalece`.

`TravasSempreEmOrdem` needs, besides `InvL`, that whoever waits only for
others that wait has a circle before it: the relation of waiting has a minimal
closed set (`TodaEsperaTemCirculo`, by well-foundedness of inclusion on finite
sets, which is why imports are assumed finite).

## 7. Telegram contexts

`Contextos`: one chat with its threads, upserts and deliveries. `linhas` holds
the row each upsert inserted, `trava` and `escrita` what is flushed,
`resposta` what a delivery resolved to. The upsert selects a row of any
status, inserts or updates it; the unique index judges active rows only
(`IndicePermite`, `IndiceOcupado`). A delivery reads thread, then chat, in two
statements.

Run `contextos`: 2 obras, the chat and one thread, 3 upserts, 1 delivery, 1
death, symmetric; 315 000 states. Three upserts are two that race and leave
two rows, and one that finds them.

No delivery ever meets two active rows (`EntregaResolve`), with no exception.
`RotaTemMotivo` is as strong as two statements allow: thread and chat may be
of two moments (`docs/operations.md:261`: pending when nothing resolves). Two upserts in
progress together can leave two rows of a topic, one inactive, after which
every upsert of it fails; `TopicoIntegro` says that nothing else leads there.

**Proofs** (`ContextosProofs`, any obras, threads, upserts and deliveries, from
`ContextosAssumption`; upserts are finite, for the code counts rows). `Inv1`
is inductive: types, the row each upsert inserted, who holds it
(`TravasCertas`), one active row per topic (`AtivaUnica`), and that an upsert
that has flushed an active row found no other active one, committed or not
(`EscritaPermitida`), without which the unique index would not be enough.
`Inv3` adds what a delivery has noted of the tables (`VistasCertas`):
`EntregaResolveSempre`, `RotaTemMotivoSempre`. `Inv2` adds that upserts in
progress together know each other, and that one that found no row knows whoever
has inserted one since (`Conhecidos`): `TopicoIntegroSempre`.

## 8. Limits and event marks

`Limites`: `contador` (value and remaining life), `marca` of each event, and
each request's progress: authentication, one counter after the other (INCR;
EXPIRE when it returned 1; comparison), the mark (SET NX EX), allowlist,
ingestion. Every Redis command is a step. `Tique` is time passing in Redis.
The HMAC is an oracle: a request whose credentials are refused changes nothing
and is left out. `TaxaLigada` is `rate_limit_enabled`: without it, as without
authentication, nothing is counted or marked. Redis may refuse a command: INCR
or SET before it does anything (`FalharRedis`), or EXPIRE after the counter was
incremented (`PerderPrazo`), which leaves a counter without expiry although no
process died.

Run `limites`: a user's counter of limit 2, a chat's of limit 1, 1 event, 2
requests at a time, life 1 of a counter and 2 of a mark (the code's ratio is
10; what matters is that a mark outlives a window), limits on, 1 failure, 1
death or refused EXPIRE (`MaxQuedas`), 2 arrivals of no consequence; 249 000
states.

Fairness (`SpecJusta`): time passes, a request that is in progress goes on, and
the sender of an event sends it again while it is not recorded and not in
progress: the OpenClaw gateway retries (external). Failures and deaths are
never obliged. Under it `EventoChega`: if no process dies and Redis
refuses no EXPIRE, the event is recorded in the end, whatever its retries spend
and however often the mark refuses them. The antecedent is needed: a death
between INCR and EXPIRE, or a refused EXPIRE, leaves a counter that never expires (`docs/operations.md:170` gives the limits
per minute). `RepetidoFoiRecebido` has `perdidos` because the mark survives a
failed ingestion, so the retry is told "already received" of an event that was
not (`rate_limit_service.py:76`); also a redelivery within the mark's life is
refused with 429, not answered from the cached response.

**Proofs** (`LimitesProofs`, any counters, limits, routes, windows, requests,
failures and deaths, from `LimitesAssumption`). `InvC`: a counter that one request has
incremented to 1 and not yet given an expiry has none, and no other request is
at that point (`DonoUnico`); the counter covers whoever was let through and the
request at that point, who will be (`CotaReservada`): `ContadoresSempreEmOrdem`. `InvM`: an event that is marked was
recorded, lost by a request that failed, or is being ingested
(`MarcasExplicadas`): `RepetidoSempreRecebido`.

## 9. Media and the aggregation of a day

`Diario`: the job of a message files each `MediaRef` in turn (object put and
`Arquivo` flushed, then description or transcription), then triage and the one
commit; failures of a media are recorded and swallowed; attempts fail, die and
are repeated. An aggregation of a day reads five tables in five statements,
while jobs commit. Photos are listed by their day, the rest through the
entradas found.

Run `diario`: 2 messages of 2 days, a photo with a voice message and a
document with a photo, 1 aggregation, 2 attempts, 1 death; 956 000 states.
Two kinds of media per message put each failure before and after a success;
a message received between two statements of an aggregation is one of the two.

`MidiaArquivada`: one file, one object, one account of each media, whatever
attempt died where. `AgregadoCompleto` holds because triages are read first:
the order of the statements matters, and its mutant swaps them. The reverse
holds only when nothing was committed meanwhile (`AgregadoFechado`, `mudou`).
The aggregate has no baseline, which `docs/architecture.md:98` lists in it.

**Proofs** (`DiarioProofs`, any messages, media, days, aggregations, attempts
and deaths, from `DiarioAssumption`). `InvM` adds to the types what the session
of a job holds when it is at its n-th media (`SessaoCerta`: rows of this attempt
only, each with its object, and a row or an error for each media before):
`MidiaSempreArquivada`. `InvA` adds that an aggregation has, of each message
whose triage it read, all the rows of the tables it has read since
(`LeituraCerta`), and that it holds what the tables hold while nothing is
committed (`LeituraAtual`): `AgregadoSempreCoerente`.

## 10. Body limit

`Corpo`: one request whose body comes in blocks, announced or not, before an
application that may answer before it read everything (`asgi`) or reads first
and turns any exception into a 400 (`fastapi`, external). Left out: a client
that disconnects (`http.disconnect`), to whom no answer is owed, and exceptions
of the application that have nothing to do with the limit, which the middleware
lets pass.

Run `corpo_limite`: limit 4, up to 7 units in blocks of 0 to 3; 184 states,
all there are. `RespostaCerta`: one answer, 413 above the limit, but for a body
that was not announced and that a FastAPI route was reading: 400
(`docs/api-reference.md:29` says 413).

**Proofs** (`CorpoProofs`, any limit, blocks and total, from `CorpoAssumption`):
`EntregaSempreLimitada` (what was delivered never exceeds what was counted, and
counting stops at the limit) and `RespostaSempreCerta`, whose invariant adds
that `response_started` tells whether the one answer was sent until the request
is over (`Respondidas`), and that an application that was called has an
announcement, if any, within the limit (`Limitadas`).

## 11. What is proved, and what is not

A theorem is about every value of the constants that meet the assumptions of
its module; the bounds of the modules (deaths, attempts, versions, failures)
are constants of it, of any size. The assumptions say that the kinds of
request differ, that `Nenhum` is a value of its own, that bounds are naturals
and, in `Baseline` and `Contextos`, that there are finitely many imports, codes
and upserts. TLC evaluates each on the instances of the runs. Every inductive
invariant was checked by TLC on an instance before it was proved.

Two groups of theorems have a condition of their own. `UmProcesso`
(section 4): two processes that find a final key free both write it, which is
the behaviour of the code that section describes. "No dispute", or one resolver,
for the refinement of `Classificacao` (section 3): two resolvers of one entrada
may file it twice, and no other theorem about the ingestion needs it, because
`SemDisputaUmDocumento` carries the exception in its statement.

Only model-checked:

- `AceitaTermina`, `EntregaRespondida` and `EventoChega`, which are liveness
  under fairness, and rest on `ENABLED`;
- `FinalImutavel`, which the run `achado_final` refutes.

Induction over data is out of the prover's reach too. No model needs it: where
the code loops over a batch, the media of a message or the counters of a route,
each turn of the loop is a step, and the loop is covered by the invariant; the
one place that needed an induction, waits that form a circle, uses a minimal
element instead.

## 12. What is not modelled

- Configuration, logging, errors and health keep no state; settings are
  constants of the modules. The audit log is append-only, written in the
  transactions of the operations, and nothing reads it.
- The pages of the admin panel only read; its forms call the services
  modelled. The limit of login attempts is a counter of `Limites`.
- What OpenAI answers, the HTTP exchange with Telegram and the reply to the
  engineer: success or failure is modelled where state depends on it.
- HTML and PDF: a PDF is an injective image of its HTML.
- Triage heuristics, prefix extraction, normalisation of periods and names:
  string processing whose result is data to every model here.
- Migrations: the tables and unique indexes they leave are the state of the
  modules; they run alone, before the program.
