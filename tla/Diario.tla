------------------------------- MODULE Diario -------------------------------
(***************************************************************************)
(* The evidence of the days of one obra: jobs that file the media of a     *)
(* message and its triage in one transaction, and requests that aggregate  *)
(* a day with one statement per table while those jobs commit.             *)
(***************************************************************************)
EXTENDS Naturals, Sequences, FiniteSets

CONSTANTS Entradas,
          Midias,       \* kinds of the MediaRefs of an entrada, in order
          Dia,          \* day of its message, or Nenhum
          Conteudo,     \* the bytes of its media, identified by their hash
          Dias,
          Agregadores,  \* requests, each of one day
          MaxTentativas,
          MaxQuedas,    \* bound: worker processes that die inside a job
          Nenhum

Tipos == {"foto", "audio", "documento"}

ASSUME DiarioAssumption ==
    /\ Midias \in [Entradas -> Seq(Tipos)]
    /\ Dia \in [Entradas -> Dias \cup {Nenhum}] /\ Nenhum \notin Dias
    /\ MaxTentativas \in Nat \ {0} /\ MaxQuedas \in Nat

VARIABLES status,      \* entradas_brutas.status
          fase,        \* where the job of each entrada is
          tentativa,
          vez,         \* index of the MediaRef in progress
          sessao,      \* rows flushed and not committed, errors so far
          arquivos, derivados, triagens,  \* committed rows
          relatadas,   \* documento.metadata_json.midias: outcome by ref
          bucket,      \* binary objects
          leitor, passo, dia, lido,  \* aggregations and what they have read
          mudou,       \* history: something was committed since it began
          quedas

jobVars == <<status, fase, tentativa, vez, sessao>>
tabelas == <<arquivos, derivados, triagens, relatadas>>
agregacao == <<leitor, passo, dia, lido>>
vars == <<jobVars, tabelas, bucket, agregacao, mudou, quedas>>

Refs(e) == 1..Len(Midias[e])
(* A row remembers which attempt wrote it.                                 *)
Linha(e) == [entrada |-> e, ref |-> vez[e], tentativa |-> tentativa[e]]
TipoDe(l) == Midias[l.entrada][l.ref]

(* build_arquivo_key: by hash, photos with a day under that day.           *)
Objeto(e, n) ==
    [tipo |-> Midias[e][n], conteudo |-> Conteudo[e],
     dia |-> IF Midias[e][n] = "foto" THEN Dia[e] ELSE Nenhum]

(* Foto.data_foto                                                          *)
DiaDaFoto(e) == Dia[e]

SemSessao == [arquivos |-> {}, derivados |-> {}, erros |-> {}]
NadaLido == [entradas |-> {}, triagens |-> {}, arquivos |-> {}, fotos |-> {},
             audios |-> {}]

Init ==
    /\ status = [e \in Entradas |-> "ausente"]
    /\ fase = [e \in Entradas |-> "nenhuma"]
    /\ tentativa = [e \in Entradas |-> 0]
    /\ vez = [e \in Entradas |-> 1]
    /\ sessao = [e \in Entradas |-> SemSessao]
    /\ arquivos = {} /\ derivados = {} /\ triagens = {}
    /\ relatadas = [e \in Entradas |-> {}]
    /\ bucket = {}
    /\ leitor = [a \in Agregadores |-> "livre"]
    /\ dia = [a \in Agregadores |-> Nenhum]
    /\ lido = [a \in Agregadores |-> NadaLido]
    /\ passo = [a \in Agregadores |-> 1]
    /\ mudou = [a \in Agregadores |-> FALSE]
    /\ quedas = 0

(* A commit is seen by the statements that follow it.                      *)
Comitar == mudou' = [a \in Agregadores |-> mudou[a] \/ leitor[a] = "lendo"]

(* A message is accepted and its job enqueued.                             *)
Receber(e) ==
    /\ status[e] = "ausente"
    /\ status' = [status EXCEPT ![e] = "received"]
    /\ fase' = [fase EXCEPT ![e] = "fila"]
    /\ tentativa' = [tentativa EXCEPT ![e] = 1]
    /\ Comitar
    /\ UNCHANGED <<vez, sessao, tabelas, bucket, agregacao, quedas>>

-----------------------------------------------------------------------------
(* One attempt of the job *)

Iniciar(e) ==
    /\ fase[e] = "fila"
    /\ status' = [status EXCEPT ![e] = "processing"]
    /\ fase' = [fase EXCEPT ![e] = "iniciada"]
    /\ UNCHANGED <<tentativa, vez, sessao, tabelas, bucket, agregacao,
                   mudou, quedas>>

JaTriada(e) == \E t \in triagens : t.entrada = e

(* Artefacts of an earlier attempt end the work.                           *)
Carregar(e) ==
    /\ fase[e] = "iniciada"
    /\ fase' = [fase EXCEPT ![e] = IF JaTriada(e) THEN "retomada" ELSE "midia"]
    /\ vez' = [vez EXCEPT ![e] = 1]
    /\ sessao' = [sessao EXCEPT ![e] = SemSessao]
    /\ UNCHANGED <<status, tentativa, tabelas, bucket, agregacao,
                   mudou, quedas>>

EmMidia(e) == fase[e] = "midia" /\ vez[e] \in Refs(e)
Avancar(e) == vez' = [vez EXCEPT ![e] = @ + 1]

Guardado(e) == bucket \cup {Objeto(e, vez[e])}

(* Downloaded within its limit, the object is put and the Arquivo flushed. *)
PersistirArquivo(e) ==
    /\ EmMidia(e)
    /\ bucket' = Guardado(e)
    /\ sessao' = [sessao EXCEPT ![e].arquivos = @ \cup {Linha(e)}]
    /\ IF Midias[e][vez[e]] = "documento"
       THEN Avancar(e) /\ UNCHANGED fase
       ELSE fase' = [fase EXCEPT ![e] = "ia"] /\ UNCHANGED vez
    /\ UNCHANGED <<status, tentativa, tabelas, agregacao, mudou, quedas>>

(* describe_image or transcribe_audio answered: Foto or AudioTranscricao.  *)
Derivar(e) ==
    /\ fase[e] = "ia"
    /\ sessao' = [sessao EXCEPT ![e].derivados = @ \cup {Linha(e)}]
    /\ fase' = [fase EXCEPT ![e] = "midia"]
    /\ Avancar(e)
    /\ UNCHANGED <<status, tentativa, tabelas, bucket, agregacao,
                   mudou, quedas>>

ComErro(e) == sessao[e].erros \cup {vez[e]}

(* The download, a size above the limit, the put or the AI raised: the     *)
(* media is given up with an error, what it flushed stays in the session.  *)
FalharMidia(e) ==
    /\ EmMidia(e) \/ fase[e] = "ia"
    /\ sessao' = [sessao EXCEPT ![e].erros = ComErro(e)]
    /\ fase' = [fase EXCEPT ![e] = "midia"]
    /\ Avancar(e)
    /\ UNCHANGED <<status, tentativa, tabelas, bucket, agregacao,
                   mudou, quedas>>

(* run_triagem and persist_documento_triagem, then the final commit, with  *)
(* everything the session holds.                                           *)
Concluir(e) ==
    /\ fase[e] = "midia" /\ vez[e] \notin Refs(e)
    /\ arquivos' = arquivos \cup sessao[e].arquivos
    /\ derivados' = derivados \cup sessao[e].derivados
    /\ triagens' = triagens \cup {[entrada |-> e, tentativa |-> tentativa[e]]}
    /\ relatadas' = [relatadas EXCEPT ![e] = sessao[e].erros]
    /\ status' = [status EXCEPT ![e] = "completed"]
    /\ fase' = [fase EXCEPT ![e] = "concluida"]
    /\ Comitar
    /\ UNCHANGED <<tentativa, vez, sessao, bucket, agregacao, quedas>>

ConcluirRetomada(e) ==
    /\ fase[e] = "retomada"
    /\ status' = [status EXCEPT ![e] = "completed"]
    /\ fase' = [fase EXCEPT ![e] = "concluida"]
    /\ UNCHANGED <<tentativa, vez, sessao, tabelas, bucket, agregacao,
                   mudou, quedas>>

EmExecucao == {"iniciada", "retomada", "midia", "ia"}

RestaTentativa(e) == tentativa[e] < MaxTentativas

(* Retry(max=RQ_RETRY_MAX); what was flushed is rolled back.               *)
Reagendar(e) ==
    /\ IF RestaTentativa(e)
       THEN fase' = [fase EXCEPT ![e] = "fila"] /\ tentativa' = [tentativa EXCEPT ![e] = @ + 1]
       ELSE fase' = [fase EXCEPT ![e] = "esgotada"] /\ UNCHANGED tentativa
    /\ sessao' = [sessao EXCEPT ![e] = SemSessao]

(* Mutant: the session is committed with the status of the failure.        *)
ComitarParcial(e) == arquivos' = arquivos \cup sessao[e].arquivos
Desfazer(e) == e \in Entradas /\ UNCHANGED arquivos

(* The triage, the envelope or the database raised: rollback, "failed",    *)
(* and a retry if one is left.                                             *)
Falhar(e) ==
    /\ fase[e] \in EmExecucao
    /\ status' = [status EXCEPT ![e] = "failed"]
    /\ Reagendar(e) /\ Desfazer(e)
    /\ UNCHANGED <<vez, derivados, triagens, relatadas, bucket, agregacao,
                   mudou, quedas>>

(* The process dies, before or after the commit.                           *)
Cair(e) ==
    /\ quedas < MaxQuedas /\ fase[e] \in EmExecucao \cup {"concluida"}
    /\ quedas' = quedas + 1
    /\ Reagendar(e)
    /\ UNCHANGED <<status, vez, tabelas, bucket, agregacao, mudou>>

-----------------------------------------------------------------------------
(* aggregate_daily_rdo *)

(* A day without entradas is NotFound.                                     *)
LerEntradas(a, d) ==
    LET es == {e \in Entradas : status[e] # "ausente" /\ Dia[e] = d} IN
    /\ leitor[a] = "livre"
    /\ leitor' = [leitor EXCEPT ![a] = IF es = {} THEN "recusado" ELSE "lendo"]
    /\ dia' = [dia EXCEPT ![a] = d]
    /\ lido' = [lido EXCEPT ![a].entradas = es]
    /\ UNCHANGED <<jobVars, tabelas, bucket, passo, mudou, quedas>>

(* Mutant: the files are listed before the triages.                        *)
ArquivosPrimeiro == <<"arquivos", "triagens", "fotos", "audios">>
Ordem == <<"triagens", "arquivos", "fotos", "audios">>

(* Photos are listed by their day, the rest by the entradas found.         *)
Listar(a, tabela) ==
    LET dos(S) == {l \in S : l.entrada \in lido[a].entradas} IN
    CASE tabela = "triagens" -> dos(triagens)
      [] tabela = "arquivos" -> dos(arquivos)
      [] tabela = "fotos" -> {l \in derivados : TipoDe(l) = "foto"
                                                /\ DiaDaFoto(l.entrada) = dia[a]}
      [] tabela = "audios" -> {l \in dos(derivados) : TipoDe(l) = "audio"}

LerTabela(a) ==
    /\ leitor[a] = "lendo"
    /\ lido' = [lido EXCEPT ![a][Ordem[passo[a]]] = Listar(a, Ordem[passo[a]])]
    /\ IF passo[a] = Len(Ordem)
       THEN leitor' = [leitor EXCEPT ![a] = "pronto"] /\ UNCHANGED passo
       ELSE passo' = [passo EXCEPT ![a] = @ + 1] /\ UNCHANGED leitor
    /\ UNCHANGED <<jobVars, tabelas, bucket, dia, mudou, quedas>>

-----------------------------------------------------------------------------
PassoJob(e) ==
    \/ Iniciar(e) \/ Carregar(e) \/ PersistirArquivo(e) \/ Derivar(e)
    \/ FalharMidia(e) \/ Concluir(e) \/ ConcluirRetomada(e)
    \/ Falhar(e) \/ Cair(e)

Next ==
    \/ \E e \in Entradas : Receber(e) \/ PassoJob(e)
    \/ \E a \in Agregadores : (\E d \in Dias : LerEntradas(a, d)) \/ LerTabela(a)

Spec == Init /\ [][Next]_vars

-----------------------------------------------------------------------------
Linhas == [entrada : Entradas, ref : Nat, tentativa : 1..MaxTentativas]

(* Every variable has its type.                                            *)
TypeOK ==
    /\ status \in [Entradas -> {"ausente", "received", "processing", "completed",
                                "failed"}]
    /\ fase \in [Entradas -> EmExecucao \cup {"nenhuma", "fila", "concluida", "esgotada"}]
    /\ tentativa \in [Entradas -> 0..MaxTentativas] /\ vez \in [Entradas -> Nat]
    /\ sessao \in [Entradas -> [arquivos : SUBSET Linhas, derivados : SUBSET Linhas,
                                erros : SUBSET Nat]]
    /\ arquivos \subseteq Linhas /\ derivados \subseteq Linhas
    /\ triagens \subseteq [entrada : Entradas, tentativa : 1..MaxTentativas]
    /\ relatadas \in [Entradas -> SUBSET Nat]
    /\ leitor \in [Agregadores -> {"livre", "lendo", "pronto", "recusado"}]
    /\ passo \in [Agregadores -> 1..4] /\ dia \in [Agregadores -> Dias \cup {Nenhum}]
    /\ mudou \in [Agregadores -> BOOLEAN] /\ quedas \in Nat

(* A media has one file, one description or transcription and its message  *)
(* one triage, whatever attempt died where: a retry begins from nothing or *)
(* finds everything.                                                       *)
UmaLinhaPorMidia ==
    /\ \A l, m \in arquivos : l.entrada = m.entrada /\ l.ref = m.ref => l = m
    /\ \A l, m \in derivados : l.entrada = m.entrada /\ l.ref = m.ref => l = m
    /\ \A s, t \in triagens : s.entrada = t.entrada => s = t

(* A committed row of Arquivo has its object, though the bucket is not     *)
(* part of the transaction, and one of Foto or AudioTranscricao its file.  *)
LinhaTemObjeto ==
    /\ \A l \in arquivos : Objeto(l.entrada, l.ref) \in bucket
    /\ derivados \subseteq arquivos

(* A message that was filed accounts for each of its media: the file and   *)
(* its description are there, or the documento records an error.           *)
MidiaRelatada ==
    \A t \in triagens : \A n \in Refs(t.entrada) :
        \/ n \in relatadas[t.entrada]
        \/ /\ \E l \in arquivos : l.entrada = t.entrada /\ l.ref = n
           /\ Midias[t.entrada][n] # "documento" =>
                 \E l \in derivados : l.entrada = t.entrada /\ l.ref = n

(* One row, one object and one account of each media of a message.         *)
MidiaArquivada == TypeOK /\ UmaLinhaPorMidia /\ LinhaTemObjeto /\ MidiaRelatada

(* An aggregate never shows the triage of a message without the files,     *)
(* photos and audios filed with it, though each table is read by a         *)
(* statement of its own between commits.                                   *)
AgregadoCompleto ==
    \A a \in Agregadores : leitor[a] = "pronto" =>
        \A t \in lido[a].triagens :
            /\ {l \in arquivos : l.entrada = t.entrada} \subseteq lido[a].arquivos
            /\ {l \in derivados : l.entrada = t.entrada}
                  \subseteq lido[a].fotos \cup lido[a].audios

(* When nothing was committed while it read, the photos listed by day and  *)
(* the rest listed by entrada are of the same messages.                    *)
AgregadoFechado ==
    \A a \in Agregadores : leitor[a] = "pronto" /\ ~mudou[a] =>
        lido[a].fotos \cup lido[a].audios \subseteq lido[a].arquivos

(* What a day shows belongs together, in both ways.                        *)
AgregadoCoerente == AgregadoCompleto /\ AgregadoFechado
=============================================================================
