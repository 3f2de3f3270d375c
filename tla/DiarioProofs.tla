---------------------------- MODULE DiarioProofs ----------------------------
(***************************************************************************)
(* Proofs about Diario, for any messages, media, days, attempts, deaths of *)
(* workers and any number of aggregations.                                 *)
(***************************************************************************)
EXTENDS Diario, TLAPS

EmSessao(e) == fase[e] \in {"midia", "ia"}

(* A media the attempt has gone past is in the session, or is an error.    *)
Contada(e, n) ==
    \/ n \in sessao[e].erros
    \/ /\ \E l \in sessao[e].arquivos : l.entrada = e /\ l.ref = n
       /\ Midias[e][n] # "documento" => \E l \in sessao[e].derivados : l.entrada = e /\ l.ref = n

(* What the open session of an attempt holds, all of it of this attempt.   *)
SessaoCerta(e) ==
    EmSessao(e) =>
        /\ ~JaTriada(e) /\ vez[e] >= 1
        /\ \A l \in sessao[e].arquivos :
              /\ l.entrada = e /\ l.tentativa = tentativa[e]
              /\ Objeto(e, l.ref) \in bucket
        /\ sessao[e].derivados \subseteq sessao[e].arquivos
        /\ \A l \in sessao[e].derivados : TipoDe(l) \in {"foto", "audio"}
        /\ fase[e] = "ia" => /\ vez[e] \in Refs(e) /\ Midias[e][vez[e]] # "documento"
                             /\ Linha(e) \in sessao[e].arquivos
        /\ \A n \in Refs(e) : n < vez[e] => Contada(e, n)

(* Only the commit that files a message adds rows of it.                   *)
FasesCertas ==
    \A e \in Entradas : /\ fase[e] = "nenhuma" <=> status[e] = "ausente"
                        /\ fase[e] # "nenhuma" => tentativa[e] >= 1
LinhasCertas ==
    /\ \A l \in arquivos \cup derivados : JaTriada(l.entrada)
    /\ \A l \in derivados : TipoDe(l) \in {"foto", "audio"}
    /\ \A t \in triagens : status[t.entrada] # "ausente"

InvM == /\ TypeOK /\ FasesCertas /\ LinhasCertas
        /\ \A e \in Entradas : SessaoCerta(e)
        /\ UmaLinhaPorMidia /\ LinhaTemObjeto /\ MidiaRelatada

(* Which tables an aggregation has read, and that what it holds of the     *)
(* messages it lists is complete.                                          *)
Tabelas == [entradas : SUBSET Entradas,
            triagens : SUBSET [entrada : Entradas, tentativa : 1..MaxTentativas],
            arquivos : SUBSET Linhas, fotos : SUBSET Linhas, audios : SUBSET Linhas]
Lendo(a) == leitor[a] \in {"lendo", "pronto"}
LeituraCerta(a) ==
    /\ leitor[a] \in {"livre", "recusado"} => passo[a] = 1
    /\ leitor[a] = "pronto" => passo[a] = 4
    /\ passo[a] = 1 => lido[a].triagens = {}
    /\ passo[a] <= 2 => lido[a].fotos = {} /\ lido[a].audios = {}
    /\ \A e \in lido[a].entradas : Lendo(a) => Dia[e] = dia[a]
    /\ \A t \in lido[a].triagens :
          /\ t \in triagens /\ t.entrada \in lido[a].entradas
          /\ passo[a] >= 3 => {l \in arquivos : l.entrada = t.entrada} \subseteq lido[a].arquivos
          /\ passo[a] = 4 => {l \in derivados : l.entrada = t.entrada /\ TipoDe(l) = "foto"}
                                 \subseteq lido[a].fotos
          /\ leitor[a] = "pronto" =>
                {l \in derivados : l.entrada = t.entrada /\ TipoDe(l) = "audio"}
                    \subseteq lido[a].audios
(* Without commits since it began, it holds what the tables hold.          *)
LeituraAtual(a) ==
    ~mudou[a] /\ Lendo(a) =>
        /\ lido[a].fotos \cup lido[a].audios \subseteq lido[a].arquivos
        /\ leitor[a] = "lendo" =>
              /\ \A e \in Entradas : status[e] # "ausente" /\ Dia[e] = dia[a]
                                       => e \in lido[a].entradas
              /\ passo[a] >= 3 => {l \in arquivos : l.entrada \in lido[a].entradas}
                                      \subseteq lido[a].arquivos
InvA == /\ InvM /\ lido \in [Agregadores -> Tabelas]
        /\ \A a \in Agregadores : LeituraCerta(a) /\ LeituraAtual(a)

-----------------------------------------------------------------------------
(* Types                                                                   *)

LEMMA Referencias ==
    ASSUME NEW e \in Entradas
    PROVE  /\ Midias[e] \in Seq(Tipos) /\ Len(Midias[e]) \in Nat
           /\ \A n \in Refs(e) : n \in Nat /\ n >= 1 /\ Midias[e][n] \in Tipos
BY DiarioAssumption DEF Refs

LEMMA TipoDaLinha ==
    ASSUME TypeOK, FasesCertas, NEW e \in Entradas, fase[e] # "nenhuma"
    PROVE  /\ Linha(e) \in Linhas /\ Linha(e).entrada = e /\ Linha(e).ref = vez[e]
           /\ Linha(e).tentativa = tentativa[e] /\ tentativa[e] \in 1..MaxTentativas
BY DiarioAssumption DEF TypeOK, FasesCertas, Linha, Linhas

LEMMA IguaisPorCampos ==
    ASSUME NEW l \in Linhas, NEW m \in Linhas, l.entrada = m.entrada, l.ref = m.ref,
           l.tentativa = m.tentativa
    PROVE  l = m
BY DEF Linhas

Fases == EmExecucao \cup {"nenhuma", "fila", "concluida", "esgotada"}
Sessoes == [arquivos : SUBSET Linhas, derivados : SUBSET Linhas, erros : SUBSET Nat]

LEMMA NovaSessao ==
    ASSUME NEW s \in Sessoes, NEW S \in SUBSET Linhas, NEW E \in SUBSET Nat
    PROVE  /\ [s EXCEPT !.arquivos = S] \in Sessoes
           /\ [s EXCEPT !.derivados = S] \in Sessoes
           /\ [s EXCEPT !.erros = E] \in Sessoes
           /\ SemSessao \in Sessoes
BY DEF Sessoes, SemSessao

(* What a step writes of one message.                                      *)
LEMMA Escrevendo ==
    ASSUME TypeOK, NEW e \in Entradas, NEW f \in Fases, NEW s \in Sessoes
    PROVE  /\ fase' = [fase EXCEPT ![e] = f] =>
                 /\ fase' \in [Entradas -> Fases] /\ fase'[e] = f
                 /\ \A x \in Entradas \ {e} : fase'[x] = fase[x]
           /\ sessao' = [sessao EXCEPT ![e] = s] =>
                 /\ sessao' \in [Entradas -> Sessoes] /\ sessao'[e] = s
                 /\ \A x \in Entradas \ {e} : sessao'[x] = sessao[x]
           /\ Avancar(e) =>
                 /\ vez' \in [Entradas -> Nat] /\ vez'[e] = vez[e] + 1
                 /\ \A x \in Entradas \ {e} : vez'[x] = vez[x]
           /\ sessao[e] \in Sessoes /\ vez[e] \in Nat /\ fase[e] \in Fases
           /\ sessao[e].arquivos \subseteq Linhas /\ sessao[e].derivados \subseteq Linhas
           /\ sessao[e].erros \subseteq Nat
<1>1. /\ fase \in [Entradas -> Fases] /\ sessao \in [Entradas -> Sessoes]
      /\ vez \in [Entradas -> Nat]
  BY DEF TypeOK, Fases, Sessoes
<1>2. /\ sessao[e].arquivos \subseteq Linhas /\ sessao[e].derivados \subseteq Linhas
      /\ sessao[e].erros \subseteq Nat
  BY <1>1 DEF Sessoes
<1>3. ASSUME Avancar(e)
      PROVE  /\ vez' \in [Entradas -> Nat] /\ vez'[e] = vez[e] + 1
             /\ \A x \in Entradas \ {e} : vez'[x] = vez[x]
  BY <1>1, <1>3 DEF Avancar
<1>4. ASSUME fase' = [fase EXCEPT ![e] = f]
      PROVE  /\ fase' \in [Entradas -> Fases] /\ fase'[e] = f
             /\ \A x \in Entradas \ {e} : fase'[x] = fase[x]
  BY <1>1, <1>4
<1>5. ASSUME sessao' = [sessao EXCEPT ![e] = s]
      PROVE  /\ sessao' \in [Entradas -> Sessoes] /\ sessao'[e] = s
             /\ \A x \in Entradas \ {e} : sessao'[x] = sessao[x]
  BY <1>1, <1>5
<1>. QED
  BY <1>1, <1>2, <1>3, <1>4, <1>5

LEMMA NomesDasFases ==
    {"iniciada", "retomada", "midia", "ia", "nenhuma", "fila", "concluida", "esgotada"} = Fases
BY DEF Fases, EmExecucao

LEMMA Reagendando ==
    ASSUME TypeOK, NEW e \in Entradas, Reagendar(e)
    PROVE  /\ fase' \in [Entradas -> Fases] /\ sessao' \in [Entradas -> Sessoes]
           /\ fase'[e] \in {"fila", "esgotada"} /\ tentativa' \in [Entradas -> 0..MaxTentativas]
           /\ tentativa'[e] >= tentativa[e] /\ sessao'[e] = SemSessao
           /\ \A x \in Entradas \ {e} : /\ fase'[x] = fase[x] /\ tentativa'[x] = tentativa[x]
                                        /\ sessao'[x] = sessao[x]
<1>0. "fila" \in Fases /\ "esgotada" \in Fases /\ SemSessao \in Sessoes
  BY NomesDasFases DEF SemSessao, Sessoes
<1>1. sessao' = [sessao EXCEPT ![e] = SemSessao]
  BY DEF Reagendar
<1>2. CASE RestaTentativa(e)
  <2>1. fase' = [fase EXCEPT ![e] = "fila"] /\ tentativa' = [tentativa EXCEPT ![e] = @ + 1]
    BY <1>2 DEF Reagendar
  <2>2. tentativa[e] + 1 \in 0..MaxTentativas
    BY <1>2, DiarioAssumption DEF TypeOK, RestaTentativa
  <2>3. /\ tentativa' \in [Entradas -> 0..MaxTentativas] /\ tentativa'[e] >= tentativa[e]
        /\ \A x \in Entradas \ {e} : tentativa'[x] = tentativa[x]
    BY <2>1, <2>2, DiarioAssumption DEF TypeOK
  <2>. QED
    BY <1>0, <1>1, <2>1, <2>3, Escrevendo
<1>3. CASE ~RestaTentativa(e)
  <2>1. fase' = [fase EXCEPT ![e] = "esgotada"] /\ tentativa' = tentativa
    BY <1>3 DEF Reagendar
  <2>2. tentativa' \in [Entradas -> 0..MaxTentativas] /\ tentativa'[e] >= tentativa[e]
    BY <2>1, DiarioAssumption DEF TypeOK
  <2>. QED
    BY <1>0, <1>1, <2>1, <2>2, Escrevendo
<1>. QED
  BY <1>2, <1>3

LEMMA Comitando ==
    ASSUME TypeOK, Comitar
    PROVE  /\ mudou' \in [Agregadores -> BOOLEAN]
           /\ \A a \in Agregadores : leitor[a] = "lendo" => mudou'[a]
           /\ \A a \in Agregadores : leitor[a] # "lendo" => mudou'[a] = mudou[a]
BY DEF TypeOK, Comitar

(* The steps of a job, of the message e.                                   *)
Passo(e) == Receber(e) \/ PassoJob(e)
Alheias(e) == \A x \in Entradas \ {e} :
    /\ status'[x] = status[x] /\ fase'[x] = fase[x] /\ tentativa'[x] = tentativa[x]
    /\ vez'[x] = vez[x] /\ sessao'[x] = sessao[x]

LEMMA PassoAlheio ==
    ASSUME TypeOK, NEW e \in Entradas, Passo(e)
    PROVE  Alheias(e) /\ bucket \subseteq bucket' /\ UNCHANGED agregacao
<1>1. CASE Falhar(e) \/ Cair(e)
  BY <1>1, Reagendando DEF Falhar, Cair, TypeOK, Alheias, tabelas
<1>2. CASE Receber(e) \/ Iniciar(e) \/ Carregar(e) \/ Derivar(e) \/ FalharMidia(e)
           \/ Concluir(e) \/ ConcluirRetomada(e)
  BY <1>2 DEF TypeOK, Alheias, Receber, Iniciar, Carregar, Derivar, FalharMidia, Concluir,
     ConcluirRetomada, Avancar
<1>3. CASE PersistirArquivo(e)
  BY <1>3 DEF TypeOK, Alheias, PersistirArquivo, Avancar, Guardado
<1>. QED
  BY <1>1, <1>2, <1>3 DEF Passo, PassoJob

LEMMA PassoTipos ==
    ASSUME TypeOK, FasesCertas, [Next]_vars
    PROVE  TypeOK'
<1>0. /\ fase \in [Entradas -> Fases] /\ sessao \in [Entradas -> Sessoes]
      /\ "midia" \in Fases /\ "ia" \in Fases
  BY NomesDasFases DEF TypeOK, Fases, Sessoes
<1>1. CASE UNCHANGED vars
  BY <1>1 DEF TypeOK, vars, jobVars, tabelas, agregacao
<1>2. ASSUME NEW e \in Entradas, Receber(e) PROVE TypeOK'
  <2>1. tentativa' = [tentativa EXCEPT ![e] = 1] /\ 1 \in 0..MaxTentativas
    BY <1>2, DiarioAssumption DEF Receber
  <2>2. tentativa' \in [Entradas -> 0..MaxTentativas]
    BY <2>1 DEF TypeOK
  <2>3. fase' \in [Entradas -> Fases]
    BY <1>0, <1>2, NomesDasFases DEF Receber
  <2>4. UNCHANGED <<vez, sessao, arquivos, derivados, triagens, relatadas, leitor, passo,
                     dia, quedas>>
    BY <1>2 DEF Receber, tabelas, agregacao
  <2>5. mudou' \in [Agregadores -> BOOLEAN]
    BY <1>2, Comitando DEF Receber
  <2>6. status' \in [Entradas -> {"ausente", "received", "processing", "completed", "failed"}]
    BY <1>2 DEF TypeOK, Receber
  <2>. QED
    BY <2>2, <2>3, <2>4, <2>5, <2>6 DEF TypeOK, Fases
<1>3. ASSUME NEW e \in Entradas, Iniciar(e) \/ Carregar(e) \/ ConcluirRetomada(e) PROVE TypeOK'
  <2>1. /\ UNCHANGED <<tentativa, arquivos, derivados, triagens, relatadas, leitor, passo,
                        dia, mudou, quedas>>
        /\ status' \in [Entradas -> {"ausente", "received", "processing", "completed", "failed"}]
    BY <1>3 DEF TypeOK, Iniciar, Carregar, ConcluirRetomada, tabelas, agregacao
  <2>2. \E f \in Fases : fase' = [fase EXCEPT ![e] = f]
    BY <1>3, NomesDasFases DEF Iniciar, Carregar, ConcluirRetomada
  <2>3. fase' \in [Entradas -> Fases]
    BY <1>0, <2>2
  <2>4. vez' \in [Entradas -> Nat] /\ sessao' \in [Entradas -> Sessoes]
    <3>1. SemSessao \in Sessoes
      BY DEF SemSessao, Sessoes
    <3>. QED
      <4>1. vez' = vez \/ vez' = [vez EXCEPT ![e] = 1]
        BY <1>3 DEF Iniciar, Carregar, ConcluirRetomada
      <4>2. sessao' = sessao \/ sessao' = [sessao EXCEPT ![e] = SemSessao]
        BY <1>3 DEF Iniciar, Carregar, ConcluirRetomada
      <4>. QED
        BY <1>0, <3>1, <4>1, <4>2 DEF TypeOK
  <2>. QED
    BY <2>1, <2>3, <2>4 DEF TypeOK, Fases, Sessoes
<1>4. ASSUME NEW e \in Entradas, EmMidia(e) \/ fase[e] = "ia",
             NEW s \in Sessoes, sessao' = [sessao EXCEPT ![e] = s],
             fase' = fase \/ (\E f \in {"midia", "ia"} : fase' = [fase EXCEPT ![e] = f]),
             vez' = vez \/ Avancar(e),
             UNCHANGED <<status, tentativa, tabelas, agregacao, mudou, quedas>>
      PROVE  TypeOK'
  <2>1. fase' \in [Entradas -> Fases]
    BY <1>0, <1>4
  <2>2. vez' \in [Entradas -> Nat]
    BY <1>4 DEF TypeOK, Avancar
  <2>3. sessao' \in [Entradas -> Sessoes]
    BY <1>0, <1>4
  <2>. QED
    BY <1>4, <2>1, <2>2, <2>3 DEF TypeOK, Fases, Sessoes, tabelas, agregacao
<1>5. ASSUME NEW e \in Entradas, PersistirArquivo(e) PROVE TypeOK'
  <2>1. sessao[e].arquivos \cup {Linha(e)} \subseteq Linhas
    BY <1>5, TipoDaLinha, Escrevendo DEF PersistirArquivo, EmMidia, TypeOK
  <2>2. sessao' = [sessao EXCEPT ![e] = [sessao[e] EXCEPT
                     !.arquivos = sessao[e].arquivos \cup {Linha(e)}]]
    BY <1>5 DEF PersistirArquivo
  <2>3. [sessao[e] EXCEPT !.arquivos = sessao[e].arquivos \cup {Linha(e)}] \in Sessoes
    BY <1>0, <2>1, NovaSessao
  <2>. QED
    BY <1>4, <1>5, <2>2, <2>3 DEF PersistirArquivo
<1>6. ASSUME NEW e \in Entradas, Derivar(e) PROVE TypeOK'
  <2>1. sessao[e].derivados \cup {Linha(e)} \subseteq Linhas
    BY <1>6, TipoDaLinha DEF Derivar, TypeOK
  <2>2. sessao' = [sessao EXCEPT ![e] = [sessao[e] EXCEPT
                     !.derivados = sessao[e].derivados \cup {Linha(e)}]]
    BY <1>6 DEF Derivar
  <2>3. [sessao[e] EXCEPT !.derivados = sessao[e].derivados \cup {Linha(e)}] \in Sessoes
    BY <1>0, <2>1, NovaSessao
  <2>. QED
    BY <1>4, <1>6, <2>2, <2>3 DEF Derivar
<1>7. ASSUME NEW e \in Entradas, FalharMidia(e) PROVE TypeOK'
  <2>1. ComErro(e) \subseteq Nat
    BY <1>7 DEF ComErro, TypeOK
  <2>2. sessao' = [sessao EXCEPT ![e] = [sessao[e] EXCEPT !.erros = ComErro(e)]]
    BY <1>7 DEF FalharMidia
  <2>3. [sessao[e] EXCEPT !.erros = ComErro(e)] \in Sessoes
    BY <1>0, <2>1, NovaSessao
  <2>. QED
    BY <1>4, <1>7, <2>2, <2>3 DEF FalharMidia
<1>8. ASSUME NEW e \in Entradas, Concluir(e) PROVE TypeOK'
  <2>1. tentativa[e] \in 1..MaxTentativas
    BY <1>8, TipoDaLinha DEF Concluir
  <2>2. /\ arquivos' \subseteq Linhas /\ derivados' \subseteq Linhas
        /\ relatadas' \in [Entradas -> SUBSET Nat]
        /\ triagens' \subseteq [entrada : Entradas, tentativa : 1..MaxTentativas]
    BY <1>8, <2>1 DEF TypeOK, Concluir
  <2>. QED
    BY <1>8, <2>2, Comitando DEF TypeOK, Concluir, agregacao, EmExecucao
<1>9. ASSUME NEW e \in Entradas, Falhar(e) \/ Cair(e) PROVE TypeOK'
  <2>1. /\ fase' \in [Entradas -> Fases] /\ sessao' \in [Entradas -> Sessoes]
        /\ tentativa' \in [Entradas -> 0..MaxTentativas]
    BY <1>9, Reagendando DEF Falhar, Cair
  <2>2. /\ status' \in [Entradas -> {"ausente", "received", "processing", "completed", "failed"}]
        /\ quedas' \in Nat
        /\ UNCHANGED <<vez, tabelas, agregacao, mudou>>
    BY <1>9 DEF TypeOK, Falhar, Cair, Desfazer, tabelas
  <2>. QED
    BY <2>1, <2>2 DEF TypeOK, Fases, Sessoes, tabelas, agregacao
<1>10. ASSUME NEW a \in Agregadores, (\E d \in Dias : LerEntradas(a, d)) \/ LerTabela(a)
      PROVE  TypeOK'
  <2>1. UNCHANGED <<jobVars, tabelas, mudou, quedas>>
    BY <1>10 DEF LerEntradas, LerTabela
  <2>2. CASE \E d \in Dias : LerEntradas(a, d)
    BY <2>1, <2>2 DEF TypeOK, LerEntradas, jobVars, tabelas
  <2>3. CASE LerTabela(a)
    <3>1. /\ leitor' \in [Agregadores -> {"livre", "lendo", "pronto", "recusado"}]
          /\ passo' \in [Agregadores -> 1..4] /\ dia' = dia
      BY <2>3 DEF TypeOK, LerTabela, Ordem
    <3>. QED
      BY <2>1, <3>1 DEF TypeOK, jobVars, tabelas
  <2>. QED
    BY <1>10, <2>2, <2>3
<1>. QED
  BY <1>1, <1>2, <1>3, <1>5, <1>6, <1>7, <1>8, <1>9, <1>10 DEF Next, PassoJob

LEMMA PassoFases ==
    ASSUME TypeOK, FasesCertas, [Next]_vars
    PROVE  FasesCertas'
<1>1. CASE UNCHANGED <<status, fase, tentativa>>
  BY <1>1 DEF FasesCertas
<1>2. ASSUME NEW e \in Entradas, Receber(e) \/ Iniciar(e) \/ Carregar(e) \/ Derivar(e)
             \/ FalharMidia(e) \/ Concluir(e) \/ ConcluirRetomada(e) \/ PersistirArquivo(e)
      PROVE  FasesCertas'
  BY <1>2 DEF TypeOK, FasesCertas, Receber, Iniciar, Carregar, Derivar, FalharMidia, Concluir,
     ConcluirRetomada, PersistirArquivo, EmMidia, EmExecucao
<1>3. ASSUME NEW e \in Entradas, Falhar(e) \/ Cair(e) PROVE FasesCertas'
  <2>1. /\ fase'[e] \in {"fila", "esgotada"} /\ tentativa'[e] >= tentativa[e]
        /\ \A x \in Entradas \ {e} : fase'[x] = fase[x] /\ tentativa'[x] = tentativa[x]
        /\ tentativa' \in [Entradas -> 0..MaxTentativas]
    BY <1>3, Reagendando DEF Falhar, Cair
  <2>2. fase[e] # "nenhuma"
    BY <1>3 DEF Falhar, Cair, EmExecucao
  <2>3. status'[e] # "ausente" /\ \A x \in Entradas \ {e} : status'[x] = status[x]
    BY <1>3, <2>2 DEF Falhar, Cair, TypeOK, FasesCertas
  <2>. QED
    BY <2>1, <2>2, <2>3, DiarioAssumption DEF FasesCertas, TypeOK
<1>. QED
  BY <1>1, <1>2, <1>3 DEF Next, PassoJob, LerEntradas, LerTabela, vars, jobVars

-----------------------------------------------------------------------------
(* The open sessions                                                       *)

LEMMA SessaoAlheia ==
    ASSUME NEW e \in Entradas, NEW x \in Entradas \ {e}, SessaoCerta(x), Alheias(e),
           bucket \subseteq bucket',
           \A t \in triagens' : t \in triagens \/ t.entrada = e
    PROVE  SessaoCerta(x)'
BY DEF SessaoCerta, Alheias, EmSessao, JaTriada, Contada, Linha

LEMMA PassoPersistir ==
    ASSUME TypeOK, FasesCertas, NEW e \in Entradas, PersistirArquivo(e), SessaoCerta(e)
    PROVE  SessaoCerta(e)'
<1>0. PICK n : n = vez[e]
  OBVIOUS
<1> DEFINE l == Linha(e)
<1>1. /\ fase[e] = "midia" /\ n \in Refs(e) /\ n \in Nat /\ Midias[e][n] \in Tipos
      /\ l \in Linhas /\ l.entrada = e /\ l.ref = n /\ l.tentativa = tentativa[e]
  BY <1>0, TipoDaLinha, Referencias DEF PersistirArquivo, EmMidia
<1>2. /\ sessao'[e].arquivos = sessao[e].arquivos \cup {l}
      /\ sessao'[e].derivados = sessao[e].derivados /\ sessao'[e].erros = sessao[e].erros
      /\ UNCHANGED <<tentativa, triagens>> /\ bucket' = bucket \cup {Objeto(e, n)}
  BY <1>0 DEF PersistirArquivo, TypeOK, Guardado, tabelas
<1>3. /\ ~JaTriada(e) /\ n >= 1 /\ sessao[e].derivados \subseteq sessao[e].arquivos
      /\ \A m \in sessao[e].arquivos : /\ m.entrada = e /\ m.tentativa = tentativa[e]
                                       /\ Objeto(e, m.ref) \in bucket
      /\ \A m \in sessao[e].derivados : TipoDe(m) \in {"foto", "audio"}
      /\ \A m \in Refs(e) : m < n => Contada(e, m)
  BY <1>0, <1>1 DEF SessaoCerta, EmSessao
<1>4. \A m : Contada(e, m) => Contada(e, m)'
  BY <1>0, <1>2 DEF Contada
<1>5. ~JaTriada(e)'
  BY <1>0, <1>2, <1>3 DEF JaTriada
<1>6. \A m \in sessao'[e].arquivos : /\ m.entrada = e /\ m.tentativa = tentativa'[e]
                                     /\ Objeto(e, m.ref) \in bucket'
  BY <1>0, <1>1, <1>2, <1>3
<1>7. CASE Midias[e][n] = "documento"
  <2>1. fase'[e] = "midia" /\ vez'[e] = n + 1
    BY <1>0, <1>1, <1>7 DEF PersistirArquivo, Avancar, TypeOK
  <2>2. Contada(e, n)'
    BY <1>0, <1>1, <1>2, <1>7 DEF Contada
  <2>3. \A m \in Refs(e) : m < n + 1 => Contada(e, m)'
    BY <1>0, <1>1, <1>3, <1>4, <2>2, Referencias
  <2>. QED
    BY <1>0, <1>1, <1>2, <1>3, <1>5, <1>6, <2>1, <2>3 DEF SessaoCerta
<1>8. CASE Midias[e][n] # "documento"
  <2>1. fase'[e] = "ia" /\ vez'[e] = n
    BY <1>0, <1>8 DEF PersistirArquivo, TypeOK
  <2>2. Linha(e)' = l
    BY <1>0, <1>2, <2>1 DEF Linha
  <2>3. \A m \in Refs(e) : m < n => Contada(e, m)'
    BY <1>0, <1>3, <1>4
  <2>. QED
    BY <1>0, <1>1, <1>2, <1>3, <1>5, <1>6, <1>8, <2>1, <2>2, <2>3 DEF SessaoCerta
<1>. QED
  BY <1>0, <1>7, <1>8

LEMMA PassoDerivar ==
    ASSUME TypeOK, FasesCertas, NEW e \in Entradas, Derivar(e), SessaoCerta(e)
    PROVE  SessaoCerta(e)'
<1>0. PICK n : n = vez[e]
  OBVIOUS
<1> DEFINE l == Linha(e)
<1>1. /\ fase[e] = "ia" /\ n \in Nat
      /\ l \in Linhas /\ l.entrada = e /\ l.ref = n /\ l.tentativa = tentativa[e]
  BY <1>0, TipoDaLinha DEF Derivar, TypeOK
<1>2. /\ sessao'[e].arquivos = sessao[e].arquivos /\ sessao'[e].erros = sessao[e].erros
      /\ sessao'[e].derivados = sessao[e].derivados \cup {l}
      /\ UNCHANGED <<tentativa, triagens, bucket>>
      /\ fase'[e] = "midia" /\ vez'[e] = n + 1
  BY <1>0 DEF Derivar, TypeOK, tabelas, Avancar
<1>3. /\ ~JaTriada(e) /\ n >= 1 /\ sessao[e].derivados \subseteq sessao[e].arquivos
      /\ \A m \in sessao[e].arquivos : /\ m.entrada = e /\ m.tentativa = tentativa[e]
                                       /\ Objeto(e, m.ref) \in bucket
      /\ \A m \in sessao[e].derivados : TipoDe(m) \in {"foto", "audio"}
      /\ \A m \in Refs(e) : m < n => Contada(e, m)
      /\ n \in Refs(e) /\ Midias[e][n] # "documento" /\ l \in sessao[e].arquivos
  BY <1>0, <1>1 DEF SessaoCerta, EmSessao
<1>4. TipoDe(l) \in {"foto", "audio"}
  BY <1>0, <1>1, <1>3, Referencias DEF TipoDe, Tipos
<1>5. \A m : Contada(e, m) => Contada(e, m)'
  BY <1>0, <1>2 DEF Contada
<1>6. Contada(e, n)'
  BY <1>0, <1>1, <1>2, <1>3 DEF Contada
<1>7. \A m \in Refs(e) : m < n + 1 => Contada(e, m)'
  BY <1>0, <1>1, <1>3, <1>5, <1>6, Referencias
<1>8. ~JaTriada(e)'
  BY <1>0, <1>2, <1>3 DEF JaTriada
<1>. QED
  BY <1>0, <1>1, <1>2, <1>3, <1>4, <1>7, <1>8 DEF SessaoCerta

LEMMA PassoFalharMidia ==
    ASSUME TypeOK, FasesCertas, NEW e \in Entradas, FalharMidia(e), SessaoCerta(e)
    PROVE  SessaoCerta(e)'
<1>0. PICK n : n = vez[e]
  OBVIOUS
<1>1. fase[e] \in {"midia", "ia"} /\ n \in Nat /\ (fase[e] = "midia" => n \in Refs(e))
  BY <1>0 DEF FalharMidia, EmMidia, TypeOK
<1>2. /\ sessao'[e].arquivos = sessao[e].arquivos
      /\ sessao'[e].derivados = sessao[e].derivados
      /\ sessao'[e].erros = sessao[e].erros \cup {n}
      /\ UNCHANGED <<tentativa, triagens, bucket>>
      /\ fase'[e] = "midia" /\ vez'[e] = n + 1
  BY <1>0 DEF FalharMidia, ComErro, TypeOK, tabelas, Avancar
<1>3. /\ ~JaTriada(e) /\ n >= 1 /\ sessao[e].derivados \subseteq sessao[e].arquivos
      /\ \A m \in sessao[e].arquivos : /\ m.entrada = e /\ m.tentativa = tentativa[e]
                                       /\ Objeto(e, m.ref) \in bucket
      /\ \A m \in sessao[e].derivados : TipoDe(m) \in {"foto", "audio"}
      /\ \A m \in Refs(e) : m < n => Contada(e, m)
  BY <1>0, <1>1 DEF SessaoCerta, EmSessao
<1>4. \A m : Contada(e, m) => Contada(e, m)'
  BY <1>0, <1>2 DEF Contada
<1>5. Contada(e, n)'
  BY <1>0, <1>2 DEF Contada
<1>6. \A m \in Refs(e) : m < n + 1 => Contada(e, m)'
  BY <1>0, <1>1, <1>3, <1>4, <1>5, Referencias
<1>7. ~JaTriada(e)'
  BY <1>0, <1>2, <1>3 DEF JaTriada
<1>. QED
  BY <1>0, <1>1, <1>2, <1>3, <1>6, <1>7 DEF SessaoCerta

LEMMA PassoCarregar ==
    ASSUME TypeOK, NEW e \in Entradas, Carregar(e)
    PROVE  SessaoCerta(e)'
<1>1. /\ fase'[e] = IF JaTriada(e) THEN "retomada" ELSE "midia"
      /\ vez'[e] = 1 /\ sessao'[e] = SemSessao /\ triagens' = triagens
  BY DEF Carregar, TypeOK, tabelas
<1>2. JaTriada(e)' <=> JaTriada(e)
  BY <1>1 DEF JaTriada
<1>3. sessao'[e].arquivos = {} /\ sessao'[e].derivados = {}
  BY <1>1 DEF SemSessao
<1>4. \A m \in Refs(e) : ~(m < 1)
  BY Referencias
<1>. QED
  BY <1>1, <1>2, <1>3, <1>4 DEF SessaoCerta, EmSessao

LEMMA PassoSessoes ==
    ASSUME TypeOK, FasesCertas, NEW e \in Entradas, Passo(e),
           \A x \in Entradas : SessaoCerta(x)
    PROVE  \A x \in Entradas : SessaoCerta(x)'
<1>1. Alheias(e) /\ bucket \subseteq bucket'
  BY PassoAlheio
<1>2. \A t \in triagens' : t \in triagens \/ t.entrada = e
  BY DEF Passo, PassoJob, Receber, Iniciar, Carregar, PersistirArquivo, Derivar, FalharMidia,
     Concluir, ConcluirRetomada, Falhar, Cair, tabelas
<1>3. ASSUME fase'[e] \notin {"midia", "ia"} PROVE SessaoCerta(e)'
  BY <1>3 DEF SessaoCerta, EmSessao
<1>4. CASE Receber(e) \/ Iniciar(e) \/ Concluir(e) \/ ConcluirRetomada(e)
  BY <1>3, <1>4, <1>1, <1>2, SessaoAlheia
     DEF Receber, Iniciar, Concluir, ConcluirRetomada, TypeOK
<1>5. CASE Falhar(e) \/ Cair(e)
  <2>1. fase'[e] \in {"fila", "esgotada"}
    BY <1>5, Reagendando DEF Falhar, Cair
  <2>. QED
    BY <1>1, <1>2, <1>3, <2>1, SessaoAlheia
<1>6. CASE PersistirArquivo(e) \/ Derivar(e) \/ FalharMidia(e) \/ Carregar(e)
  BY <1>1, <1>2, <1>6, SessaoAlheia, PassoPersistir, PassoDerivar, PassoFalharMidia,
     PassoCarregar
<1>. QED
  BY <1>4, <1>5, <1>6 DEF Passo, PassoJob

-----------------------------------------------------------------------------
(* The committed rows                                                      *)

LEMMA PassoConcluir ==
    ASSUME InvM, NEW e \in Entradas, Concluir(e)
    PROVE  LinhasCertas' /\ UmaLinhaPorMidia' /\ LinhaTemObjeto' /\ MidiaRelatada'
<1> DEFINE s == sessao[e]
           t == [entrada |-> e, tentativa |-> tentativa[e]]
<1>1. /\ fase[e] = "midia" /\ vez[e] \notin Refs(e)
      /\ arquivos' = arquivos \cup s.arquivos /\ derivados' = derivados \cup s.derivados
      /\ triagens' = triagens \cup {t} /\ bucket' = bucket
      /\ relatadas'[e] = s.erros /\ \A x \in Entradas \ {e} : relatadas'[x] = relatadas[x]
      /\ status'[e] = "completed" /\ \A x \in Entradas \ {e} : status'[x] = status[x]
  BY DEF Concluir, InvM, TypeOK
<1>2. /\ TypeOK /\ SessaoCerta(e) /\ LinhasCertas /\ UmaLinhaPorMidia /\ LinhaTemObjeto
      /\ MidiaRelatada /\ vez[e] \in Nat
  BY DEF InvM, TypeOK
<1>3. /\ ~JaTriada(e) /\ vez[e] >= 1 /\ s.derivados \subseteq s.arquivos
      /\ \A m \in s.arquivos : /\ m.entrada = e /\ m.tentativa = tentativa[e]
                               /\ Objeto(e, m.ref) \in bucket
      /\ \A m \in s.derivados : TipoDe(m) \in {"foto", "audio"}
      /\ \A m \in Refs(e) : m < vez[e] => Contada(e, m)
  BY <1>1, <1>2 DEF SessaoCerta, EmSessao
<1>4. /\ s.arquivos \subseteq Linhas /\ s.derivados \subseteq Linhas
      /\ arquivos \subseteq Linhas /\ derivados \subseteq Linhas
  BY <1>2 DEF TypeOK
<1>5. t.entrada = e
  OBVIOUS
<1>6. \A l \in arquivos \cup derivados : l.entrada # e
  BY <1>2, <1>3 DEF LinhasCertas
<1>7. LinhasCertas'
  <2>1. \A x : JaTriada(x) => JaTriada(x)'
    BY <1>1 DEF JaTriada
  <2>2. JaTriada(e)'
    BY <1>1, <1>5 DEF JaTriada
  <2>3. \A l \in arquivos' \cup derivados' : JaTriada(l.entrada)'
    BY <1>1, <1>2, <1>3, <2>1, <2>2 DEF LinhasCertas
  <2>4. \A l \in derivados' : TipoDe(l) \in {"foto", "audio"}
    BY <1>1, <1>2, <1>3 DEF LinhasCertas
  <2>5. \A u \in triagens' : status'[u.entrada] # "ausente"
    <3>1. \A u \in triagens : u.entrada \in Entradas
      BY <1>2 DEF TypeOK
    <3>. QED
      BY <1>1, <1>2, <1>5, <3>1 DEF LinhasCertas
  <2>. QED
    BY <2>3, <2>4, <2>5 DEF LinhasCertas
<1>8. UmaLinhaPorMidia'
  <2>1. ASSUME NEW l \in arquivos', NEW m \in arquivos', l.entrada = m.entrada, l.ref = m.ref
        PROVE  l = m
    BY <1>1, <1>2, <1>3, <1>4, <1>6, <2>1, IguaisPorCampos DEF UmaLinhaPorMidia
  <2>2. ASSUME NEW l \in derivados', NEW m \in derivados', l.entrada = m.entrada, l.ref = m.ref
        PROVE  l = m
    BY <1>1, <1>2, <1>3, <1>4, <1>6, <2>2, IguaisPorCampos DEF UmaLinhaPorMidia
  <2>3. ASSUME NEW u \in triagens', NEW v \in triagens', u.entrada = v.entrada
        PROVE  u = v
    BY <1>1, <1>2, <1>3, <1>5, <2>3 DEF UmaLinhaPorMidia, JaTriada
  <2>. QED
    BY <2>1, <2>2, <2>3 DEF UmaLinhaPorMidia
<1>9. LinhaTemObjeto'
  <2>1. \A l \in arquivos' : Objeto(l.entrada, l.ref) \in bucket'
    BY <1>1, <1>2, <1>3 DEF LinhaTemObjeto
  <2>2. derivados' \subseteq arquivos'
    BY <1>1, <1>2, <1>3 DEF LinhaTemObjeto
  <2>. QED
    BY <2>1, <2>2 DEF LinhaTemObjeto
<1>10. MidiaRelatada'
  <2> DEFINE Relatada(x, n) ==
        \/ n \in relatadas[x]
        \/ /\ \E l \in arquivos : l.entrada = x /\ l.ref = n
           /\ Midias[x][n] # "documento" => \E l \in derivados : l.entrada = x /\ l.ref = n
  <2>1. ASSUME NEW u \in triagens, NEW n \in Refs(u.entrada) PROVE Relatada(u.entrada, n)'
    <3>1. u.entrada \in Entradas \ {e} /\ Relatada(u.entrada, n)
      BY <1>2, <1>3 DEF TypeOK, JaTriada, MidiaRelatada
    <3>. QED
      BY <1>1, <3>1
  <2>2. ASSUME NEW n \in Refs(e) PROVE Relatada(e, n)'
    <3>1. n < vez[e]
      BY <1>1, <1>2, <1>3, Referencias DEF Refs
    <3>2. Contada(e, n)
      BY <1>3, <3>1
    <3>. QED
      BY <1>1, <3>2 DEF Contada
  <2>3. \A u \in triagens' : \A n \in Refs(u.entrada) : Relatada(u.entrada, n)'
    BY <1>1, <1>5, <2>1, <2>2
  <2>. QED
    BY <2>3 DEF MidiaRelatada
<1>. QED
  BY <1>7, <1>8, <1>9, <1>10

LEMMA PassoInvM ==
    ASSUME InvM, [Next]_vars
    PROVE  InvM'
<1>1. TypeOK' /\ FasesCertas'
  BY PassoTipos, PassoFases DEF InvM
<1>2. ASSUME UNCHANGED <<tabelas, status, bucket>> \/
             (UNCHANGED tabelas /\ bucket \subseteq bucket'
              /\ \A x \in Entradas : status[x] # "ausente" => status'[x] # "ausente")
      PROVE  LinhasCertas' /\ UmaLinhaPorMidia' /\ LinhaTemObjeto' /\ MidiaRelatada'
  <2>1. UNCHANGED <<arquivos, derivados, triagens, relatadas>> /\ bucket \subseteq bucket'
    BY <1>2 DEF tabelas
  <2>2. \A u \in triagens : u.entrada \in Entradas
    BY DEF InvM, TypeOK
  <2>3. LinhasCertas'
    BY <1>2, <2>1, <2>2 DEF InvM, LinhasCertas, JaTriada
  <2>. QED
    BY <2>1, <2>3 DEF InvM, UmaLinhaPorMidia, LinhaTemObjeto, MidiaRelatada
<1>3. ASSUME UNCHANGED <<jobVars, triagens, bucket>>
      PROVE  \A x \in Entradas : SessaoCerta(x)'
  <2>1. UNCHANGED <<status, fase, tentativa, vez, sessao, triagens, bucket>>
    BY <1>3 DEF jobVars
  <2>. QED
    BY <2>1 DEF InvM, SessaoCerta, EmSessao, JaTriada, Contada, Linha
<1>4. CASE UNCHANGED vars
  BY <1>1, <1>2, <1>3, <1>4 DEF vars, jobVars, tabelas, InvM
<1>5. ASSUME NEW a \in Agregadores, (\E d \in Dias : LerEntradas(a, d)) \/ LerTabela(a)
      PROVE  InvM'
  BY <1>1, <1>2, <1>3, <1>5 DEF LerEntradas, LerTabela, jobVars, tabelas, InvM
<1>6. ASSUME NEW e \in Entradas, Passo(e) PROVE InvM'
  <2>1. \A x \in Entradas : SessaoCerta(x)'
    BY <1>6, PassoSessoes DEF InvM
  <2>2. CASE Concluir(e)
    BY <1>1, <2>1, <2>2, PassoConcluir DEF InvM
  <2>3. CASE ~Concluir(e)
    <3>1. UNCHANGED tabelas
      BY <1>6, <2>3 DEF Passo, PassoJob, Receber, Iniciar, Carregar, PersistirArquivo, Derivar,
         FalharMidia, ConcluirRetomada, Falhar, Cair, Desfazer, tabelas
    <3>2. bucket \subseteq bucket' /\ Alheias(e)
      BY <1>6, PassoAlheio DEF InvM
    <3>3. status'[e] = status[e] \/ status'[e] # "ausente"
      BY <1>6, <2>3 DEF Passo, PassoJob, Receber, Iniciar, Carregar, PersistirArquivo, Derivar,
         FalharMidia, ConcluirRetomada, Falhar, Cair, InvM, TypeOK
    <3>4. \A x \in Entradas : status[x] # "ausente" => status'[x] # "ausente"
      BY <3>2, <3>3 DEF Alheias
    <3>. QED
      BY <1>1, <1>2, <2>1, <3>1, <3>2, <3>4 DEF InvM
  <2>. QED
    BY <2>2, <2>3
<1>. QED
  BY <1>4, <1>5, <1>6 DEF Next, Passo

LEMMA InvMSempre == Spec => []InvM
<1>1. ASSUME Init PROVE InvM
  <2>1. TypeOK
    BY <1>1, DiarioAssumption DEF Init, TypeOK, SemSessao
  <2>2. FasesCertas /\ LinhasCertas /\ UmaLinhaPorMidia /\ LinhaTemObjeto /\ MidiaRelatada
    BY <1>1 DEF Init, FasesCertas, LinhasCertas, UmaLinhaPorMidia, LinhaTemObjeto, MidiaRelatada
  <2>3. \A e \in Entradas : SessaoCerta(e)
    BY <1>1 DEF Init, SessaoCerta, EmSessao
  <2>. QED
    BY <2>1, <2>2, <2>3 DEF InvM
<1>. QED
  BY <1>1, PassoInvM, PTL DEF Spec

(* Every media of every message filed has one row, one object and one      *)
(* account, whatever attempt failed or died where.                         *)
THEOREM MidiaSempreArquivada == Spec => []MidiaArquivada
<1>1. InvM => MidiaArquivada
  BY DEF InvM, MidiaArquivada
<1>. QED
  BY <1>1, InvMSempre, PTL

-----------------------------------------------------------------------------
(* The aggregations                                                        *)

(* What a step of a job leaves to those who read.                          *)
LEMMA PassoDoJob ==
    ASSUME InvM, NEW e \in Entradas, Passo(e)
    PROVE  /\ UNCHANGED agregacao /\ triagens \subseteq triagens'
           /\ \A x \in Entradas : JaTriada(x) =>
                 /\ {l \in arquivos' : l.entrada = x} = {l \in arquivos : l.entrada = x}
                 /\ \A k : {l \in derivados' : l.entrada = x /\ TipoDe(l) = k} =
                           {l \in derivados : l.entrada = x /\ TipoDe(l) = k}
           /\ \A a \in Agregadores : ~mudou'[a] => ~mudou[a]
           /\ \A a \in Agregadores : ~mudou'[a] /\ leitor[a] = "lendo" =>
                 /\ UNCHANGED <<arquivos, derivados>>
                 /\ \A x \in Entradas : status'[x] # "ausente" => status[x] # "ausente"
<1>0. TypeOK /\ FasesCertas /\ UNCHANGED agregacao
  BY PassoAlheio DEF InvM
<1>1. CASE Concluir(e)
  <2>1. /\ fase[e] = "midia" /\ Comitar /\ triagens \subseteq triagens'
        /\ arquivos' = arquivos \cup sessao[e].arquivos
        /\ derivados' = derivados \cup sessao[e].derivados
    BY <1>1 DEF Concluir
  <2>2. /\ ~JaTriada(e) /\ \A l \in sessao[e].arquivos : l.entrada = e
        /\ sessao[e].derivados \subseteq sessao[e].arquivos
    BY <2>1 DEF InvM, SessaoCerta, EmSessao
  <2>3. /\ \A a \in Agregadores : leitor[a] = "lendo" => mudou'[a]
        /\ \A a \in Agregadores : ~mudou'[a] => ~mudou[a]
    BY <1>0, <2>1, Comitando
  <2>. QED
    BY <1>0, <2>1, <2>2, <2>3
<1>2. CASE Receber(e)
  <2>1. Comitar /\ UNCHANGED <<arquivos, derivados, triagens>>
    BY <1>2 DEF Receber, tabelas
  <2>2. /\ \A a \in Agregadores : leitor[a] = "lendo" => mudou'[a]
        /\ \A a \in Agregadores : ~mudou'[a] => ~mudou[a]
    BY <1>0, <2>1, Comitando
  <2>. QED
    BY <1>0, <2>1, <2>2
<1>3. CASE ~Concluir(e) /\ ~Receber(e)
  <2>1. UNCHANGED <<arquivos, derivados, triagens, mudou>>
    BY <1>3 DEF Passo, PassoJob, Iniciar, Carregar, PersistirArquivo, Derivar, FalharMidia,
       ConcluirRetomada, Falhar, Cair, Desfazer, tabelas
  <2>2. fase[e] # "nenhuma"
    BY <1>3 DEF Passo, PassoJob, Iniciar, Carregar, PersistirArquivo, Derivar, FalharMidia,
       ConcluirRetomada, Falhar, Cair, EmMidia, EmExecucao
  <2>3. \A x \in Entradas : status'[x] # "ausente" => status[x] # "ausente"
    BY <1>0, <1>3, <2>2, PassoAlheio DEF FasesCertas, Alheias
  <2>. QED
    BY <1>0, <2>1, <2>3
<1>. QED
  BY <1>1, <1>2, <1>3

LEMMA LeituraDuranteOJob ==
    ASSUME InvA, NEW e \in Entradas, Passo(e)
    PROVE  \A a \in Agregadores : LeituraCerta(a)' /\ LeituraAtual(a)'
<1>0. InvM
  BY DEF InvA
<1>1. /\ UNCHANGED <<leitor, passo, dia, lido>> /\ triagens \subseteq triagens'
      /\ \A x \in Entradas : JaTriada(x) =>
            /\ {l \in arquivos' : l.entrada = x} = {l \in arquivos : l.entrada = x}
            /\ \A k : {l \in derivados' : l.entrada = x /\ TipoDe(l) = k} =
                      {l \in derivados : l.entrada = x /\ TipoDe(l) = k}
  BY <1>0, PassoDoJob DEF agregacao
<1>2. ASSUME NEW a \in Agregadores PROVE LeituraCerta(a)'
  <2>1. LeituraCerta(a)
    BY DEF InvA
  <2>2. ASSUME NEW t \in lido[a].triagens PROVE JaTriada(t.entrada) /\ t.entrada \in Entradas
    <3>1. t \in triagens
      BY <2>1, <2>2 DEF LeituraCerta
    <3>. QED
      BY <1>0, <3>1 DEF JaTriada, InvM, TypeOK
  <2>3. ASSUME NEW t \in lido[a].triagens
        PROVE  /\ t \in triagens' /\ t.entrada \in lido[a].entradas
               /\ passo[a] >= 3 => {l \in arquivos' : l.entrada = t.entrada} \subseteq lido[a].arquivos
               /\ passo[a] = 4 => {l \in derivados' : l.entrada = t.entrada /\ TipoDe(l) = "foto"}
                                      \subseteq lido[a].fotos
               /\ leitor[a] = "pronto" =>
                     {l \in derivados' : l.entrada = t.entrada /\ TipoDe(l) = "audio"}
                         \subseteq lido[a].audios
    <3>1. /\ t \in triagens /\ t.entrada \in lido[a].entradas
          /\ passo[a] >= 3 => {l \in arquivos : l.entrada = t.entrada} \subseteq lido[a].arquivos
          /\ passo[a] = 4 => {l \in derivados : l.entrada = t.entrada /\ TipoDe(l) = "foto"}
                                 \subseteq lido[a].fotos
          /\ leitor[a] = "pronto" =>
                {l \in derivados : l.entrada = t.entrada /\ TipoDe(l) = "audio"}
                    \subseteq lido[a].audios
      BY <2>1, <2>3 DEF LeituraCerta
    <3>2. /\ {l \in arquivos' : l.entrada = t.entrada} = {l \in arquivos : l.entrada = t.entrada}
          /\ {l \in derivados' : l.entrada = t.entrada /\ TipoDe(l) = "foto"} =
             {l \in derivados : l.entrada = t.entrada /\ TipoDe(l) = "foto"}
          /\ {l \in derivados' : l.entrada = t.entrada /\ TipoDe(l) = "audio"} =
             {l \in derivados : l.entrada = t.entrada /\ TipoDe(l) = "audio"}
      BY <1>1, <2>2, <2>3
    <3>. QED
      BY <1>1, <3>1, <3>2
  <2>. QED
    BY <1>1, <2>1, <2>3 DEF LeituraCerta, Lendo
<1>3. ASSUME NEW a \in Agregadores PROVE LeituraAtual(a)'
  <2>1. LeituraAtual(a)
    BY DEF InvA
  <2>2. /\ ~mudou'[a] => ~mudou[a]
        /\ ~mudou'[a] /\ leitor[a] = "lendo" =>
              /\ UNCHANGED <<arquivos, derivados>>
              /\ \A x \in Entradas : status'[x] # "ausente" => status[x] # "ausente"
    BY <1>0, PassoDoJob
  <2>. QED
    BY <1>1, <2>1, <2>2 DEF LeituraAtual, Lendo
<1>. QED
  BY <1>2, <1>3

LEMMA LeituraAlheia ==
    ASSUME NEW b \in Agregadores, LeituraCerta(b), LeituraAtual(b),
           leitor'[b] = leitor[b], passo'[b] = passo[b], dia'[b] = dia[b], lido'[b] = lido[b],
           UNCHANGED <<jobVars, tabelas, mudou>>
    PROVE  LeituraCerta(b)' /\ LeituraAtual(b)'
<1>1. UNCHANGED <<status, arquivos, derivados, triagens, mudou>>
  BY DEF jobVars, tabelas
<1>2. LeituraCerta(b)'
  BY <1>1 DEF LeituraCerta, Lendo
<1>3. LeituraAtual(b)'
  BY <1>1 DEF LeituraAtual, Lendo
<1>. QED
  BY <1>2, <1>3

LEMMA PassoLerEntradas ==
    ASSUME InvA, NEW a \in Agregadores, NEW d \in Dias, LerEntradas(a, d)
    PROVE  InvA'
<1> DEFINE es == {e \in Entradas : status[e] # "ausente" /\ Dia[e] = d}
<1>0. TypeOK /\ lido \in [Agregadores -> Tabelas] /\ LeituraCerta(a)
  BY DEF InvA, InvM
<1>1. InvM'
  BY PassoInvM DEF InvA, Next
<1>2. lido' = [lido EXCEPT ![a] = [lido[a] EXCEPT !.entradas = es]]
  BY DEF LerEntradas
<1>3. /\ [lido[a] EXCEPT !.entradas = es] \in Tabelas
      /\ [lido[a] EXCEPT !.entradas = es].entradas = es
      /\ [lido[a] EXCEPT !.entradas = es].triagens = lido[a].triagens
      /\ [lido[a] EXCEPT !.entradas = es].arquivos = lido[a].arquivos
      /\ [lido[a] EXCEPT !.entradas = es].fotos = lido[a].fotos
      /\ [lido[a] EXCEPT !.entradas = es].audios = lido[a].audios
  BY <1>0 DEF Tabelas
<1>4. /\ lido' \in [Agregadores -> Tabelas] /\ lido'[a] = [lido[a] EXCEPT !.entradas = es]
      /\ \A b \in Agregadores \ {a} : lido'[b] = lido[b]
  BY <1>0, <1>2, <1>3
<1>5. /\ leitor[a] = "livre" /\ leitor'[a] \in {"recusado", "lendo"} /\ dia'[a] = d
      /\ UNCHANGED <<jobVars, tabelas, mudou, passo>>
      /\ \A b \in Agregadores \ {a} : leitor'[b] = leitor[b] /\ dia'[b] = dia[b]
  BY <1>0 DEF LerEntradas, TypeOK
<1>6. passo[a] = 1 /\ lido[a].triagens = {} /\ lido[a].fotos = {} /\ lido[a].audios = {}
  BY <1>0, <1>5 DEF LeituraCerta
<1>7. LeituraCerta(a)'
  BY <1>3, <1>4, <1>5, <1>6 DEF LeituraCerta, Lendo
<1>8. LeituraAtual(a)'
  BY <1>3, <1>4, <1>5, <1>6 DEF LeituraAtual, Lendo, jobVars
<1>9. \A b \in Agregadores \ {a} : LeituraCerta(b)' /\ LeituraAtual(b)'
  BY <1>4, <1>5, LeituraAlheia DEF InvA
<1>. QED
  BY <1>1, <1>4, <1>7, <1>8, <1>9 DEF InvA

(* One table: the rows listed are rows there are, and those of messages    *)
(* with a triage all of them.                                              *)
LEMMA Leitura ==
    ASSUME InvA, NEW a \in Agregadores, LerTabela(a)
    PROVE  /\ lido' \in [Agregadores -> Tabelas] /\ passo[a] \in 1..4 /\ leitor[a] = "lendo"
           /\ lido'[a].entradas = lido[a].entradas
           /\ lido'[a].triagens = IF passo[a] = 1
                 THEN {t \in triagens : t.entrada \in lido[a].entradas} ELSE lido[a].triagens
           /\ lido'[a].arquivos = IF passo[a] = 2
                 THEN {l \in arquivos : l.entrada \in lido[a].entradas} ELSE lido[a].arquivos
           /\ lido'[a].fotos = IF passo[a] = 3
                 THEN {l \in derivados : TipoDe(l) = "foto" /\ Dia[l.entrada] = dia[a]}
                 ELSE lido[a].fotos
           /\ lido'[a].audios = IF passo[a] = 4
                 THEN {l \in derivados : l.entrada \in lido[a].entradas /\ TipoDe(l) = "audio"}
                 ELSE lido[a].audios
           /\ \A b \in Agregadores \ {a} : lido'[b] = lido[b]
           /\ IF passo[a] = 4 THEN leitor'[a] = "pronto" /\ passo'[a] = 4
                              ELSE leitor'[a] = "lendo" /\ passo'[a] = passo[a] + 1
           /\ \A b \in Agregadores \ {a} : leitor'[b] = leitor[b] /\ passo'[b] = passo[b]
           /\ UNCHANGED <<jobVars, tabelas, dia, mudou>>
<1>0. TypeOK /\ lido \in [Agregadores -> Tabelas]
  BY DEF InvA, InvM
<1>1. passo[a] \in 1..4 /\ leitor[a] = "lendo" /\ UNCHANGED <<jobVars, tabelas, dia, mudou>>
  BY <1>0 DEF LerTabela, TypeOK
<1>2. /\ IF passo[a] = 4 THEN leitor'[a] = "pronto" /\ passo'[a] = 4
                         ELSE leitor'[a] = "lendo" /\ passo'[a] = passo[a] + 1
      /\ \A b \in Agregadores \ {a} : leitor'[b] = leitor[b] /\ passo'[b] = passo[b]
  BY <1>0, <1>1 DEF LerTabela, TypeOK, Ordem
<1>3. CASE passo[a] = 1
  <2> DEFINE S == {t \in triagens : t.entrada \in lido[a].entradas}
  <2>1. lido' = [lido EXCEPT ![a] = [lido[a] EXCEPT !.triagens = S]]
    <3>1. Listar(a, "triagens") = S
      BY DEF Listar
    <3>2. Ordem[passo[a]] = "triagens"
      BY <1>3 DEF Ordem
    <3>3. lido' = [lido EXCEPT ![a]["triagens"] = Listar(a, "triagens")]
      BY <3>2 DEF LerTabela
    <3>. QED
      BY <3>1, <3>3
  <2>2. S \subseteq [entrada : Entradas, tentativa : 1..MaxTentativas]
    BY <1>0 DEF TypeOK
  <2> HIDE DEF S
  <2>3. /\ [lido[a] EXCEPT !.triagens = S] \in Tabelas
        /\ [lido[a] EXCEPT !.triagens = S].entradas = lido[a].entradas
        /\ [lido[a] EXCEPT !.triagens = S].triagens = S
        /\ [lido[a] EXCEPT !.triagens = S].arquivos = lido[a].arquivos
        /\ [lido[a] EXCEPT !.triagens = S].fotos = lido[a].fotos
        /\ [lido[a] EXCEPT !.triagens = S].audios = lido[a].audios
    BY <1>0, <2>2 DEF Tabelas
  <2>4. /\ lido' \in [Agregadores -> Tabelas] /\ lido'[a] = [lido[a] EXCEPT !.triagens = S]
        /\ \A b \in Agregadores \ {a} : lido'[b] = lido[b]
    BY <1>0, <2>1, <2>3
  <2>. QED
    BY <1>1, <1>2, <1>3, <2>3, <2>4 DEF S
<1>4. CASE passo[a] = 2
  <2> DEFINE S == {l \in arquivos : l.entrada \in lido[a].entradas}
  <2>1. lido' = [lido EXCEPT ![a] = [lido[a] EXCEPT !.arquivos = S]]
    <3>1. Listar(a, "arquivos") = S
      BY DEF Listar
    <3>2. Ordem[passo[a]] = "arquivos"
      BY <1>4 DEF Ordem
    <3>3. lido' = [lido EXCEPT ![a]["arquivos"] = Listar(a, "arquivos")]
      BY <3>2 DEF LerTabela
    <3>. QED
      BY <3>1, <3>3
  <2>2. S \subseteq Linhas
    BY <1>0 DEF TypeOK
  <2> HIDE DEF S
  <2>3. /\ [lido[a] EXCEPT !.arquivos = S] \in Tabelas
        /\ [lido[a] EXCEPT !.arquivos = S].entradas = lido[a].entradas
        /\ [lido[a] EXCEPT !.arquivos = S].triagens = lido[a].triagens
        /\ [lido[a] EXCEPT !.arquivos = S].arquivos = S
        /\ [lido[a] EXCEPT !.arquivos = S].fotos = lido[a].fotos
        /\ [lido[a] EXCEPT !.arquivos = S].audios = lido[a].audios
    BY <1>0, <2>2 DEF Tabelas
  <2>4. /\ lido' \in [Agregadores -> Tabelas] /\ lido'[a] = [lido[a] EXCEPT !.arquivos = S]
        /\ \A b \in Agregadores \ {a} : lido'[b] = lido[b]
    BY <1>0, <2>1, <2>3
  <2>. QED
    BY <1>1, <1>2, <1>4, <2>3, <2>4 DEF S
<1>5. CASE passo[a] = 3
  <2> DEFINE S == {l \in derivados : TipoDe(l) = "foto" /\ Dia[l.entrada] = dia[a]}
  <2>1. lido' = [lido EXCEPT ![a] = [lido[a] EXCEPT !.fotos = S]]
    <3>1. Listar(a, "fotos") = S
      BY DEF Listar, DiaDaFoto
    <3>2. Ordem[passo[a]] = "fotos"
      BY <1>5 DEF Ordem
    <3>3. lido' = [lido EXCEPT ![a]["fotos"] = Listar(a, "fotos")]
      BY <3>2 DEF LerTabela
    <3>. QED
      BY <3>1, <3>3
  <2>2. S \subseteq Linhas
    BY <1>0 DEF TypeOK
  <2> HIDE DEF S
  <2>3. /\ [lido[a] EXCEPT !.fotos = S] \in Tabelas
        /\ [lido[a] EXCEPT !.fotos = S].entradas = lido[a].entradas
        /\ [lido[a] EXCEPT !.fotos = S].triagens = lido[a].triagens
        /\ [lido[a] EXCEPT !.fotos = S].arquivos = lido[a].arquivos
        /\ [lido[a] EXCEPT !.fotos = S].fotos = S
        /\ [lido[a] EXCEPT !.fotos = S].audios = lido[a].audios
    BY <1>0, <2>2 DEF Tabelas
  <2>4. /\ lido' \in [Agregadores -> Tabelas] /\ lido'[a] = [lido[a] EXCEPT !.fotos = S]
        /\ \A b \in Agregadores \ {a} : lido'[b] = lido[b]
    BY <1>0, <2>1, <2>3
  <2>. QED
    BY <1>1, <1>2, <1>5, <2>3, <2>4 DEF S
<1>6. CASE passo[a] = 4
  <2> DEFINE S == {l \in derivados : l.entrada \in lido[a].entradas /\ TipoDe(l) = "audio"}
  <2>1. lido' = [lido EXCEPT ![a] = [lido[a] EXCEPT !.audios = S]]
    <3>1. Listar(a, "audios") = S
      BY DEF Listar
    <3>2. Ordem[passo[a]] = "audios"
      BY <1>6 DEF Ordem
    <3>3. lido' = [lido EXCEPT ![a]["audios"] = Listar(a, "audios")]
      BY <3>2 DEF LerTabela
    <3>. QED
      BY <3>1, <3>3
  <2>2. S \subseteq Linhas
    BY <1>0 DEF TypeOK
  <2> HIDE DEF S
  <2>3. /\ [lido[a] EXCEPT !.audios = S] \in Tabelas
        /\ [lido[a] EXCEPT !.audios = S].entradas = lido[a].entradas
        /\ [lido[a] EXCEPT !.audios = S].triagens = lido[a].triagens
        /\ [lido[a] EXCEPT !.audios = S].arquivos = lido[a].arquivos
        /\ [lido[a] EXCEPT !.audios = S].fotos = lido[a].fotos
        /\ [lido[a] EXCEPT !.audios = S].audios = S
    BY <1>0, <2>2 DEF Tabelas
  <2>4. /\ lido' \in [Agregadores -> Tabelas] /\ lido'[a] = [lido[a] EXCEPT !.audios = S]
        /\ \A b \in Agregadores \ {a} : lido'[b] = lido[b]
    BY <1>0, <2>1, <2>3
  <2>. QED
    BY <1>1, <1>2, <1>6, <2>3, <2>4 DEF S
<1>. QED
  BY <1>1, <1>3, <1>4, <1>5, <1>6

LEMMA PassoLerTabela ==
    ASSUME InvA, NEW a \in Agregadores, LerTabela(a)
    PROVE  InvA'
<1>0. /\ InvM /\ TypeOK /\ LinhasCertas /\ LinhaTemObjeto
      /\ LeituraCerta(a) /\ LeituraAtual(a)
  BY DEF InvA, InvM
<1>1. InvM'
  BY PassoInvM DEF InvA, Next
<1>2. /\ passo[a] \in 1..4 /\ leitor[a] = "lendo" /\ lido'[a].entradas = lido[a].entradas
      /\ IF passo[a] = 4 THEN leitor'[a] = "pronto" /\ passo'[a] = 4
                         ELSE leitor'[a] = "lendo" /\ passo'[a] = passo[a] + 1
      /\ UNCHANGED <<status, arquivos, derivados, triagens, dia, mudou>>
  BY Leitura DEF jobVars, tabelas
<1>10. /\ lido'[a].triagens = IF passo[a] = 1
             THEN {t \in triagens : t.entrada \in lido[a].entradas} ELSE lido[a].triagens
       /\ lido'[a].arquivos = IF passo[a] = 2
             THEN {l \in arquivos : l.entrada \in lido[a].entradas} ELSE lido[a].arquivos
       /\ lido'[a].fotos = IF passo[a] = 3
             THEN {l \in derivados : TipoDe(l) = "foto" /\ Dia[l.entrada] = dia[a]}
             ELSE lido[a].fotos
       /\ lido'[a].audios = IF passo[a] = 4
             THEN {l \in derivados : l.entrada \in lido[a].entradas /\ TipoDe(l) = "audio"}
             ELSE lido[a].audios
  BY Leitura
<1>3. \A e \in lido[a].entradas : e \in Entradas /\ Dia[e] = dia[a]
  BY <1>0, <1>2 DEF LeituraCerta, Lendo, InvA, Tabelas
<1>4. \A t \in lido'[a].triagens : t \in triagens /\ t.entrada \in lido[a].entradas
  BY <1>0, <1>2, <1>10 DEF LeituraCerta
<1>5. ASSUME NEW t \in lido'[a].triagens
      PROVE  /\ passo'[a] >= 3 => {l \in arquivos : l.entrada = t.entrada} \subseteq lido'[a].arquivos
             /\ passo'[a] = 4 => {l \in derivados : l.entrada = t.entrada /\ TipoDe(l) = "foto"}
                                    \subseteq lido'[a].fotos
             /\ leitor'[a] = "pronto" =>
                   {l \in derivados : l.entrada = t.entrada /\ TipoDe(l) = "audio"}
                       \subseteq lido'[a].audios
  <2>1. t.entrada \in lido[a].entradas /\ Dia[t.entrada] = dia[a]
    BY <1>3, <1>4, <1>5
  <2>2. CASE passo[a] = 1
    BY <1>2, <2>2
  <2>3. CASE passo[a] = 2
    <3>1. lido'[a].arquivos = {l \in arquivos : l.entrada \in lido[a].entradas}
      BY <2>3, <1>10
    <3>. QED
      BY <1>2, <2>1, <2>3, <3>1
  <2>4. CASE passo[a] \in {3, 4}
    <3>1. t \in lido[a].triagens /\ lido'[a].arquivos = lido[a].arquivos
      BY <1>5, <2>4, <1>10
    <3>2. {l \in arquivos : l.entrada = t.entrada} \subseteq lido'[a].arquivos
      BY <1>0, <2>4, <3>1 DEF LeituraCerta
    <3>3. {l \in derivados : l.entrada = t.entrada /\ TipoDe(l) = "foto"} \subseteq lido'[a].fotos
      <4>1. CASE passo[a] = 3
        <5>1. lido'[a].fotos = {l \in derivados : TipoDe(l) = "foto" /\ Dia[l.entrada] = dia[a]}
          BY <4>1, <1>10
        <5>. QED
          BY <2>1, <5>1
      <4>2. CASE passo[a] = 4
        <5>1. lido'[a].fotos = lido[a].fotos
          BY <4>2, <1>10
        <5>. QED
          BY <1>0, <3>1, <4>2, <5>1 DEF LeituraCerta
      <4>. QED
        BY <2>4, <4>1, <4>2
    <3>4. leitor'[a] = "pronto" =>
             {l \in derivados : l.entrada = t.entrada /\ TipoDe(l) = "audio"} \subseteq lido'[a].audios
      <4>1. CASE passo[a] = 4
        <5>1. lido'[a].audios = {l \in derivados : l.entrada \in lido[a].entradas
                                                   /\ TipoDe(l) = "audio"}
          BY <4>1, <1>10
        <5>. QED
          BY <2>1, <5>1
      <4>2. CASE passo[a] = 3
        BY <1>2, <4>2
      <4>. QED
        BY <2>4, <4>1, <4>2
    <3>. QED
      BY <3>2, <3>3, <3>4
  <2>. QED
    BY <1>2, <2>2, <2>3, <2>4
<1>6. LeituraCerta(a)'
  <2>1. passo'[a] # 1 /\ leitor'[a] \in {"lendo", "pronto"} /\ (leitor'[a] = "pronto" => passo'[a] = 4)
    BY <1>2
  <2>2. passo'[a] <= 2 => lido'[a].fotos = {} /\ lido'[a].audios = {}
    <3>1. ASSUME passo'[a] <= 2 PROVE passo[a] = 1
      BY <1>2, <3>1
    <3>2. CASE passo[a] = 1
      BY <1>0, <3>2, <1>10 DEF LeituraCerta
    <3>. QED
      BY <3>1, <3>2
  <2>. QED
    BY <1>2, <1>3, <1>4, <1>5, <2>1, <2>2 DEF LeituraCerta
<1>7. ASSUME ~mudou[a]
      PROVE  /\ lido'[a].fotos \cup lido'[a].audios \subseteq lido'[a].arquivos
             /\ \A e \in Entradas : status[e] # "ausente" /\ Dia[e] = dia[a] => e \in lido[a].entradas
             /\ passo'[a] >= 3 => {l \in arquivos : l.entrada \in lido[a].entradas}
                                     \subseteq lido'[a].arquivos
  <2>1. /\ lido[a].fotos \cup lido[a].audios \subseteq lido[a].arquivos
        /\ \A e \in Entradas : status[e] # "ausente" /\ Dia[e] = dia[a] => e \in lido[a].entradas
        /\ passo[a] >= 3 => {l \in arquivos : l.entrada \in lido[a].entradas}
                               \subseteq lido[a].arquivos
    BY <1>0, <1>2, <1>7 DEF LeituraAtual, Lendo
  <2>2. \A l \in derivados : /\ l \in arquivos /\ l.entrada \in Entradas
                             /\ status[l.entrada] # "ausente"
    BY <1>0 DEF LinhaTemObjeto, LinhasCertas, JaTriada, TypeOK, Linhas
  <2>3. CASE passo[a] = 1
    <3>1. /\ lido'[a].fotos = lido[a].fotos /\ lido'[a].audios = lido[a].audios
          /\ lido'[a].arquivos = lido[a].arquivos
      BY <2>3, <1>10
    <3>. QED
      BY <1>2, <2>1, <2>3, <3>1
  <2>4. CASE passo[a] = 2
    <3>1. /\ lido'[a].fotos = {} /\ lido'[a].audios = {}
          /\ lido'[a].arquivos = {l \in arquivos : l.entrada \in lido[a].entradas}
      BY <1>0, <2>4, <1>10 DEF LeituraCerta
    <3>. QED
      BY <2>1, <3>1
  <2>5. CASE passo[a] = 3
    <3>1. /\ lido'[a].fotos = {l \in derivados : TipoDe(l) = "foto" /\ Dia[l.entrada] = dia[a]}
          /\ lido'[a].audios = lido[a].audios /\ lido'[a].arquivos = lido[a].arquivos
      BY <2>5, <1>10
    <3>. QED
      BY <2>1, <2>2, <2>5, <3>1
  <2>6. CASE passo[a] = 4
    <3>1. /\ lido'[a].fotos = lido[a].fotos /\ lido'[a].arquivos = lido[a].arquivos
          /\ lido'[a].audios = {l \in derivados : l.entrada \in lido[a].entradas
                                                  /\ TipoDe(l) = "audio"}
      BY <2>6, <1>10
    <3>. QED
      BY <2>1, <2>2, <2>6, <3>1
  <2>. QED
    BY <1>2, <2>3, <2>4, <2>5, <2>6
<1>8. LeituraAtual(a)'
  BY <1>2, <1>7 DEF LeituraAtual, Lendo
<1>9. \A b \in Agregadores \ {a} : LeituraCerta(b)' /\ LeituraAtual(b)'
  <2>1. ASSUME NEW b \in Agregadores \ {a} PROVE LeituraCerta(b)' /\ LeituraAtual(b)'
    <3>1. /\ leitor'[b] = leitor[b] /\ passo'[b] = passo[b] /\ lido'[b] = lido[b]
          /\ UNCHANGED <<jobVars, tabelas, dia, mudou>>
      BY ZenonT(30), <2>1, Leitura
    <3>2. LeituraCerta(b) /\ LeituraAtual(b)
      BY <2>1 DEF InvA
    <3>. QED
      BY <2>1, <3>1, <3>2, LeituraAlheia
  <2>. QED
    BY <2>1
<1>. QED
  BY <1>1, <1>6, <1>8, <1>9, Leitura DEF InvA

LEMMA InvASempre == Spec => []InvA
<1>1. ASSUME Init, InvM PROVE InvA
  <2>1. lido \in [Agregadores -> Tabelas]
    BY <1>1 DEF Init, NadaLido, Tabelas
  <2>2. \A a \in Agregadores : LeituraCerta(a) /\ LeituraAtual(a)
    BY <1>1 DEF Init, NadaLido, LeituraCerta, LeituraAtual, Lendo
  <2>. QED
    BY <1>1, <2>1, <2>2 DEF InvA
<1>2. ASSUME InvA, [Next]_vars PROVE InvA'
  <2>1. InvM' /\ InvM /\ lido \in [Agregadores -> Tabelas]
    BY <1>2, PassoInvM DEF InvA
  <2>2. CASE UNCHANGED vars
    <3>1. UNCHANGED <<jobVars, tabelas, mudou, leitor, passo, dia, lido>>
      BY <2>2 DEF vars, agregacao
    <3>2. \A b \in Agregadores : LeituraCerta(b)' /\ LeituraAtual(b)'
      BY <1>2, <3>1, LeituraAlheia DEF InvA
    <3>. QED
      BY <2>1, <3>1, <3>2 DEF InvA
  <2>3. ASSUME NEW e \in Entradas, Passo(e) PROVE InvA'
    <3>1. lido' = lido
      BY <2>1, <2>3, PassoDoJob DEF agregacao
    <3>. QED
      BY <1>2, <2>1, <2>3, <3>1, LeituraDuranteOJob DEF InvA
  <2>4. ASSUME NEW a \in Agregadores, (\E d \in Dias : LerEntradas(a, d)) \/ LerTabela(a)
        PROVE  InvA'
    BY <1>2, <2>4, PassoLerEntradas, PassoLerTabela
  <2>. QED
    BY <1>2, <2>2, <2>3, <2>4 DEF Next, Passo
<1>. QED
  BY <1>1, <1>2, InvMSempre, PTL DEF Spec

(* A day never shows a triage without what was filed with it, and when     *)
(* nothing was committed meanwhile, no photo or audio without its file.    *)
THEOREM AgregadoSempreCoerente == Spec => []AgregadoCoerente
<1>1. ASSUME InvA PROVE AgregadoCoerente
  <2>1. ASSUME NEW a \in Agregadores, leitor[a] = "pronto", NEW t \in lido[a].triagens
        PROVE  /\ {l \in arquivos : l.entrada = t.entrada} \subseteq lido[a].arquivos
               /\ {l \in derivados : l.entrada = t.entrada} \subseteq lido[a].fotos \cup lido[a].audios
    <3>1. LeituraCerta(a) /\ \A l \in derivados : TipoDe(l) \in {"foto", "audio"}
      BY <1>1 DEF InvA, InvM, LinhasCertas
    <3>2. passo[a] = 4
      BY <2>1, <3>1 DEF LeituraCerta
    <3>. QED
      BY <2>1, <3>1, <3>2 DEF LeituraCerta
  <2>2. AgregadoCompleto
    BY <2>1 DEF AgregadoCompleto
  <2>3. AgregadoFechado
    BY <1>1 DEF AgregadoFechado, InvA, LeituraAtual, Lendo
  <2>. QED
    BY <2>2, <2>3 DEF AgregadoCoerente
<1>. QED
  BY <1>1, InvASempre, PTL
=============================================================================
