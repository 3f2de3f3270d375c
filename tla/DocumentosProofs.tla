--------------------------- MODULE DocumentosProofs ---------------------------
(***************************************************************************)
(* Proofs about Documentos, for any documentos, days, slugs, renames and   *)
(* requests, any number of versions, photos and deaths.                    *)
(***************************************************************************)
EXTENDS Documentos, TLAPS

Rascunhando(p) == pc[p] \in {"rascunho", "rascunhoGuardado"}
Operando(p) == pc[p] \notin {"livre", "rascunho", "rascunhoGuardado"}
Publicando(p) == pc[p] \in {"aprovada", "verificada", "publicada"}

(* The row r of the documento d, as it is or as a request has read it,     *)
(* when ds are the documentos somebody asked to approve.                   *)
LinhaCerta(r, d, ds) ==
    /\ r.status # "ausente"
    /\ d \in Rascunhos => r.dia # Nenhum /\ r.chave # Nenhum
    /\ d \in Triados => r.dia = Nenhum /\ r.tipo = "rdo"
    /\ r.chave # Nenhum =>
          IF Final(r.chave)
          THEN /\ r.chave = ChaveFinal(r, r.chave.slug)
               /\ d \in ds /\ r.status # "RASCUNHO_GERADO"
          ELSE r.chave = ChaveRascunho(r.tipo, r.chave.slug, r.dia, r.rev)
    /\ r.status = "FINALIZADO_VALIDADO" => r.chave # Nenhum /\ Final(r.chave)
LinhasCertas ==
    /\ \A d \in Docs : IF Existe(d) THEN LinhaCerta(documentos[d], d, decididos)
                                    ELSE documentos[d] = SemLinha
    /\ aprovacoes \subseteq decididos /\ \A d \in decididos : Existe(d)

(* What the columns that identify a documento are, in two of its rows.     *)
MesmoDocumento(r, s) == r.tipo = s.tipo /\ r.dia = s.dia /\ r.rev = s.rev

(* What each request has read and is about to write.                       *)
PedidoCerto(p) ==
    LET r == pedido[p] IN
    /\ pc[p] = "livre" => r = SemPedido
    /\ Rascunhando(p) =>
          /\ r.doc \in Rascunhos /\ LinhaCerta(r.lido, r.doc, decididos)
          /\ r.lido.chave = r.chave /\ ~Final(r.chave) /\ r.lido.hash = r.conteudo
          /\ r.lido.status = "RASCUNHO_GERADO" /\ r.conteudo # Nenhum
    /\ Operando(p) =>
          /\ r.doc \in Docs /\ Existe(r.doc) /\ LinhaCerta(r.lido, r.doc, decididos)
          /\ MesmoDocumento(r.lido, documentos[r.doc])
          /\ pc[p] \notin {"verificada", "publicada"} => r.chave = r.lido.chave
    /\ pc[p] \in {"edicao", "edicaoGuardada"} =>
          /\ r.chave # Nenhum /\ r.conteudo # Nenhum
          /\ r.lido.tipo = "rdo" /\ r.lido.status \in Editaveis
    /\ pc[p] = "finalizacao" => r.lido.tipo = "rdo" /\ r.doc \in aprovacoes
    /\ pc[p] \in {"verificada", "publicada"} =>
          /\ r.chave # Nenhum /\ r.conteudo # Nenhum /\ Final(r.chave)
          /\ r.chave = ChaveFinal(r.lido, r.chave.slug)
    /\ pc[p] = "verificada" => ~UmProcesso
RascunhosSos ==
    \A p \in Pedidos : Rascunhando(p) =>
        /\ ~Existe(pedido[p].doc)
        /\ \A q \in Pedidos \ {p} : pedido[q].doc # pedido[p].doc
PedidosCertos == (\A p \in Pedidos : PedidoCerto(p)) /\ RascunhosSos

(* A publication has been decided, and holds the row unless its approval   *)
(* is committed.                                                           *)
TravasCertas ==
    /\ TravaDeQuemPublica
    /\ \A p \in Pedidos : Publicando(p) =>
          /\ pedido[p].doc \in decididos
          /\ trava[pedido[p].doc] = p \/
                /\ pc[p] # "aprovada" /\ pedido[p].doc \in aprovacoes
                /\ pedido[p].lido.tipo = "rdo"

(* Nothing leaves the bucket.                                              *)
ObjetosGuardados ==
    /\ \A d \in Docs : documentos[d].chave # Nenhum => bucket[documentos[d].chave] # Nenhum
    /\ \A p \in Pedidos :
          pedido[p].chave # Nenhum /\ pc[p] \notin {"rascunho", "verificada"} =>
              bucket[pedido[p].chave] # Nenhum

InvP == /\ TypeOK /\ LinhasCertas /\ PedidosCertos /\ TravasCertas
        /\ ObjetosGuardados /\ FinalAprovado

(* With one process the object under a final key stays with the documento  *)
(* published there.                                                        *)
DonosDosFinais ==
    UmProcesso =>
        /\ \A d \in Docs : documentos[d].chave # Nenhum /\ Final(documentos[d].chave) =>
              bucket[documentos[d].chave].dono = d
        /\ \A p \in Pedidos : pedido[p].chave # Nenhum /\ Final(pedido[p].chave) =>
              bucket[pedido[p].chave].dono = pedido[p].doc

InvD == InvP /\ DonosDosFinais

(* Revisions, also of drafts whose row is not inserted yet.                *)
Distintas(r, s) == MesmaSerie(r, s) => r.rev # s.rev
RevisoesCertas ==
    /\ RevisaoUnica
    /\ \A p, q \in Pedidos : Rascunhando(p) /\ Rascunhando(q) /\ p # q =>
          pedido[p].doc \in gemeos
    /\ \A p \in Pedidos, d \in Rascunhos :
          /\ Rascunhando(p) /\ Existe(d)
          /\ d \notin gemeos \/ pedido[p].doc \notin gemeos
          => Distintas(documentos[d], pedido[p].lido)

InvR == InvP /\ RevisoesCertas

(* The only request on a documento in peace knows its row; the object of   *)
(* the row is the one it hashes, but while an edit is being recorded.      *)
EmPaz ==
    /\ \A p, q \in Pedidos : pedido[p].doc \in Docs \ disputa /\ pedido[q].doc = pedido[p].doc
          => p = q
    /\ \A p \in Pedidos : Operando(p) /\ pedido[p].doc \notin disputa =>
          pedido[p].lido = documentos[pedido[p].doc]
SemEdicao(d) == \A p \in Pedidos : pedido[p].doc = d => pc[p] # "edicaoGuardada"
Gravado(d) ==
    LET k == documentos[d].chave IN
    /\ bucket[k].dono = d
    /\ SemEdicao(d) => bucket[k].conteudo = documentos[d].hash
Guardada(p) == /\ pedido[p].doc \in Incontestes
               /\ pc[p] \in {"rascunhoGuardado", "edicaoGuardada", "publicada"}
ObjetoDoPedido(p) ==
    bucket[pedido[p].chave] = [conteudo |-> pedido[p].conteudo, dono |-> pedido[p].doc]
GravadosCertos ==
    UmProcesso =>
        /\ \A d \in Incontestes : documentos[d].chave # Nenhum => Gravado(d)
        /\ \A p \in Pedidos : Guardada(p) => ObjetoDoPedido(p)
InvH == InvD /\ InvR /\ EmPaz /\ GravadosCertos

(* What is approved has been seen.                                         *)
VistosCertos ==
    UmProcesso =>
        /\ \A d \in Incontestes : documentos[d].status = "APROVADO" => Visto(d) \subseteq vistos[d]
        /\ \A p \in Pedidos : pedido[p].doc \in Incontestes =>
              LET d == pedido[p].doc IN
              /\ pc[p] = "aprovada" => Visto(d) \subseteq vistos[d]
              /\ pc[p] = "finalizacao" => pedido[p].lido.status = "APROVADO"
              /\ pc[p] = "publicada" /\ pedido[p].lido.tipo = "rdo" =>
                    pedido[p].conteudo \in {Pdf(c) : c \in vistos[d]}
InvV == InvH /\ VistosCertos /\ (UmProcesso => PublicaOAprovado)

(* The photos in what is stored, seen and published.                       *)
FotosGuardadas ==
    \A k \in Chaves : k.tipo = "foto" /\ bucket[k] # Nenhum =>
        bucket[k].conteudo.versao <= fotos
FotosVistas ==
    \A d \in Docs : /\ d \notin decididos => vistos[d] = {}
                    /\ documentos[d].tipo = "foto" => \A c \in vistos[d] : c.versao <= fotos
(* What a request has rendered: not more than there are, not less than     *)
(* were seen, and what lies under its key is not ahead of it.              *)
FotosDoPedido(p) ==
    pedido[p].lido.tipo = "foto" =>
        /\ pedido[p].conteudo # Nenhum => pedido[p].conteudo.versao <= fotos
        /\ pc[p] \in {"verificada", "publicada"} =>
              \A c \in vistos[pedido[p].doc] : c.versao <= pedido[p].conteudo.versao
        /\ pc[p] = "verificada" => pedido[p].chave # documentos[pedido[p].doc].chave
        /\ pc[p] = "publicada" /\ pedido[p].doc \notin gemeos =>
              bucket[pedido[p].chave].conteudo.versao <= pedido[p].conteudo.versao
FotosPublicadas ==
    \A d \in Docs \ gemeos : Publicado(d, "foto") =>
        /\ bucket[documentos[d].chave].conteudo.versao <= documentos[d].hash.versao
        /\ \A c \in vistos[d] : c.versao <= documentos[d].hash.versao
FotosCertas == /\ FotosGuardadas /\ FotosVistas /\ FotosPublicadas
               /\ \A p \in Pedidos : FotosDoPedido(p)
InvF == InvR /\ FotosCertas
-----------------------------------------------------------------------------
(* Keys and rows.                                                          *)

LEMMA TipoRascunho ==
    ASSUME NEW t \in Tipos, NEW s \in Slugs, NEW d \in Dias, NEW n \in Revs
    PROVE  LET k == ChaveRascunho(t, s, d, n) IN
           k \in Chaves /\ ~Final(k) /\ k = ChaveRascunho(t, k.slug, d, n)
<1>1. t \in {"rdo", "foto"} /\ Nenhum \notin Slugs
  BY DocumentosAssumption
<1>. QED
  BY <1>1 DEF ChaveRascunho, Chaves, Final

LEMMA TipoFinal ==
    ASSUME NEW r \in Linhas, NEW s \in Slugs
    PROVE  LET k == ChaveFinal(r, s) IN k \in Finais /\ Final(k) /\ k.slug = s
<1>1. r.tipo \in Tipos \cup {"rdo"} /\ r.dia \in Dias \cup {Nenhum} /\ r.rev \in Revs
  BY DEF Linhas
<1>2. Hoje \in Dias /\ Nenhum \notin Slugs
  BY DocumentosAssumption
<1>. QED
  BY <1>1, <1>2 DEF ChaveFinal, Finais, Chaves, Final

LEMMA CamposDaChave ==
    ASSUME NEW k \in Chaves
    PROVE  /\ k.tipo \in Tipos \cup {"rdo"} /\ k.dia \in Dias /\ k.rev \in Revs
           /\ k.slug \in Slugs \cup {Nenhum} /\ k # Nenhum
           /\ Final(k) => k \in Finais /\ k.slug \in Slugs
BY NenhumAssumption DEF Chaves, Finais, Final

LEMMA Conversoes ==
    /\ \A v \in Nat : Html(v) \in Conteudos /\ Html(v).versao = v
    /\ \A c \in Conteudos : Pdf(c) \in Conteudos /\ Pdf(c).versao = c.versao
    /\ \A c \in Conteudos : c.versao \in Nat /\ c # Nenhum
BY NenhumAssumption DEF Html, Pdf, Conteudos

LEMMA NovoStatus ==
    ASSUME NEW r \in Linhas, NEW s \in Status
    PROVE  LET n == [r EXCEPT !.status = s] IN
           /\ n \in Linhas /\ n.status = s /\ MesmoDocumento(n, r)
           /\ n.chave = r.chave /\ n.hash = r.hash
BY DEF Linhas, MesmoDocumento

Lembrancas == [doc : Docs \cup {Nenhum}, lido : Linhas, chave : Chaves \cup {Nenhum},
               conteudo : Conteudos \cup {Nenhum}]

LEMMA TipoSemLinha == SemLinha \in Linhas
<1>1. 0 \in Revs
  BY DocumentosAssumption DEF Revs
<1>. QED
  BY <1>1 DEF SemLinha, Linhas, Status

LEMMA TipoSemPedido == SemPedido \in Lembrancas
BY TipoSemLinha DEF SemPedido, Lembrancas

-----------------------------------------------------------------------------
(* What each step does, request by request and key by key.                 *)

Outros(p) == \A q \in Pedidos \ {p} : pc'[q] = pc[q] /\ pedido'[q] = pedido[q]

LEMMA Indo ==
    ASSUME TypeOK, NEW p \in Pedidos, NEW passo \in Passos, NEW r \in Lembrancas,
           Ir(p, passo, r)
    PROVE  /\ pc' \in [Pedidos -> Passos] /\ pedido' \in [Pedidos -> Lembrancas]
           /\ pc'[p] = passo /\ pedido'[p] = r /\ Outros(p)
BY DEF TypeOK, Ir, Outros, Lembrancas

LEMMA Terminando ==
    ASSUME TypeOK, NEW p \in Pedidos, Terminar(p)
    PROVE  /\ pc' \in [Pedidos -> Passos] /\ pedido' \in [Pedidos -> Lembrancas]
           /\ pc'[p] = "livre" /\ pedido'[p] = SemPedido /\ Outros(p)
BY Indo, TipoSemPedido DEF Terminar, Passos

LEMMA Guardando ==
    ASSUME TypeOK, NEW k \in Chaves, NEW c \in Conteudos, NEW d \in Docs,
           bucket' = Guardado(k, c, d)
    PROVE  /\ bucket' \in [Chaves -> Objetos \cup {Nenhum}]
           /\ bucket'[k] = [conteudo |-> c, dono |-> d] /\ bucket'[k] # Nenhum
           /\ \A x \in Chaves \ {k} : bucket'[x] = bucket[x]
           /\ \A x \in Chaves : bucket[x] # Nenhum => bucket'[x] # Nenhum
<1>1. [conteudo |-> c, dono |-> d] \in Objetos
  BY DEF Objetos
<1>2. bucket' = [bucket EXCEPT ![k] = [conteudo |-> c, dono |-> d]]
  BY DEF Guardado
<1>. QED
  BY <1>1, <1>2, NenhumAssumption DEF TypeOK

LEMMA Gravando ==
    ASSUME TypeOK, NEW d \in Docs, NEW r \in Linhas, documentos' = [documentos EXCEPT ![d] = r]
    PROVE  /\ documentos' \in [Docs -> Linhas] /\ documentos'[d] = r
           /\ \A x \in Docs \ {d} : documentos'[x] = documentos[x]
BY DEF TypeOK

(* The operands of a step, by the type invariant.                          *)
LEMMA TiposDoPedido ==
    ASSUME TypeOK, NEW p \in Pedidos
    PROVE  /\ pedido[p] \in Lembrancas /\ pedido[p].doc \in Docs \cup {Nenhum}
           /\ pedido[p].lido \in Linhas /\ pedido[p].chave \in Chaves \cup {Nenhum}
           /\ pedido[p].conteudo \in Conteudos \cup {Nenhum} /\ pc[p] \in Passos
BY DEF TypeOK, Lembrancas

LEMMA TiposDaLinha ==
    ASSUME TypeOK, NEW d \in Docs
    PROVE  /\ documentos[d] \in Linhas /\ documentos[d].chave \in Chaves \cup {Nenhum}
           /\ documentos[d].status \in Status /\ documentos[d].hash \in Conteudos \cup {Nenhum}
           /\ documentos[d].dia \in Dias \cup {Nenhum} /\ documentos[d].rev \in Revs
           /\ documentos[d].tipo \in Tipos \cup {"rdo"}
BY DEF TypeOK, Linhas

LEMMA TiposDoObjeto ==
    ASSUME TypeOK, NEW k \in Chaves, bucket[k] # Nenhum
    PROVE  bucket[k].conteudo \in Conteudos /\ bucket[k].dono \in Docs
BY DEF TypeOK, Objetos

(* What somebody who opens a documento sees is some content.               *)
LEMMA TipoDeVisto ==
    ASSUME TypeOK, ObjetosGuardados, NEW d \in Docs
    PROVE  Visto(d) \subseteq Conteudos
<1>1. CASE documentos[d].chave = Nenhum
  BY <1>1, Conversoes DEF Visto, Vazio
<1>2. CASE documentos[d].chave # Nenhum
  <2>1. documentos[d].chave \in Chaves /\ bucket[documentos[d].chave] # Nenhum
    BY <1>2, TiposDaLinha DEF ObjetosGuardados
  <2>. QED
    BY <1>2, <2>1, TiposDoObjeto DEF Visto
<1>. QED
  BY <1>1, <1>2

LEMMA LinhaCertaCresce ==
    ASSUME NEW r, NEW d, NEW D, NEW E, D \subseteq E, LinhaCerta(r, d, D)
    PROVE  LinhaCerta(r, d, E)
BY DEF LinhaCerta

-----------------------------------------------------------------------------
(* The steps, under what is known of rows and requests.                    *)
Base == TypeOK /\ LinhasCertas /\ PedidosCertos /\ ObjetosGuardados

LEMMA Triagem ==
    ASSUME Base, NEW d \in Triados, ArquivarTriado(d)
    PROVE  /\ d \in Docs /\ d \notin Rascunhos /\ ~Existe(d) /\ documentos[d] = SemLinha
           /\ documentos' \in [Docs -> Linhas]
           /\ documentos'[d].status = "TRIADO" /\ MesmoDocumento(documentos'[d], SemLinha)
           /\ documentos'[d].chave = Nenhum /\ documentos'[d].hash = Nenhum
           /\ \A x \in Docs \ {d} : documentos'[x] = documentos[x]
<1>1. d \in Docs /\ d \notin Rascunhos /\ ~Existe(d) /\ documentos[d] = SemLinha
  BY DocumentosAssumption DEF Docs, ArquivarTriado, Base, LinhasCertas
<1>2. documentos' = [documentos EXCEPT ![d] = [documentos[d] EXCEPT !.status = "TRIADO"]]
  BY DEF ArquivarTriado
<1>3. "TRIADO" \in Status
  BY DEF Status
<1>4. [documentos[d] EXCEPT !.status = "TRIADO"] \in Linhas
  BY <1>1, <1>3, NovoStatus, TipoSemLinha
<1>5. /\ documentos' \in [Docs -> Linhas]
      /\ documentos'[d] = [documentos[d] EXCEPT !.status = "TRIADO"]
      /\ \A x \in Docs \ {d} : documentos'[x] = documentos[x]
  BY <1>1, <1>2, <1>4, Gravando DEF Base
<1>. QED
  BY <1>1, <1>3, <1>5, NovoStatus, TipoSemLinha DEF SemLinha

LEMMA NovoRascunho ==
    ASSUME Base, NEW p \in Pedidos, NEW d \in Docs, NEW t \in Tipos, NEW dia \in Dias,
           LerRevisoes(p, d, t, dia)
    PROVE  /\ pc[p] = "livre" /\ d \in Rascunhos /\ ~Existe(d)
           /\ \A q \in Pedidos : pedido[q].doc # d
           /\ pc' \in [Pedidos -> Passos] /\ pedido' \in [Pedidos -> Lembrancas]
           /\ pc'[p] = "rascunho" /\ Outros(p) /\ pedido'[p].doc = d
           /\ pedido'[p].lido.tipo = t /\ pedido'[p].lido.dia = dia
           /\ ProximaRevisao(pedido'[p].lido.rev, Revisoes(t, dia))
           /\ pedido'[p].lido.status = "RASCUNHO_GERADO"
           /\ pedido'[p].lido.chave = pedido'[p].chave
           /\ pedido'[p].lido.hash = pedido'[p].conteudo
           /\ pedido'[p].chave = ChaveRascunho(t, slug, dia, pedido'[p].lido.rev)
           /\ pedido'[p].chave \in Chaves /\ pedido'[p].conteudo = ConteudoNovo(t)
           /\ pedido'[p].conteudo \in Conteudos
           /\ versoes' \in 0..MaxVersoes /\ gemeos \subseteq gemeos' /\ gemeos' \subseteq Docs
           /\ \A q \in Pedidos : Rascunhando(q) => {d, pedido[q].doc} \subseteq gemeos'
           /\ UNCHANGED <<slug, fotos, documentos, aprovacoes, bucket, trava, quedas,
                          decididos, vistos, disputa>>
<1>0. TypeOK /\ \A q \in Pedidos : Rascunhando(q) => pedido[q].doc \in Docs
  BY DEF Base, PedidosCertos, PedidoCerto, Docs
<1>1. PICK n \in Revs :
        /\ ProximaRevisao(n, Revisoes(t, dia))
        /\ LET k == ChaveRascunho(t, slug, dia, n)
               c == ConteudoNovo(t)
           IN Ir(p, "rascunho", [doc |-> d, chave |-> k, conteudo |-> c,
                                 lido |-> LinhaNova(t, dia, n, k, c)])
  BY DEF LerRevisoes
<1> DEFINE k == ChaveRascunho(t, slug, dia, n)
           c == ConteudoNovo(t)
           l == LinhaNova(t, dia, n, k, c)
           r == [doc |-> d, chave |-> k, conteudo |-> c, lido |-> l]
<1>2. k \in Chaves
  BY <1>0, TipoRascunho DEF TypeOK
<1>3. c \in Conteudos
  <2>1. versoes + 1 \in Nat /\ fotos \in Nat
    BY <1>0, DocumentosAssumption DEF TypeOK
  <2>. QED
    BY <2>1, Conversoes DEF ConteudoNovo
<1>4. /\ l \in Linhas /\ l.tipo = t /\ l.dia = dia /\ l.rev = n /\ l.chave = k
      /\ l.hash = c /\ l.status = "RASCUNHO_GERADO"
  BY <1>2, <1>3 DEF LinhaNova, Linhas, Status
<1>5. r \in Lembrancas /\ r.doc = d /\ r.chave = k /\ r.conteudo = c /\ r.lido = l
  BY <1>2, <1>3, <1>4 DEF Lembrancas
<1>6. Ir(p, "rascunho", r) /\ ProximaRevisao(n, Revisoes(t, dia))
  BY <1>1
<1>7. "rascunho" \in Passos
  BY DEF Passos
<1> HIDE DEF r, l
<1>8. /\ pc' \in [Pedidos -> Passos] /\ pedido' \in [Pedidos -> Lembrancas]
      /\ pc'[p] = "rascunho" /\ pedido'[p] = r /\ Outros(p)
  BY <1>0, <1>5, <1>6, <1>7, Indo
<1>9. /\ pc[p] = "livre" /\ d \in Rascunhos /\ ~Existe(d)
      /\ \A q \in Pedidos : pedido[q].doc # d
      /\ UNCHANGED <<slug, fotos, documentos, aprovacoes, bucket, trava, quedas,
                     decididos, vistos, disputa>>
  BY DEF LerRevisoes
<1>10. versoes' \in 0..MaxVersoes
  BY <1>0, DocumentosAssumption DEF LerRevisoes, TypeOK
<1>11. /\ gemeos \subseteq gemeos' /\ gemeos' \subseteq Docs
       /\ \A q \in Pedidos : Rascunhando(q) => {d, pedido[q].doc} \subseteq gemeos'
  BY <1>0 DEF LerRevisoes, TypeOK, Rascunhando
<1>. QED
  BY <1>2, <1>3, <1>4, <1>5, <1>6, <1>8, <1>9, <1>10, <1>11

(* The object a request puts: a draft, an edit or a verified publication.  *)
LEMMA Objeto ==
    ASSUME Base, NEW p \in Pedidos,
           pc[p] \in {"rascunho", "edicao", "verificada"}, NEW passo \in Passos,
           bucket' = Guardado(pedido[p].chave, pedido[p].conteudo, pedido[p].doc),
           pc' = [pc EXCEPT ![p] = passo], UNCHANGED pedido
    PROVE  /\ pedido[p].chave \in Chaves /\ pedido[p].conteudo \in Conteudos
           /\ pedido[p].doc \in Docs
           /\ bucket' \in [Chaves -> Objetos \cup {Nenhum}]
           /\ bucket'[pedido[p].chave] = [conteudo |-> pedido[p].conteudo,
                                          dono |-> pedido[p].doc]
           /\ bucket'[pedido[p].chave] # Nenhum
           /\ \A k \in Chaves \ {pedido[p].chave} : bucket'[k] = bucket[k]
           /\ \A k \in Chaves : bucket[k] # Nenhum => bucket'[k] # Nenhum
           /\ pc' \in [Pedidos -> Passos] /\ pc'[p] = passo /\ Outros(p)
<1>1. TypeOK /\ PedidoCerto(p)
  BY DEF Base, PedidosCertos
<1>2. /\ pedido[p].chave \in Chaves /\ pedido[p].conteudo \in Conteudos
      /\ pedido[p].doc \in Docs
  <2>1. pc[p] = "rascunho" => Rascunhando(p)
    BY DEF Rascunhando
  <2>2. pc[p] # "rascunho" => Operando(p)
    BY DEF Operando
  <2>3. pedido[p].doc \in Docs /\ pedido[p].conteudo # Nenhum /\ pedido[p].chave # Nenhum
    BY <1>1, <2>1, <2>2 DEF PedidoCerto, LinhaCerta, Docs
  <2>. QED
    BY <1>1, <2>3, TiposDoPedido
<1>3. pc' \in [Pedidos -> Passos] /\ pc'[p] = passo /\ Outros(p)
  BY <1>1 DEF TypeOK, Outros
<1>. QED
  BY <1>1, <1>2, <1>3, Guardando

LEMMA Insercao ==
    ASSUME Base, NEW p \in Pedidos, CriarDocumento(p)
    PROVE  /\ Rascunhando(p) /\ pedido[p].doc \in Rascunhos /\ pedido[p].doc \in Docs
           /\ ~Existe(pedido[p].doc)
           /\ \A q \in Pedidos \ {p} : pedido[q].doc # pedido[p].doc
           /\ documentos' \in [Docs -> Linhas]
           /\ documentos'[pedido[p].doc] = pedido[p].lido
           /\ \A x \in Docs \ {pedido[p].doc} : documentos'[x] = documentos[x]
           /\ pc' \in [Pedidos -> Passos] /\ pedido' \in [Pedidos -> Lembrancas]
           /\ pc'[p] = "livre" /\ pedido'[p] = SemPedido /\ Outros(p)
           /\ UNCHANGED <<slug, fotos, versoes, aprovacoes, bucket, trava, quedas,
                          decididos, vistos, disputa, gemeos>>
<1>1. TypeOK /\ PedidoCerto(p) /\ RascunhosSos /\ Rascunhando(p)
  BY DEF Base, PedidosCertos, CriarDocumento, Rascunhando
<1>2. /\ pedido[p].doc \in Rascunhos /\ pedido[p].doc \in Docs /\ ~Existe(pedido[p].doc)
      /\ \A q \in Pedidos \ {p} : pedido[q].doc # pedido[p].doc
  BY <1>1 DEF PedidoCerto, RascunhosSos, Docs
<1>3. documentos' = [documentos EXCEPT ![pedido[p].doc] = pedido[p].lido] /\ Terminar(p)
  BY DEF CriarDocumento
<1>4. /\ documentos' \in [Docs -> Linhas]
      /\ documentos'[pedido[p].doc] = pedido[p].lido
      /\ \A x \in Docs \ {pedido[p].doc} : documentos'[x] = documentos[x]
  BY <1>1, <1>2, <1>3, Gravando, TiposDoPedido
<1>5. UNCHANGED <<slug, fotos, versoes, aprovacoes, bucket, trava, quedas,
                  decididos, vistos, disputa, gemeos>>
  BY DEF CriarDocumento
<1>. QED
  BY <1>1, <1>2, <1>3, <1>4, <1>5, Terminando

LEMMA Leitura ==
    ASSUME Base, NEW p \in Pedidos, NEW d \in Docs, NEW passo \in Passos,
           NEW c \in Conteudos \cup {Nenhum}, LerDocumento(p, d, passo, c)
    PROVE  /\ pc[p] = "livre" /\ Existe(d) /\ pedido[p] = SemPedido
           /\ pc' \in [Pedidos -> Passos] /\ pedido' \in [Pedidos -> Lembrancas]
           /\ pc'[p] = passo /\ Outros(p) /\ pedido'[p].doc = d
           /\ pedido'[p].lido = documentos[d] /\ pedido'[p].chave = documentos[d].chave
           /\ pedido'[p].conteudo = c
           /\ disputa \subseteq disputa' /\ disputa' \subseteq Docs
           /\ \A q \in Pedidos : pedido[q].doc = d => d \in disputa'
           /\ UNCHANGED <<slug, fotos, documentos, aprovacoes, bucket, trava, quedas,
                          decididos, vistos, gemeos>>
<1>1. TypeOK /\ PedidoCerto(p)
  BY DEF Base, PedidosCertos
<1> DEFINE r == [doc |-> d, lido |-> documentos[d], conteudo |-> c,
                 chave |-> documentos[d].chave]
<1>2. /\ r \in Lembrancas /\ r.doc = d /\ r.lido = documentos[d]
      /\ r.chave = documentos[d].chave /\ r.conteudo = c
  BY <1>1, TiposDaLinha DEF Lembrancas
<1>3. Ir(p, passo, r)
  BY DEF LerDocumento
<1> HIDE DEF r
<1>4. /\ pc' \in [Pedidos -> Passos] /\ pedido' \in [Pedidos -> Lembrancas]
      /\ pc'[p] = passo /\ pedido'[p] = r /\ Outros(p)
  BY <1>1, <1>2, <1>3, Indo
<1>5. /\ pc[p] = "livre" /\ Existe(d)
      /\ UNCHANGED <<slug, fotos, documentos, aprovacoes, bucket, trava, quedas,
                     decididos, vistos, gemeos>>
  BY DEF LerDocumento
<1>6. pedido[p] = SemPedido
  BY <1>1, <1>5 DEF PedidoCerto
<1>7. /\ disputa \subseteq disputa' /\ disputa' \subseteq Docs
      /\ \A q \in Pedidos : pedido[q].doc = d => d \in disputa'
  BY <1>1 DEF LerDocumento, TypeOK
<1>. QED
  BY <1>2, <1>4, <1>5, <1>6, <1>7

(* A write of a row that keeps its key and its identity.                   *)
LEMMA LinhaRegravada ==
    ASSUME NEW r, NEW n, NEW d, NEW D, LinhaCerta(r, d, D), MesmoDocumento(n, r),
           n.chave = r.chave, n.status \in {r.status, "EM_REVISAO", "APROVADO", "REPROVADO"}
    PROVE  LinhaCerta(n, d, D)
<1>1. n.chave # Nenhum /\ Final(n.chave) => ChaveFinal(n, n.chave.slug) = ChaveFinal(r, n.chave.slug)
  BY DEF MesmoDocumento, ChaveFinal
<1>. QED
  BY <1>1 DEF LinhaCerta, MesmoDocumento

LEMMA RegistroDaEdicao ==
    ASSUME Base, NEW p \in Pedidos, GravarEdicao(p)
    PROVE  LET d == pedido[p].doc IN
           /\ pc[p] = "edicaoGuardada" /\ ~Espera(p) /\ d \in Docs /\ Existe(d)
           /\ pedido[p].conteudo \in Conteudos
           /\ documentos' \in [Docs -> Linhas]
           /\ documentos'[d].status = StatusGravado(p, "EM_REVISAO")
           /\ documentos'[d].status \in {documentos[d].status, "EM_REVISAO"}
           /\ documentos'[d].hash = pedido[p].conteudo
           /\ documentos'[d].chave = documentos[d].chave
           /\ MesmoDocumento(documentos'[d], documentos[d])
           /\ LinhaCerta(documentos'[d], d, decididos)
           /\ \A x \in Docs \ {d} : documentos'[x] = documentos[x]
           /\ pc' \in [Pedidos -> Passos] /\ pedido' \in [Pedidos -> Lembrancas]
           /\ pc'[p] = "livre" /\ pedido'[p] = SemPedido /\ Outros(p)
           /\ UNCHANGED <<slug, fotos, versoes, aprovacoes, bucket, trava, quedas,
                          decididos, vistos, disputa, gemeos>>
<1> DEFINE d == pedido[p].doc
           c == pedido[p].conteudo
           s == StatusGravado(p, "EM_REVISAO")
           n == [documentos[d] EXCEPT !.status = s, !.hash = c]
<1>1. TypeOK /\ PedidoCerto(p) /\ pc[p] = "edicaoGuardada" /\ Operando(p) /\ ~Espera(p)
  BY DEF Base, PedidosCertos, GravarEdicao, Operando
<1>2. d \in Docs /\ Existe(d) /\ c \in Conteudos
  BY <1>1, TiposDoPedido DEF PedidoCerto
<1>3. s \in {documentos[d].status, "EM_REVISAO"} /\ s \in Status
  BY <1>1, <1>2, TiposDaLinha DEF StatusGravado, Status
<1>4. documentos' = [documentos EXCEPT ![d] = n] /\ Terminar(p)
  BY DEF GravarEdicao
<1>5. /\ n \in Linhas /\ n.status = s /\ MesmoDocumento(n, documentos[d])
      /\ n.chave = documentos[d].chave /\ n.hash = c
  <2>1. documentos[d] \in Linhas
    BY <1>1, <1>2, TiposDaLinha
  <2> HIDE DEF s, d, c
  <2>. QED
    BY <1>2, <1>3, <2>1 DEF Linhas, MesmoDocumento
<1>6. LinhaCerta(documentos[d], d, decididos)
  BY <1>2 DEF Base, LinhasCertas
<1> HIDE DEF n, s, d, c
<1>7. LinhaCerta(n, d, decididos)
  BY <1>3, <1>5, <1>6, LinhaRegravada
<1>8. /\ documentos' \in [Docs -> Linhas] /\ documentos'[d] = n
      /\ \A x \in Docs \ {d} : documentos'[x] = documentos[x]
  BY <1>1, <1>2, <1>4, <1>5, Gravando
<1>9. UNCHANGED <<slug, fotos, versoes, aprovacoes, bucket, trava, quedas,
                  decididos, vistos, disputa, gemeos>>
  BY DEF GravarEdicao
<1>10. /\ pc' \in [Pedidos -> Passos] /\ pedido' \in [Pedidos -> Lembrancas]
       /\ pc'[p] = "livre" /\ pedido'[p] = SemPedido /\ Outros(p)
  BY <1>1, <1>4, Terminando
<1>. QED
  BY <1>1, <1>2, <1>3, <1>5, <1>7, <1>8, <1>9, <1>10 DEF d, s, c

(* A decision taken: approved or rejected.                                 *)
Decisao(a) == IF a THEN "APROVADO" ELSE "REPROVADO"

LEMMA RegistroDaDecisao ==
    ASSUME Base, NEW p \in Pedidos, NEW a \in BOOLEAN, GravarDecisao(p, a)
    PROVE  LET d == pedido[p].doc IN
           /\ pc[p] = "decisao" /\ ~Espera(p) /\ d \in Docs /\ Existe(d)
           /\ documentos' \in [Docs -> Linhas]
           /\ documentos'[d].status = StatusGravado(p, Decisao(a))
           /\ documentos'[d].status \in {documentos[d].status, Decisao(a)}
           /\ documentos'[d].hash = documentos[d].hash
           /\ documentos'[d].chave = documentos[d].chave
           /\ MesmoDocumento(documentos'[d], documentos[d])
           /\ LinhaCerta(documentos'[d], d, decididos)
           /\ \A x \in Docs \ {d} : documentos'[x] = documentos[x]
           /\ pc' \in [Pedidos -> Passos] /\ pedido' \in [Pedidos -> Lembrancas]
           /\ pc'[p] = "livre" /\ pedido'[p] = SemPedido /\ Outros(p)
           /\ aprovacoes' = aprovacoes \cup (IF a THEN {d} ELSE {})
           /\ decididos' = decididos \cup (IF a THEN {d} ELSE {})
           /\ vistos' \in [Docs -> SUBSET Conteudos]
           /\ vistos'[d] = vistos[d] \cup (IF a THEN Visto(d) ELSE {})
           /\ \A x \in Docs \ {d} : vistos'[x] = vistos[x]
           /\ UNCHANGED <<slug, fotos, versoes, bucket, trava, quedas, disputa, gemeos>>
<1> DEFINE d == pedido[p].doc
           s == StatusGravado(p, Decisao(a))
           n == [documentos[d] EXCEPT !.status = s]
<1>1. TypeOK /\ PedidoCerto(p) /\ pc[p] = "decisao" /\ Operando(p) /\ ~Espera(p)
  BY DEF Base, PedidosCertos, GravarDecisao, Operando
<1>2. d \in Docs /\ Existe(d)
  BY <1>1 DEF PedidoCerto
<1>3. s \in {documentos[d].status, Decisao(a)} /\ s \in Status
  BY <1>1, <1>2, TiposDaLinha DEF StatusGravado, Status, Decisao
<1>4. documentos' = [documentos EXCEPT ![d] = n] /\ Terminar(p)
  BY DEF GravarDecisao, Decisao
<1>5. /\ n \in Linhas /\ n.status = s /\ MesmoDocumento(n, documentos[d])
      /\ n.chave = documentos[d].chave /\ n.hash = documentos[d].hash
  BY <1>1, <1>2, <1>3, TiposDaLinha, NovoStatus
<1>6. LinhaCerta(documentos[d], d, decididos)
  BY <1>2 DEF Base, LinhasCertas
<1>7. Visto(d) \subseteq Conteudos /\ vistos[d] \subseteq Conteudos
  BY <1>1, <1>2, TipoDeVisto DEF Base, TypeOK
<1>8. vistos' \in [Docs -> SUBSET Conteudos]
  BY <1>1, <1>2, <1>7 DEF GravarDecisao, TypeOK
<1>9. vistos'[d] = vistos[d] \cup (IF a THEN Visto(d) ELSE {})
  BY <1>1, <1>2 DEF GravarDecisao, TypeOK
<1>10. /\ \A x \in Docs \ {d} : vistos'[x] = vistos[x]
       /\ aprovacoes' = aprovacoes \cup (IF a THEN {d} ELSE {})
       /\ decididos' = decididos \cup (IF a THEN {d} ELSE {})
       /\ UNCHANGED <<slug, fotos, versoes, bucket, trava, quedas, disputa, gemeos>>
  BY <1>1 DEF GravarDecisao, TypeOK
<1> HIDE DEF n, s, d
<1>11. LinhaCerta(n, d, decididos)
  BY <1>3, <1>5, <1>6, LinhaRegravada DEF Decisao
<1>12. /\ documentos' \in [Docs -> Linhas] /\ documentos'[d] = n
       /\ \A x \in Docs \ {d} : documentos'[x] = documentos[x]
  BY <1>1, <1>2, <1>4, <1>5, Gravando
<1>13. /\ pc' \in [Pedidos -> Passos] /\ pedido' \in [Pedidos -> Lembrancas]
       /\ pc'[p] = "livre" /\ pedido'[p] = SemPedido /\ Outros(p)
  BY <1>1, <1>4, Terminando
<1>. QED
  BY <1>1, <1>2, <1>3, <1>5, <1>8, <1>9, <1>10, <1>11, <1>12, <1>13 DEF d, s

LEMMA RegistroDaAprovacao ==
    ASSUME Base, NEW p \in Pedidos, GravarAprovacao(p)
    PROVE  LET d == pedido[p].doc IN
           /\ pc[p] = "aprovacao" /\ ~Espera(p) /\ d \in Docs /\ Existe(d)
           /\ pc' \in [Pedidos -> Passos] /\ pc'[p] = "aprovada" /\ Outros(p)
           /\ trava' \in [Docs -> Pedidos \cup {Nenhum}] /\ trava'[d] = p
           /\ \A x \in Docs \ {d} : trava'[x] = trava[x]
           /\ decididos' = decididos \cup {d}
           /\ vistos' \in [Docs -> SUBSET Conteudos]
           /\ vistos'[d] = vistos[d] \cup Visto(d)
           /\ \A x \in Docs \ {d} : vistos'[x] = vistos[x]
           /\ UNCHANGED <<slug, fotos, versoes, documentos, aprovacoes, bucket, pedido,
                          quedas, disputa, gemeos>>
<1> DEFINE d == pedido[p].doc
<1>1. TypeOK /\ PedidoCerto(p) /\ pc[p] = "aprovacao" /\ Operando(p) /\ ~Espera(p)
  BY DEF Base, PedidosCertos, GravarAprovacao, Operando
<1>2. d \in Docs /\ Existe(d)
  BY <1>1 DEF PedidoCerto
<1>3. Visto(d) \subseteq Conteudos /\ vistos[d] \subseteq Conteudos
  BY <1>1, <1>2, TipoDeVisto DEF Base, TypeOK
<1>4. /\ vistos' \in [Docs -> SUBSET Conteudos] /\ vistos'[d] = vistos[d] \cup Visto(d)
      /\ \A x \in Docs \ {d} : vistos'[x] = vistos[x]
  BY <1>1, <1>2, <1>3 DEF GravarAprovacao, TypeOK
<1>5. /\ trava' \in [Docs -> Pedidos \cup {Nenhum}] /\ trava'[d] = p
      /\ \A x \in Docs \ {d} : trava'[x] = trava[x]
  BY <1>1, <1>2 DEF GravarAprovacao, TypeOK
<1>6. /\ decididos' = decididos \cup {d}
      /\ UNCHANGED <<slug, fotos, versoes, documentos, aprovacoes, bucket, pedido,
                     quedas, disputa, gemeos>>
  BY DEF GravarAprovacao
<1>7. pc' \in [Pedidos -> Passos] /\ pc'[p] = "aprovada" /\ Outros(p)
  BY <1>1, <1>6 DEF GravarAprovacao, TypeOK, Outros, Passos
<1>. QED
  BY <1>1, <1>2, <1>4, <1>5, <1>6, <1>7

(* What a request about to publish has in its hands.                       *)
LEMMA ChaveProposta ==
    ASSUME Base, NEW p \in Pedidos, pc[p] \in ProntoParaPublicar
    PROVE  LET r == pedido[p].lido
               k == ChaveFinal(r, slug)
           IN
           /\ pedido[p].doc \in Docs /\ Existe(pedido[p].doc) /\ Operando(p)
           /\ r \in Linhas /\ r.chave \in Chaves \cup {Nenhum}
           /\ k \in Finais /\ k \in Chaves /\ Final(k) /\ k.slug = slug /\ k # Nenhum
           /\ r.chave # Nenhum => bucket[r.chave] # Nenhum
           /\ ConteudoFinal(r) \in Conteudos
<1> DEFINE r == pedido[p].lido
<1>1. TypeOK /\ PedidoCerto(p) /\ Operando(p)
  BY DEF Base, PedidosCertos, Operando, ProntoParaPublicar
<1>2. pedido[p].doc \in Docs /\ Existe(pedido[p].doc) /\ r.chave = pedido[p].chave
  BY <1>1 DEF PedidoCerto, ProntoParaPublicar
<1>3. r \in Linhas /\ r.chave \in Chaves \cup {Nenhum}
  BY <1>1, <1>2, TiposDoPedido
<1>4. r.chave # Nenhum => bucket[r.chave] # Nenhum
  BY <1>2 DEF Base, ObjetosGuardados, ProntoParaPublicar
<1>5. ConteudoFinal(r) \in Conteudos
  <2>1. fotos \in Nat /\ Html(fotos) \in Conteudos /\ Html(0) \in Conteudos
    BY <1>1, Conversoes DEF TypeOK
  <2>2. r.chave # Nenhum => bucket[r.chave].conteudo \in Conteudos
    BY <1>1, <1>3, <1>4, TiposDoObjeto
  <2>. QED
    BY <2>1, <2>2, Conversoes DEF ConteudoFinal, Vazio
<1>6. slug \in Slugs
  BY <1>1 DEF TypeOK
<1>7. LET k == ChaveFinal(r, slug) IN
      k \in Finais /\ k \in Chaves /\ Final(k) /\ k.slug = slug /\ k # Nenhum
  <2>1. LET k == ChaveFinal(r, slug) IN k \in Finais /\ Final(k) /\ k.slug = slug
    BY <1>3, <1>6, TipoFinal
  <2>. QED
    BY <2>1, CamposDaChave DEF Finais
<1>. QED
  BY <1>1, <1>2, <1>3, <1>4, <1>5, <1>7

(* The key of the final is found free, by one process or among several.    *)
LEMMA ChaveLivre ==
    ASSUME Base, NEW p \in Pedidos, pc[p] \in ProntoParaPublicar, NEW passo \in Passos,
           Ir(p, passo, [pedido[p] EXCEPT !.chave = ChaveFinal(pedido[p].lido, slug),
                                          !.conteudo = ConteudoFinal(pedido[p].lido)])
    PROVE  /\ pc' \in [Pedidos -> Passos] /\ pedido' \in [Pedidos -> Lembrancas]
           /\ pc'[p] = passo /\ Outros(p)
           /\ pedido'[p].doc = pedido[p].doc /\ pedido'[p].lido = pedido[p].lido
           /\ pedido'[p].chave = ChaveFinal(pedido[p].lido, slug)
           /\ pedido'[p].conteudo = ConteudoFinal(pedido[p].lido)
<1> DEFINE k == ChaveFinal(pedido[p].lido, slug)
           c == ConteudoFinal(pedido[p].lido)
           r == [pedido[p] EXCEPT !.chave = k, !.conteudo = c]
<1>1. TypeOK /\ k \in Chaves /\ c \in Conteudos
  BY ChaveProposta DEF Base
<1>2. pedido[p] \in Lembrancas
  BY <1>1, TiposDoPedido
<1>3. /\ r \in Lembrancas /\ r.doc = pedido[p].doc /\ r.lido = pedido[p].lido
      /\ r.chave = k /\ r.conteudo = c
  <2> HIDE DEF k, c
  <2>. QED
    BY <1>1, <1>2 DEF Lembrancas
<1>4. Ir(p, passo, r)
  OBVIOUS
<1> HIDE DEF r
<1>5. /\ pc' \in [Pedidos -> Passos] /\ pedido' \in [Pedidos -> Lembrancas]
      /\ pc'[p] = passo /\ pedido'[p] = r /\ Outros(p)
  BY <1>1, <1>3, <1>4, Indo
<1>. QED
  BY <1>3, <1>5

LEMMA PublicacaoNoBucket ==
    ASSUME Base, NEW p \in Pedidos, Publicar(p)
    PROVE  LET k == ChaveFinal(pedido[p].lido, slug)
               c == ConteudoFinal(pedido[p].lido)
           IN
           /\ UmProcesso /\ pc[p] \in ProntoParaPublicar
           /\ k \in Chaves /\ Final(k) /\ bucket[k] = Nenhum
           /\ bucket' \in [Chaves -> Objetos \cup {Nenhum}]
           /\ bucket'[k] = [conteudo |-> c, dono |-> pedido[p].doc] /\ bucket'[k] # Nenhum
           /\ \A x \in Chaves \ {k} : bucket'[x] = bucket[x]
           /\ \A x \in Chaves : bucket[x] # Nenhum => bucket'[x] # Nenhum
           /\ pc'[p] = "publicada"
           /\ UNCHANGED <<slug, fotos, versoes, documentos, aprovacoes, trava, quedas,
                          decididos, vistos, disputa, gemeos>>
           /\ pc' \in [Pedidos -> Passos] /\ pedido' \in [Pedidos -> Lembrancas]
           /\ Outros(p)
           /\ pedido'[p].doc = pedido[p].doc /\ pedido'[p].lido = pedido[p].lido
           /\ pedido'[p].chave = k /\ pedido'[p].conteudo = c
<1> DEFINE k == ChaveFinal(pedido[p].lido, slug)
           c == ConteudoFinal(pedido[p].lido)
<1>1. TypeOK /\ UmProcesso /\ pc[p] \in ProntoParaPublicar /\ Livre(k)
  BY DEF Base, Publicar
<1>2. /\ bucket' = Guardado(k, c, pedido[p].doc)
      /\ Ir(p, "publicada", [pedido[p] EXCEPT !.chave = k, !.conteudo = c])
      /\ UNCHANGED <<slug, fotos, versoes, documentos, aprovacoes, trava, quedas,
                     decididos, vistos, disputa, gemeos>>
  BY DEF Publicar
<1>3. k \in Chaves /\ Final(k) /\ c \in Conteudos /\ pedido[p].doc \in Docs
  BY <1>1, ChaveProposta
<1>4. "publicada" \in Passos
  BY DEF Passos
<1>5. /\ pc' \in [Pedidos -> Passos] /\ pedido' \in [Pedidos -> Lembrancas]
      /\ pc'[p] = "publicada" /\ Outros(p)
      /\ pedido'[p].doc = pedido[p].doc /\ pedido'[p].lido = pedido[p].lido
      /\ pedido'[p].chave = k /\ pedido'[p].conteudo = c
  BY <1>1, <1>2, <1>4, ChaveLivre
<1> HIDE DEF k, c
<1>6. /\ bucket' \in [Chaves -> Objetos \cup {Nenhum}]
      /\ bucket'[k] = [conteudo |-> c, dono |-> pedido[p].doc] /\ bucket'[k] # Nenhum
      /\ \A x \in Chaves \ {k} : bucket'[x] = bucket[x]
      /\ \A x \in Chaves : bucket[x] # Nenhum => bucket'[x] # Nenhum
  BY <1>1, <1>2, <1>3, Guardando
<1>. QED
  BY <1>1, <1>2, <1>3, <1>5, <1>6 DEF Livre, k, c

LEMMA Verificacao ==
    ASSUME Base, NEW p \in Pedidos, VerificarChave(p)
    PROVE  LET k == ChaveFinal(pedido[p].lido, slug)
               c == ConteudoFinal(pedido[p].lido)
           IN
           /\ ~UmProcesso /\ pc[p] \in ProntoParaPublicar
           /\ k \in Chaves /\ Final(k) /\ bucket[k] = Nenhum
           /\ pc'[p] = "verificada"
           /\ UNCHANGED <<slug, fotos, versoes, documentos, aprovacoes, bucket, trava,
                          quedas, decididos, vistos, disputa, gemeos>>
           /\ pc' \in [Pedidos -> Passos] /\ pedido' \in [Pedidos -> Lembrancas]
           /\ Outros(p)
           /\ pedido'[p].doc = pedido[p].doc /\ pedido'[p].lido = pedido[p].lido
           /\ pedido'[p].chave = k /\ pedido'[p].conteudo = c
<1> DEFINE k == ChaveFinal(pedido[p].lido, slug)
           c == ConteudoFinal(pedido[p].lido)
<1>1. TypeOK /\ ~UmProcesso /\ pc[p] \in ProntoParaPublicar /\ Livre(k)
  BY DEF Base, VerificarChave
<1>2. /\ Ir(p, "verificada", [pedido[p] EXCEPT !.chave = k, !.conteudo = c])
      /\ UNCHANGED <<slug, fotos, versoes, documentos, aprovacoes, bucket, trava, quedas,
                     decididos, vistos, disputa, gemeos>>
  BY DEF VerificarChave
<1>3. k \in Chaves /\ Final(k)
  BY <1>1, ChaveProposta
<1>4. "verificada" \in Passos
  BY DEF Passos
<1>5. /\ pc' \in [Pedidos -> Passos] /\ pedido' \in [Pedidos -> Lembrancas]
      /\ pc'[p] = "verificada" /\ Outros(p)
      /\ pedido'[p].doc = pedido[p].doc /\ pedido'[p].lido = pedido[p].lido
      /\ pedido'[p].chave = k /\ pedido'[p].conteudo = c
  BY <1>1, <1>2, <1>4, ChaveLivre
<1> HIDE DEF k, c
<1>. QED
  BY <1>1, <1>2, <1>3, <1>5 DEF Livre, k, c

(* A request ends without a commit, or with one, and its lock goes.        *)
LEMMA Soltando ==
    ASSUME TypeOK, NEW p \in Pedidos, Soltar(p)
    PROVE  /\ trava' \in [Docs -> Pedidos \cup {Nenhum}]
           /\ \A d \in Docs : trava'[d] = IF trava[d] = p THEN Nenhum ELSE trava[d]
BY DEF TypeOK, Soltar

LEMMA RegistroDoFinal ==
    ASSUME Base, NEW p \in Pedidos, GravarFinal(p)
    PROVE  LET d == pedido[p].doc IN
           /\ pc[p] = "publicada" /\ ~Espera(p) /\ d \in Docs /\ Existe(d)
           /\ pedido[p].conteudo \in Conteudos /\ pedido[p].chave \in Chaves
           /\ Final(pedido[p].chave)
           /\ documentos' \in [Docs -> Linhas]
           /\ documentos'[d].status = "FINALIZADO_VALIDADO"
           /\ documentos'[d].hash = pedido[p].conteudo
           /\ documentos'[d].chave = pedido[p].chave
           /\ MesmoDocumento(documentos'[d], documentos[d])
           /\ \A x \in Docs \ {d} : documentos'[x] = documentos[x]
           /\ pc' \in [Pedidos -> Passos] /\ pedido' \in [Pedidos -> Lembrancas]
           /\ pc'[p] = "livre" /\ pedido'[p] = SemPedido /\ Outros(p)
           /\ trava' \in [Docs -> Pedidos \cup {Nenhum}]
           /\ \A x \in Docs : trava'[x] = IF trava[x] = p THEN Nenhum ELSE trava[x]
           /\ aprovacoes' = IF trava[d] = p THEN aprovacoes \cup {d} ELSE aprovacoes
           /\ UNCHANGED <<slug, fotos, versoes, bucket, quedas, decididos, vistos,
                          disputa, gemeos>>
<1> DEFINE d == pedido[p].doc
           k == pedido[p].chave
           c == pedido[p].conteudo
           n == [documentos[d] EXCEPT !.status = "FINALIZADO_VALIDADO", !.chave = k,
                                      !.hash = c]
<1>1. TypeOK /\ PedidoCerto(p) /\ pc[p] = "publicada" /\ Operando(p) /\ ~Espera(p)
  BY DEF Base, PedidosCertos, GravarFinal, Operando
<1>2. d \in Docs /\ Existe(d) /\ c \in Conteudos /\ k \in Chaves /\ Final(k)
  BY <1>1, TiposDoPedido DEF PedidoCerto
<1>3. documentos' = [documentos EXCEPT ![d] = n] /\ Terminar(p) /\ Soltar(p)
  BY DEF GravarFinal
<1>4. /\ n \in Linhas /\ n.status = "FINALIZADO_VALIDADO" /\ n.chave = k /\ n.hash = c
      /\ MesmoDocumento(n, documentos[d])
  <2>1. documentos[d] \in Linhas
    BY <1>1, <1>2, TiposDaLinha
  <2> HIDE DEF d, k, c
  <2>. QED
    BY <1>2, <2>1 DEF Linhas, MesmoDocumento, Status
<1>5. /\ aprovacoes' = IF trava[d] = p THEN aprovacoes \cup {d} ELSE aprovacoes
      /\ UNCHANGED <<slug, fotos, versoes, bucket, quedas, decididos, vistos, disputa,
                     gemeos>>
  BY DEF GravarFinal
<1> HIDE DEF n, d, k, c
<1>6. /\ documentos' \in [Docs -> Linhas] /\ documentos'[d] = n
      /\ \A x \in Docs \ {d} : documentos'[x] = documentos[x]
  BY <1>1, <1>2, <1>3, <1>4, Gravando
<1>7. /\ pc' \in [Pedidos -> Passos] /\ pedido' \in [Pedidos -> Lembrancas]
      /\ pc'[p] = "livre" /\ pedido'[p] = SemPedido /\ Outros(p)
  BY <1>1, <1>3, Terminando
<1>8. /\ trava' \in [Docs -> Pedidos \cup {Nenhum}]
      /\ \A x \in Docs : trava'[x] = IF trava[x] = p THEN Nenhum ELSE trava[x]
  BY <1>1, <1>3, Soltando
<1>. QED
  BY <1>1, <1>2, <1>4, <1>5, <1>6, <1>7, <1>8 DEF d, k, c

-----------------------------------------------------------------------------
(* The steps in groups: those that read a row, put an object, give up.     *)
Ler(p, d) == \/ LerEdicao(p, d) \/ LerDecisao(p, d)
             \/ LerFinalizacao(p, d) \/ LerAprovacao(p, d)
Guardar(p) == GuardarRascunho(p) \/ GuardarEdicao(p) \/ PublicarVerificada(p)
Desistir(p) == ConflitarFinal(p) \/ Cair(p)
Andar(p) ==
    \/ \E d \in Docs, t \in Tipos, dia \in Dias : LerRevisoes(p, d, t, dia)
    \/ \E d \in Docs : Ler(p, d)
    \/ Guardar(p) \/ CriarDocumento(p) \/ GravarEdicao(p)
    \/ \E a \in BOOLEAN : GravarDecisao(p, a)
    \/ GravarAprovacao(p) \/ Publicar(p) \/ VerificarChave(p)
    \/ GravarFinal(p) \/ Desistir(p)

LEMMA Grupos ==
    ASSUME Next
    PROVE  \/ \E s \in Slugs : Renomear(s)
           \/ ReceberFoto
           \/ \E d \in Triados : ArquivarTriado(d)
           \/ \E p \in Pedidos : Andar(p)
BY DEF Next, Ambiente, Chamar, Prosseguir, Andar, Ler, Guardar, Desistir

LEMMA Lendo ==
    ASSUME Base, NEW p \in Pedidos, NEW d \in Docs, Ler(p, d)
    PROVE  /\ pc[p] = "livre" /\ Existe(d) /\ pedido[p] = SemPedido
           /\ pc' \in [Pedidos -> Passos] /\ pedido' \in [Pedidos -> Lembrancas]
           /\ pc'[p] \in {"edicao", "decisao", "finalizacao", "aprovacao"}
           /\ Outros(p) /\ pedido'[p].doc = d
           /\ pedido'[p].lido = documentos[d] /\ pedido'[p].chave = documentos[d].chave
           /\ pc'[p] = "edicao" => Editavel(documentos[d]) /\ pedido'[p].conteudo # Nenhum
           /\ pc'[p] = "finalizacao" => documentos[d].tipo = "rdo" /\ ExigeAprovacao(d)
           /\ documentos[d].tipo # "rdo" => pedido'[p].conteudo = Nenhum
           /\ versoes' \in 0..MaxVersoes
           /\ disputa \subseteq disputa' /\ disputa' \subseteq Docs
           /\ \A q \in Pedidos : pedido[q].doc = d => d \in disputa'
           /\ UNCHANGED <<slug, fotos, documentos, aprovacoes, bucket, trava, quedas,
                          decididos, vistos, gemeos>>
<1>1. TypeOK
  BY DEF Base
<1>2. CASE LerEdicao(p, d)
  <2>1. versoes + 1 \in Nat /\ versoes' \in 0..MaxVersoes
    BY <1>1, <1>2, DocumentosAssumption DEF LerEdicao, TypeOK
  <2>2. Html(versoes + 1) \in Conteudos /\ Html(versoes + 1) # Nenhum
    BY <2>1, Conversoes
  <2>3. Editavel(documentos[d]) /\ LerDocumento(p, d, "edicao", Html(versoes + 1))
    BY <1>2 DEF LerEdicao
  <2>4. "edicao" \in Passos /\ documentos[d].tipo = "rdo"
    BY <2>3 DEF Passos, Editavel
  <2>. QED
    BY <2>1, <2>2, <2>3, <2>4, Leitura
<1>3. CASE LerDecisao(p, d)
  <2>1. LerDocumento(p, d, "decisao", Nenhum) /\ versoes' \in 0..MaxVersoes
    BY <1>1, <1>3 DEF LerDecisao, TypeOK
  <2>2. "decisao" \in Passos
    BY DEF Passos
  <2>. QED
    BY <2>1, <2>2, Leitura
<1>4. CASE LerFinalizacao(p, d)
  <2>1. /\ LerDocumento(p, d, "finalizacao", Nenhum) /\ versoes' \in 0..MaxVersoes
        /\ documentos[d].tipo = "rdo" /\ ExigeAprovacao(d)
    BY <1>1, <1>4 DEF LerFinalizacao, TypeOK
  <2>2. "finalizacao" \in Passos
    BY DEF Passos
  <2>. QED
    BY <2>1, <2>2, Leitura
<1>5. CASE LerAprovacao(p, d)
  <2>1. LerDocumento(p, d, "aprovacao", Nenhum) /\ versoes' \in 0..MaxVersoes
    BY <1>1, <1>5 DEF LerAprovacao, TypeOK
  <2>2. "aprovacao" \in Passos
    BY DEF Passos
  <2>. QED
    BY <2>1, <2>2, Leitura
<1>. QED
  BY <1>2, <1>3, <1>4, <1>5 DEF Ler

LEMMA Depositando ==
    ASSUME Base, NEW p \in Pedidos, Guardar(p)
    PROVE  /\ \/ pc[p] = "rascunho" /\ pc'[p] = "rascunhoGuardado"
              \/ pc[p] = "edicao" /\ pc'[p] = "edicaoGuardada"
              \/ pc[p] = "verificada" /\ pc'[p] = "publicada"
           /\ pedido[p].chave \in Chaves /\ pedido[p].conteudo \in Conteudos
           /\ pedido[p].doc \in Docs
           /\ bucket' \in [Chaves -> Objetos \cup {Nenhum}]
           /\ bucket'[pedido[p].chave] = [conteudo |-> pedido[p].conteudo,
                                          dono |-> pedido[p].doc]
           /\ bucket'[pedido[p].chave] # Nenhum
           /\ \A k \in Chaves \ {pedido[p].chave} : bucket'[k] = bucket[k]
           /\ \A k \in Chaves : bucket[k] # Nenhum => bucket'[k] # Nenhum
           /\ pc' \in [Pedidos -> Passos] /\ Outros(p)
           /\ UNCHANGED <<slug, fotos, versoes, documentos, aprovacoes, pedido, trava,
                          quedas, decididos, vistos, disputa, gemeos>>
<1>1. PICK passo \in Passos :
         /\ \/ pc[p] = "rascunho" /\ passo = "rascunhoGuardado"
            \/ pc[p] = "edicao" /\ passo = "edicaoGuardada"
            \/ pc[p] = "verificada" /\ passo = "publicada"
         /\ bucket' = Guardado(pedido[p].chave, pedido[p].conteudo, pedido[p].doc)
         /\ pc' = [pc EXCEPT ![p] = passo]
         /\ UNCHANGED <<slug, fotos, versoes, documentos, aprovacoes, pedido, trava,
                        quedas, decididos, vistos, disputa, gemeos>>
  BY DEF Guardar, GuardarRascunho, GuardarEdicao, PublicarVerificada, Passos
<1>. QED
  BY <1>1, Objeto

LEMMA Desistindo ==
    ASSUME Base, NEW p \in Pedidos, Desistir(p)
    PROVE  /\ pc[p] # "livre" /\ pedido[p].doc \in Docs
           /\ pc' \in [Pedidos -> Passos] /\ pedido' \in [Pedidos -> Lembrancas]
           /\ pc'[p] = "livre" /\ pedido'[p] = SemPedido /\ Outros(p)
           /\ trava' \in [Docs -> Pedidos \cup {Nenhum}]
           /\ \A d \in Docs : trava'[d] = IF trava[d] = p THEN Nenhum ELSE trava[d]
           /\ quedas' \in 0..MaxQuedas
           /\ disputa \subseteq disputa' /\ disputa' \subseteq Docs
           /\ pc[p] \in ProntoParaPublicar \/ pedido[p].doc \in disputa'
           /\ UNCHANGED <<slug, fotos, versoes, documentos, aprovacoes, bucket,
                          decididos, vistos, gemeos>>
<1>1. TypeOK /\ PedidoCerto(p) /\ pc[p] # "livre" /\ Terminar(p) /\ Soltar(p)
  BY DEF Base, PedidosCertos, Desistir, ConflitarFinal, Cair, ProntoParaPublicar
<1>2. pedido[p].doc \in Docs
  BY <1>1 DEF PedidoCerto, Operando, Rascunhando, Docs
<1>3. /\ quedas' \in 0..MaxQuedas
      /\ disputa \subseteq disputa' /\ disputa' \subseteq Docs
      /\ pc[p] \in ProntoParaPublicar \/ pedido[p].doc \in disputa'
  BY <1>1, <1>2, DocumentosAssumption DEF Desistir, ConflitarFinal, Cair, TypeOK
<1>4. UNCHANGED <<slug, fotos, versoes, documentos, aprovacoes, bucket, decididos,
                  vistos, gemeos>>
  BY DEF Desistir, ConflitarFinal, Cair
<1>. QED
  BY <1>1, <1>2, <1>3, <1>4, Terminando, Soltando

(* Every variable keeps its type, and rows and decisions only grow.        *)
Crescem ==
    /\ decididos \subseteq decididos' /\ aprovacoes \subseteq aprovacoes'
    /\ \A d \in Docs : Existe(d) =>
          Existe(d)' /\ MesmoDocumento(documentos'[d], documentos[d])

LEMMA PassoTipos ==
    ASSUME Base, [Next]_vars
    PROVE  TypeOK'
<1>1. TypeOK
  BY DEF Base
<1>2. CASE UNCHANGED vars
  BY <1>1, <1>2 DEF TypeOK, vars
<1>3. ASSUME NEW s \in Slugs, Renomear(s) PROVE TypeOK'
  BY <1>1, <1>3 DEF Renomear, TypeOK
<1>4. CASE ReceberFoto
  BY <1>1, <1>4 DEF ReceberFoto, TypeOK
<1>5. ASSUME NEW d \in Triados, ArquivarTriado(d) PROVE TypeOK'
  <2>1. documentos' \in [Docs -> Linhas]
    BY <1>5, Triagem
  <2>. QED
    BY <1>1, <1>5, <2>1 DEF ArquivarTriado, TypeOK
<1>6. ASSUME NEW p \in Pedidos, Andar(p) PROVE TypeOK'
  <2>1. ASSUME NEW d \in Docs, NEW t \in Tipos, NEW dia \in Dias, LerRevisoes(p, d, t, dia)
        PROVE  TypeOK'
    <3>1. /\ pc' \in [Pedidos -> Passos] /\ pedido' \in [Pedidos -> Lembrancas]
          /\ versoes' \in 0..MaxVersoes /\ gemeos' \subseteq Docs
          /\ UNCHANGED <<slug, fotos, documentos, aprovacoes, bucket, trava, quedas,
                         decididos, vistos, disputa>>
      BY <2>1, NovoRascunho
    <3>. QED
      BY <1>1, <3>1 DEF TypeOK, Lembrancas
  <2>2. ASSUME NEW d \in Docs, Ler(p, d) PROVE TypeOK'
    <3>1. /\ pc' \in [Pedidos -> Passos] /\ pedido' \in [Pedidos -> Lembrancas]
          /\ versoes' \in 0..MaxVersoes /\ disputa' \subseteq Docs
          /\ UNCHANGED <<slug, fotos, documentos, aprovacoes, bucket, trava, quedas,
                         decididos, vistos, gemeos>>
      BY <2>2, Lendo
    <3>. QED
      BY <1>1, <3>1 DEF TypeOK, Lembrancas
  <2>3. CASE Guardar(p)
    <3>1. /\ pc' \in [Pedidos -> Passos] /\ bucket' \in [Chaves -> Objetos \cup {Nenhum}]
          /\ UNCHANGED <<slug, fotos, versoes, documentos, aprovacoes, pedido, trava,
                         quedas, decididos, vistos, disputa, gemeos>>
      BY <2>3, Depositando
    <3>. QED
      BY <1>1, <3>1 DEF TypeOK, Lembrancas
  <2>4. CASE CriarDocumento(p)
    <3>1. /\ pc' \in [Pedidos -> Passos] /\ pedido' \in [Pedidos -> Lembrancas]
          /\ documentos' \in [Docs -> Linhas]
          /\ UNCHANGED <<slug, fotos, versoes, aprovacoes, bucket, trava, quedas,
                         decididos, vistos, disputa, gemeos>>
      BY <2>4, Insercao
    <3>. QED
      BY <1>1, <3>1 DEF TypeOK, Lembrancas
  <2>5. CASE GravarEdicao(p)
    <3>1. /\ pc' \in [Pedidos -> Passos] /\ pedido' \in [Pedidos -> Lembrancas]
          /\ documentos' \in [Docs -> Linhas]
          /\ UNCHANGED <<slug, fotos, versoes, aprovacoes, bucket, trava, quedas,
                         decididos, vistos, disputa, gemeos>>
      BY <2>5, RegistroDaEdicao
    <3>. QED
      BY <1>1, <3>1 DEF TypeOK, Lembrancas
  <2>6. ASSUME NEW a \in BOOLEAN, GravarDecisao(p, a) PROVE TypeOK'
    <3>1. /\ pc' \in [Pedidos -> Passos] /\ pedido' \in [Pedidos -> Lembrancas]
          /\ documentos' \in [Docs -> Linhas] /\ pedido[p].doc \in Docs
          /\ aprovacoes' = aprovacoes \cup (IF a THEN {pedido[p].doc} ELSE {})
          /\ decididos' = decididos \cup (IF a THEN {pedido[p].doc} ELSE {})
          /\ vistos' \in [Docs -> SUBSET Conteudos]
          /\ UNCHANGED <<slug, fotos, versoes, bucket, trava, quedas, disputa, gemeos>>
      BY <2>6, RegistroDaDecisao
    <3>. QED
      BY <1>1, <3>1 DEF TypeOK, Lembrancas
  <2>7. CASE GravarAprovacao(p)
    <3>1. /\ pc' \in [Pedidos -> Passos] /\ pedido[p].doc \in Docs
          /\ trava' \in [Docs -> Pedidos \cup {Nenhum}]
          /\ decididos' = decididos \cup {pedido[p].doc}
          /\ vistos' \in [Docs -> SUBSET Conteudos]
          /\ UNCHANGED <<slug, fotos, versoes, documentos, aprovacoes, bucket, pedido,
                         quedas, disputa, gemeos>>
      BY <2>7, RegistroDaAprovacao
    <3>. QED
      BY <1>1, <3>1 DEF TypeOK, Lembrancas
  <2>8. CASE Publicar(p)
    <3>1. /\ pc' \in [Pedidos -> Passos] /\ pedido' \in [Pedidos -> Lembrancas]
          /\ bucket' \in [Chaves -> Objetos \cup {Nenhum}]
          /\ UNCHANGED <<slug, fotos, versoes, documentos, aprovacoes, trava, quedas,
                         decididos, vistos, disputa, gemeos>>
      BY <2>8, PublicacaoNoBucket
    <3>. QED
      BY <1>1, <3>1 DEF TypeOK, Lembrancas
  <2>9. CASE VerificarChave(p)
    <3>1. /\ pc' \in [Pedidos -> Passos] /\ pedido' \in [Pedidos -> Lembrancas]
          /\ UNCHANGED <<slug, fotos, versoes, documentos, aprovacoes, bucket, trava,
                         quedas, decididos, vistos, disputa, gemeos>>
      BY <2>9, Verificacao
    <3>. QED
      BY <1>1, <3>1 DEF TypeOK, Lembrancas
  <2>10. CASE GravarFinal(p)
    <3>1. /\ pc' \in [Pedidos -> Passos] /\ pedido' \in [Pedidos -> Lembrancas]
          /\ documentos' \in [Docs -> Linhas] /\ pedido[p].doc \in Docs
          /\ trava' \in [Docs -> Pedidos \cup {Nenhum}]
          /\ aprovacoes' = IF trava[pedido[p].doc] = p
                           THEN aprovacoes \cup {pedido[p].doc} ELSE aprovacoes
          /\ UNCHANGED <<slug, fotos, versoes, bucket, quedas, decididos, vistos,
                         disputa, gemeos>>
      BY <2>10, RegistroDoFinal
    <3>. QED
      BY <1>1, <3>1 DEF TypeOK, Lembrancas
  <2>11. CASE Desistir(p)
    <3>1. /\ pc' \in [Pedidos -> Passos] /\ pedido' \in [Pedidos -> Lembrancas]
          /\ trava' \in [Docs -> Pedidos \cup {Nenhum}]
          /\ quedas' \in 0..MaxQuedas /\ disputa' \subseteq Docs
          /\ UNCHANGED <<slug, fotos, versoes, documentos, aprovacoes, bucket,
                         decididos, vistos, gemeos>>
      BY <2>11, Desistindo
    <3>. QED
      BY <1>1, <3>1 DEF TypeOK, Lembrancas
  <2>. QED
    BY <1>6, <2>1, <2>2, <2>3, <2>4, <2>5, <2>6, <2>7, <2>8, <2>9, <2>10, <2>11 DEF Andar
<1> HIDE DEF TypeOK
<1>. QED
  BY <1>2, <1>3, <1>4, <1>5, <1>6, Grupos

LEMMA Crescendo ==
    ASSUME Base, [Next]_vars
    PROVE  Crescem
<1>0. \A d \in Docs : MesmoDocumento(documentos[d], documentos[d])
  BY DEF MesmoDocumento
<1>1. CASE UNCHANGED <<documentos, aprovacoes, decididos>>
  BY <1>0, <1>1 DEF Crescem, Existe
<1>2. ASSUME NEW d \in Triados, ArquivarTriado(d) PROVE Crescem
  <2>1. UNCHANGED <<aprovacoes, decididos>> /\ ~Existe(d)
    BY <1>2 DEF ArquivarTriado
  <2>2. \A x \in Docs : Existe(x) => documentos'[x] = documentos[x]
    BY <1>2, <2>1, Triagem
  <2>. QED
    BY <1>0, <2>1, <2>2 DEF Crescem, Existe
<1>3. ASSUME NEW p \in Pedidos, Andar(p) PROVE Crescem
  <2>1. CASE CriarDocumento(p)
    BY <1>0, <2>1, Insercao DEF Crescem, Existe
  <2>2. CASE GravarEdicao(p)
    <3>1. /\ documentos'[pedido[p].doc].status \in
                 {documentos[pedido[p].doc].status, "EM_REVISAO"}
          /\ MesmoDocumento(documentos'[pedido[p].doc], documentos[pedido[p].doc])
          /\ \A x \in Docs \ {pedido[p].doc} : documentos'[x] = documentos[x]
          /\ UNCHANGED <<aprovacoes, decididos>>
      BY <2>2, RegistroDaEdicao
    <3>. QED
      BY <1>0, <3>1 DEF Crescem, Existe
  <2>3. ASSUME NEW a \in BOOLEAN, GravarDecisao(p, a) PROVE Crescem
    <3>1. /\ documentos'[pedido[p].doc].status \in
                 {documentos[pedido[p].doc].status, Decisao(a)}
          /\ MesmoDocumento(documentos'[pedido[p].doc], documentos[pedido[p].doc])
          /\ \A x \in Docs \ {pedido[p].doc} : documentos'[x] = documentos[x]
          /\ decididos \subseteq decididos' /\ aprovacoes \subseteq aprovacoes'
      BY <2>3, RegistroDaDecisao
    <3>. QED
      BY <1>0, <3>1 DEF Crescem, Existe, Decisao
  <2>4. CASE GravarAprovacao(p)
    <3>1. UNCHANGED <<documentos, aprovacoes>> /\ decididos \subseteq decididos'
      BY <2>4, RegistroDaAprovacao
    <3>. QED
      BY <1>0, <3>1 DEF Crescem, Existe
  <2>5. CASE GravarFinal(p)
    <3>1. /\ documentos'[pedido[p].doc].status = "FINALIZADO_VALIDADO"
          /\ MesmoDocumento(documentos'[pedido[p].doc], documentos[pedido[p].doc])
          /\ \A x \in Docs \ {pedido[p].doc} : documentos'[x] = documentos[x]
          /\ UNCHANGED decididos /\ aprovacoes \subseteq aprovacoes'
      BY <2>5, RegistroDoFinal
    <3>. QED
      BY <1>0, <3>1 DEF Crescem, Existe
  <2>6. CASE \/ \E d \in Docs, t \in Tipos, dia \in Dias : LerRevisoes(p, d, t, dia)
             \/ \E d \in Docs : Ler(p, d)
             \/ Guardar(p) \/ Publicar(p) \/ VerificarChave(p) \/ Desistir(p)
    BY <1>1, <2>6 DEF LerRevisoes, Ler, LerEdicao, LerDecisao, LerFinalizacao,
       LerAprovacao, LerDocumento, Guardar, GuardarRascunho, GuardarEdicao,
       PublicarVerificada, Publicar, VerificarChave, Desistir, ConflitarFinal, Cair
  <2>. QED
    BY <1>3, <2>1, <2>2, <2>3, <2>4, <2>5, <2>6 DEF Andar
<1>4. CASE (\E s \in Slugs : Renomear(s)) \/ ReceberFoto \/ UNCHANGED vars
  BY <1>1, <1>4 DEF Renomear, ReceberFoto, vars
<1>. QED
  BY <1>2, <1>3, <1>4, Grupos

-----------------------------------------------------------------------------
(* The rows stay right.                                                    *)

(* Rows that did not change, when there are more decisions.                *)
LEMMA LinhaMantida ==
    ASSUME LinhasCertas, decididos \subseteq decididos', NEW d \in Docs,
           documentos'[d] = documentos[d]
    PROVE  IF Existe(d)' THEN LinhaCerta(documentos'[d], d, decididos')
                         ELSE documentos'[d] = SemLinha
<1>1. Existe(d)' <=> Existe(d)
  BY DEF Existe
<1>. QED
  BY <1>1, LinhaCertaCresce DEF LinhasCertas

LEMMA PassoLinhas ==
    ASSUME InvP, [Next]_vars
    PROVE  LinhasCertas'
<1>0. Base /\ LinhasCertas /\ Crescem
  BY Crescendo DEF InvP, Base
<1>1. decididos \subseteq decididos' /\ \A d \in decididos : d \in Docs /\ Existe(d)'
  BY <1>0 DEF Crescem, LinhasCertas, Base, TypeOK
<1>2. CASE UNCHANGED <<documentos, aprovacoes, decididos>>
  BY <1>0, <1>2 DEF LinhasCertas, Existe
<1>3. ASSUME NEW d \in Triados, ArquivarTriado(d) PROVE LinhasCertas'
  <2>1. UNCHANGED <<aprovacoes, decididos>>
    BY <1>3 DEF ArquivarTriado
  <2>2. LinhaCerta(documentos'[d], d, decididos')
    <3>1. /\ documentos'[d].status = "TRIADO" /\ d \notin Rascunhos
          /\ documentos'[d].chave = Nenhum
          /\ documentos'[d].tipo = "rdo" /\ documentos'[d].dia = Nenhum
      BY <1>0, <1>3, Triagem DEF MesmoDocumento, SemLinha
    <3>. QED
      BY <3>1 DEF LinhaCerta
  <2>3. \A x \in Docs : IF Existe(x)' THEN LinhaCerta(documentos'[x], x, decididos')
                                      ELSE documentos'[x] = SemLinha
    <3>1. \A x \in Docs \ {d} : documentos'[x] = documentos[x]
      BY <1>0, <1>3, Triagem
    <3>2. Existe(d)'
      BY <2>2 DEF LinhaCerta, Existe
    <3>. QED
      BY <1>0, <1>1, <2>2, <3>1, <3>2, LinhaMantida
  <2>. QED
    BY <1>0, <1>1, <2>1, <2>3 DEF LinhasCertas
<1>4. ASSUME NEW p \in Pedidos, Andar(p) PROVE LinhasCertas'
  <2>1. CASE CriarDocumento(p)
    <3> DEFINE d == pedido[p].doc
    <3>1. /\ Rascunhando(p) /\ d \in Docs /\ documentos'[d] = pedido[p].lido
          /\ \A x \in Docs \ {d} : documentos'[x] = documentos[x]
          /\ UNCHANGED <<aprovacoes, decididos>>
      BY <1>0, <2>1, Insercao
    <3>2. LinhaCerta(documentos'[d], d, decididos')
      BY <1>0, <3>1 DEF Base, PedidosCertos, PedidoCerto
    <3>3. \A x \in Docs : IF Existe(x)' THEN LinhaCerta(documentos'[x], x, decididos')
                                        ELSE documentos'[x] = SemLinha
      BY <1>0, <1>1, <3>1, <3>2, LinhaMantida DEF LinhaCerta, Existe
    <3>. QED
      BY <1>0, <1>1, <3>1, <3>3 DEF LinhasCertas
  <2>2. CASE GravarEdicao(p)
    <3> DEFINE d == pedido[p].doc
    <3>1. /\ d \in Docs /\ LinhaCerta(documentos'[d], d, decididos')
          /\ \A x \in Docs \ {d} : documentos'[x] = documentos[x]
          /\ UNCHANGED <<aprovacoes, decididos>>
      BY <1>0, <2>2, RegistroDaEdicao
    <3>2. \A x \in Docs : IF Existe(x)' THEN LinhaCerta(documentos'[x], x, decididos')
                                        ELSE documentos'[x] = SemLinha
      BY <1>0, <1>1, <3>1, LinhaMantida DEF LinhaCerta, Existe
    <3>. QED
      BY <1>0, <1>1, <3>1, <3>2 DEF LinhasCertas
  <2>3. ASSUME NEW a \in BOOLEAN, GravarDecisao(p, a) PROVE LinhasCertas'
    <3> DEFINE d == pedido[p].doc
    <3>1. /\ d \in Docs /\ Existe(d) /\ LinhaCerta(documentos'[d], d, decididos)
          /\ \A x \in Docs \ {d} : documentos'[x] = documentos[x]
          /\ aprovacoes' = aprovacoes \cup (IF a THEN {d} ELSE {})
          /\ decididos' = decididos \cup (IF a THEN {d} ELSE {})
      BY <1>0, <2>3, RegistroDaDecisao
    <3>2. LinhaCerta(documentos'[d], d, decididos')
      BY <1>1, <3>1, LinhaCertaCresce
    <3>3. \A x \in Docs : IF Existe(x)' THEN LinhaCerta(documentos'[x], x, decididos')
                                        ELSE documentos'[x] = SemLinha
      BY <1>0, <1>1, <3>1, <3>2, LinhaMantida DEF LinhaCerta, Existe
    <3>4. aprovacoes' \subseteq decididos' /\ \A x \in decididos' : Existe(x)'
      BY <1>0, <1>1, <3>1 DEF LinhasCertas, Crescem
    <3>. QED
      BY <3>3, <3>4 DEF LinhasCertas
  <2>4. CASE GravarAprovacao(p)
    <3> DEFINE d == pedido[p].doc
    <3>1. /\ d \in Docs /\ Existe(d) /\ decididos' = decididos \cup {d}
          /\ UNCHANGED <<documentos, aprovacoes>>
      BY <1>0, <2>4, RegistroDaAprovacao
    <3>2. \A x \in Docs : IF Existe(x)' THEN LinhaCerta(documentos'[x], x, decididos')
                                        ELSE documentos'[x] = SemLinha
      BY <1>0, <1>1, <3>1, LinhaMantida
    <3>3. aprovacoes' \subseteq decididos' /\ \A x \in decididos' : Existe(x)'
      BY <1>0, <1>1, <3>1 DEF LinhasCertas, Crescem
    <3>. QED
      BY <3>2, <3>3 DEF LinhasCertas
  <2>5. CASE GravarFinal(p)
    <3> DEFINE d == pedido[p].doc
               k == pedido[p].chave
    <3>1. /\ pc[p] = "publicada" /\ d \in Docs /\ Existe(d) /\ k \in Chaves /\ Final(k)
          /\ documentos'[d].status = "FINALIZADO_VALIDADO"
          /\ documentos'[d].chave = k
          /\ MesmoDocumento(documentos'[d], documentos[d])
          /\ \A x \in Docs \ {d} : documentos'[x] = documentos[x]
          /\ aprovacoes' = IF trava[d] = p THEN aprovacoes \cup {d} ELSE aprovacoes
          /\ UNCHANGED decididos
      BY <1>0, <2>5, RegistroDoFinal
    <3>2. /\ MesmoDocumento(pedido[p].lido, documentos[d])
          /\ k = ChaveFinal(pedido[p].lido, k.slug)
      BY <1>0, <3>1 DEF Base, PedidosCertos, PedidoCerto, Operando
    <3>3. d \in decididos
      BY <3>1 DEF InvP, TravasCertas, Publicando
    <3>4. LinhaCerta(documentos[d], d, decididos)
      BY <1>0, <3>1 DEF LinhasCertas
    <3>5. k = ChaveFinal(documentos'[d], k.slug)
      BY <3>1, <3>2 DEF MesmoDocumento, ChaveFinal
    <3>6. k # Nenhum
      BY <3>1, CamposDaChave
    <3>7. LinhaCerta(documentos'[d], d, decididos')
      BY <3>1, <3>3, <3>4, <3>5, <3>6 DEF LinhaCerta, MesmoDocumento
    <3>8. \A x \in Docs : IF Existe(x)' THEN LinhaCerta(documentos'[x], x, decididos')
                                        ELSE documentos'[x] = SemLinha
      BY <1>0, <1>1, <3>1, <3>7, LinhaMantida DEF LinhaCerta, Existe
    <3>9. aprovacoes' \subseteq decididos'
      BY <1>0, <3>1, <3>3 DEF LinhasCertas
    <3>. QED
      BY <1>0, <1>1, <3>1, <3>8, <3>9 DEF LinhasCertas
  <2>6. CASE \/ \E d \in Docs, t \in Tipos, dia \in Dias : LerRevisoes(p, d, t, dia)
             \/ \E d \in Docs : Ler(p, d)
             \/ Guardar(p) \/ Publicar(p) \/ VerificarChave(p) \/ Desistir(p)
    BY <1>2, <2>6 DEF LerRevisoes, Ler, LerEdicao, LerDecisao, LerFinalizacao,
       LerAprovacao, LerDocumento, Guardar, GuardarRascunho, GuardarEdicao,
       PublicarVerificada, Publicar, VerificarChave, Desistir, ConflitarFinal, Cair
  <2>. QED
    BY <1>4, <2>1, <2>2, <2>3, <2>4, <2>5, <2>6 DEF Andar
<1>5. CASE (\E s \in Slugs : Renomear(s)) \/ ReceberFoto \/ UNCHANGED vars
  BY <1>2, <1>5 DEF Renomear, ReceberFoto, vars
<1>. QED
  BY <1>3, <1>4, <1>5, Grupos

-----------------------------------------------------------------------------
(* The requests stay right.                                                *)

(* A request that did not move, while rows and decisions grew.             *)
LEMMA PedidoMantido ==
    ASSUME Crescem, NEW q \in Pedidos, PedidoCerto(q),
           pc'[q] = pc[q], pedido'[q] = pedido[q]
    PROVE  PedidoCerto(q)'
<1>1. /\ Rascunhando(q)' <=> Rascunhando(q)
      /\ Operando(q)' <=> Operando(q)
  BY DEF Rascunhando, Operando
<1>2. \A r, d : LinhaCerta(r, d, decididos) => LinhaCerta(r, d, decididos')
  BY LinhaCertaCresce DEF Crescem
<1>3. ASSUME Operando(q)
      PROVE  /\ Existe(pedido[q].doc)'
             /\ MesmoDocumento(pedido[q].lido, documentos'[pedido[q].doc])
  BY <1>3 DEF PedidoCerto, Crescem, MesmoDocumento
<1>4. pedido[q].doc \in aprovacoes => pedido[q].doc \in aprovacoes'
  BY DEF Crescem
<1>. QED
  BY <1>1, <1>2, <1>3, <1>4 DEF PedidoCerto

(* A request that ended.                                                   *)
LEMMA PedidoLivre ==
    ASSUME NEW p \in Pedidos, pc'[p] = "livre", pedido'[p] = SemPedido
    PROVE  PedidoCerto(p)'
BY DEF PedidoCerto, Rascunhando, Operando

LEMMA PassoPedido ==
    ASSUME Base, NEW p \in Pedidos, Andar(p), Crescem, TypeOK'
    PROVE  PedidoCerto(p)'
<1>0. TypeOK /\ PedidoCerto(p)
  BY DEF Base, PedidosCertos
<1>1. ASSUME NEW d \in Docs, NEW t \in Tipos, NEW dia \in Dias, LerRevisoes(p, d, t, dia)
      PROVE  PedidoCerto(p)'
  <2> DEFINE r == pedido'[p]
  <2>1. /\ pc'[p] = "rascunho" /\ r.doc = d /\ d \in Rascunhos
        /\ r.lido.tipo = t /\ r.lido.dia = dia /\ r.lido.status = "RASCUNHO_GERADO"
        /\ r.lido.chave = r.chave /\ r.lido.hash = r.conteudo
        /\ r.chave = ChaveRascunho(t, slug, dia, r.lido.rev)
        /\ r.chave \in Chaves /\ r.conteudo \in Conteudos
        /\ r \in Lembrancas
    BY <1>1, NovoRascunho
  <2>2. r.lido.rev \in Revs /\ slug \in Slugs
    BY <1>0, <2>1 DEF Lembrancas, Linhas, TypeOK
  <2>3. ~Final(r.chave) /\ r.chave = ChaveRascunho(t, r.chave.slug, dia, r.lido.rev)
    BY <2>1, <2>2, TipoRascunho
  <2>4. r.chave # Nenhum /\ r.conteudo # Nenhum /\ dia # Nenhum /\ d \notin Triados
    BY <2>1, CamposDaChave, Conversoes, DocumentosAssumption
  <2> HIDE DEF r
  <2>5. LinhaCerta(r.lido, d, decididos')
    BY <2>1, <2>3, <2>4 DEF LinhaCerta
  <2>. QED
    BY <2>1, <2>3, <2>4, <2>5 DEF PedidoCerto, Rascunhando, Operando, r
<1>2. ASSUME NEW d \in Docs, Ler(p, d) PROVE PedidoCerto(p)'
  <2> DEFINE r == pedido'[p]
  <2>1. /\ Existe(d) /\ pc'[p] \in {"edicao", "decisao", "finalizacao", "aprovacao"}
        /\ r.doc = d /\ r.lido = documentos[d] /\ r.chave = documentos[d].chave
        /\ pc'[p] = "edicao" => Editavel(documentos[d]) /\ r.conteudo # Nenhum
        /\ pc'[p] = "finalizacao" => documentos[d].tipo = "rdo" /\ ExigeAprovacao(d)
        /\ UNCHANGED <<documentos, aprovacoes, decididos>>
    BY <1>2, Lendo
  <2>2. LinhaCerta(documentos[d], d, decididos')
    BY <2>1 DEF Base, LinhasCertas
  <2>3. ASSUME pc'[p] = "edicao"
        PROVE  /\ r.chave # Nenhum /\ r.lido.tipo = "rdo" /\ r.lido.status \in Editaveis
    <3>1. documentos[d].dia # Nenhum
      BY <2>1, <2>3 DEF Editavel
    <3>. QED
      BY <2>1, <2>2, <2>3, <3>1 DEF Editavel, LinhaCerta, Docs
  <2>4. pc'[p] = "finalizacao" => r.lido.tipo = "rdo" /\ d \in aprovacoes'
    BY <2>1 DEF ExigeAprovacao
  <2>5. Existe(d)' /\ MesmoDocumento(documentos[d], documentos'[d])
    BY <2>1 DEF Existe, MesmoDocumento
  <2> HIDE DEF r
  <2>. QED
    BY <2>1, <2>2, <2>3, <2>4, <2>5 DEF PedidoCerto, Rascunhando, Operando, r
<1>3. CASE Guardar(p)
  <2>1. /\ \/ pc[p] = "rascunho" /\ pc'[p] = "rascunhoGuardado"
           \/ pc[p] = "edicao" /\ pc'[p] = "edicaoGuardada"
           \/ pc[p] = "verificada" /\ pc'[p] = "publicada"
        /\ UNCHANGED <<documentos, aprovacoes, pedido, decididos>>
    BY <1>3, Depositando
  <2>. QED
    BY <1>0, <2>1 DEF PedidoCerto, Rascunhando, Operando, Existe
<1>4. CASE CriarDocumento(p) \/ GravarEdicao(p) \/ GravarFinal(p) \/ Desistir(p)
           \/ \E a \in BOOLEAN : GravarDecisao(p, a)
  <2>1. pc'[p] = "livre" /\ pedido'[p] = SemPedido
    BY <1>4, Insercao, RegistroDaEdicao, RegistroDoFinal, Desistindo, RegistroDaDecisao
  <2>. QED
    BY <2>1, PedidoLivre
<1>5. CASE GravarAprovacao(p)
  <2>1. /\ pc[p] = "aprovacao" /\ pc'[p] = "aprovada"
        /\ decididos \subseteq decididos'
        /\ UNCHANGED <<documentos, aprovacoes, pedido>>
    BY <1>5, RegistroDaAprovacao
  <2>2. LinhaCerta(pedido[p].lido, pedido[p].doc, decididos')
    BY <1>0, <2>1, LinhaCertaCresce DEF PedidoCerto, Operando
  <2>. QED
    BY <1>0, <2>1, <2>2 DEF PedidoCerto, Rascunhando, Operando, Existe
<1>6. CASE Publicar(p) \/ VerificarChave(p)
  <2> DEFINE r == pedido'[p]
             k == ChaveFinal(pedido[p].lido, slug)
             c == ConteudoFinal(pedido[p].lido)
  <2>1. /\ pc[p] \in ProntoParaPublicar
        /\ pc'[p] \in {"verificada", "publicada"}
        /\ pc'[p] = "verificada" => ~UmProcesso
        /\ r.doc = pedido[p].doc /\ r.lido = pedido[p].lido
        /\ r.chave = k /\ r.conteudo = c
        /\ UNCHANGED <<documentos, aprovacoes, decididos>>
    <3>1. CASE Publicar(p)
      BY <3>1, PublicacaoNoBucket
    <3>2. CASE VerificarChave(p)
      BY <3>2, Verificacao
    <3>. QED
      BY <1>6, <3>1, <3>2
  <2>2. Operando(p) /\ Final(k) /\ k # Nenhum /\ k.slug = slug /\ c # Nenhum
    BY <2>1, ChaveProposta, Conversoes
  <2> HIDE DEF r, k, c
  <2>3. k = ChaveFinal(pedido[p].lido, k.slug)
    BY <2>2 DEF k
  <2>. QED
    BY <1>0, <2>1, <2>2, <2>3 DEF PedidoCerto, Rascunhando, Operando, Existe, r
<1>. QED
  BY <1>1, <1>2, <1>3, <1>4, <1>5, <1>6 DEF Andar

(* A draft that has no row yet is of one request.                          *)
LEMMA PassoSos ==
    ASSUME Base, NEW p \in Pedidos, Andar(p), Crescem
    PROVE  RascunhosSos'
<1>0. TypeOK /\ RascunhosSos /\ PedidoCerto(p)
  BY DEF Base, PedidosCertos
<1>1. ASSUME Outros(p), pc'[p] = "livre", pedido'[p] = SemPedido,
             \A q \in Pedidos \ {p} : Rascunhando(q) => ~Existe(pedido[q].doc)'
      PROVE  RascunhosSos'
  <2>1. ASSUME NEW q \in Pedidos, Rascunhando(q)'
        PROVE  /\ q # p /\ Rascunhando(q) /\ pedido'[q] = pedido[q]
               /\ pedido[q].doc \in Rascunhos
    BY <1>1, <2>1 DEF Rascunhando, Outros, Base, PedidosCertos, PedidoCerto
  <2>2. ASSUME NEW q \in Pedidos, Rascunhando(q)', NEW z \in Pedidos \ {q}
        PROVE  pedido'[z].doc # pedido'[q].doc
    <3>1. pedido[q].doc # Nenhum
      BY <2>1, <2>2, NenhumAssumption DEF Docs
    <3>. QED
      BY <1>0, <1>1, <2>1, <2>2, <3>1 DEF RascunhosSos, Outros, SemPedido
  <2>. QED
    BY <1>1, <2>1, <2>2 DEF RascunhosSos
<1>2. ASSUME NEW d \in Docs, NEW t \in Tipos, NEW dia \in Dias, LerRevisoes(p, d, t, dia)
      PROVE  RascunhosSos'
  <2>1. /\ ~Existe(d) /\ \A q \in Pedidos : pedido[q].doc # d
        /\ pc'[p] = "rascunho" /\ Outros(p) /\ pedido'[p].doc = d /\ UNCHANGED documentos
    BY <1>2, NovoRascunho
  <2>. QED
    BY <1>0, <2>1 DEF RascunhosSos, Rascunhando, Outros, Existe
<1>3. ASSUME NEW d \in Docs, Ler(p, d) PROVE RascunhosSos'
  <2>1. /\ Existe(d) /\ pc'[p] \in {"edicao", "decisao", "finalizacao", "aprovacao"}
        /\ Outros(p) /\ pedido'[p].doc = d /\ UNCHANGED documentos
    BY <1>3, Lendo
  <2>2. ~Rascunhando(p)'
    BY <2>1 DEF Rascunhando
  <2>3. \A q \in Pedidos \ {p} : Rascunhando(q)' => Rascunhando(q) /\ pedido[q].doc # d
    BY <1>0, <2>1 DEF RascunhosSos, Rascunhando, Outros
  <2>. QED
    BY <1>0, <2>1, <2>2, <2>3 DEF RascunhosSos, Outros, Existe
<1>4. CASE Guardar(p) \/ GravarAprovacao(p) \/ Publicar(p) \/ VerificarChave(p)
  <2>1. /\ Rascunhando(p)' => Rascunhando(p)
        /\ pedido'[p].doc = pedido[p].doc /\ Outros(p) /\ UNCHANGED documentos
    BY <1>4, Depositando, RegistroDaAprovacao, PublicacaoNoBucket, Verificacao
       DEF Rascunhando
  <2>2. \A q \in Pedidos : pedido'[q].doc = pedido[q].doc /\ (Rascunhando(q)' => Rascunhando(q))
    BY <2>1 DEF Outros, Rascunhando
  <2>. QED
    BY <1>0, <2>1, <2>2 DEF RascunhosSos, Existe
<1>5. CASE CriarDocumento(p)
  <2>1. /\ Outros(p) /\ pc'[p] = "livre" /\ pedido'[p] = SemPedido
        /\ \A q \in Pedidos \ {p} : pedido[q].doc # pedido[p].doc
        /\ \A x \in Docs \ {pedido[p].doc} : documentos'[x] = documentos[x]
    BY <1>5, Insercao
  <2>2. \A q \in Pedidos : Rascunhando(q) => pedido[q].doc \in Docs
    BY DEF Base, PedidosCertos, PedidoCerto, Docs
  <2>3. \A q \in Pedidos \ {p} : Rascunhando(q) => ~Existe(pedido[q].doc)'
    BY <1>0, <2>1, <2>2 DEF RascunhosSos, Existe, Outros
  <2>. QED
    BY <1>1, <2>1, <2>3
<1>6. ASSUME NEW d \in Docs, Existe(d), \A x \in Docs \ {d} : documentos'[x] = documentos[x],
             Outros(p), pc'[p] = "livre", pedido'[p] = SemPedido
      PROVE  RascunhosSos'
  <2>1. \A q \in Pedidos : Rascunhando(q) => pedido[q].doc \in Docs /\ pedido[q].doc # d
    BY <1>0, <1>6 DEF Base, PedidosCertos, PedidoCerto, Docs, RascunhosSos
  <2>2. \A q \in Pedidos \ {p} : Rascunhando(q) => ~Existe(pedido[q].doc)'
    BY <1>0, <1>6, <2>1 DEF RascunhosSos, Existe, Outros
  <2>. QED
    BY <1>1, <1>6, <2>2
<1>7. CASE GravarEdicao(p)
  BY <1>6, <1>7, RegistroDaEdicao
<1>8. ASSUME NEW a \in BOOLEAN, GravarDecisao(p, a) PROVE RascunhosSos'
  BY <1>6, <1>8, RegistroDaDecisao
<1>9. CASE GravarFinal(p)
  BY <1>6, <1>9, RegistroDoFinal
<1>10. CASE Desistir(p)
  <2>1. /\ Outros(p) /\ pc'[p] = "livre" /\ pedido'[p] = SemPedido /\ UNCHANGED documentos
    BY <1>10, Desistindo
  <2>2. \A q \in Pedidos \ {p} : Rascunhando(q) => ~Existe(pedido[q].doc)'
    BY <1>0, <2>1 DEF RascunhosSos, Existe, Outros
  <2>. QED
    BY <1>1, <2>1, <2>2
<1>. QED
  BY <1>2, <1>3, <1>4, <1>5, <1>7, <1>8, <1>9, <1>10 DEF Andar

(* A step of a request moves no other.                                     *)
LEMMA Alheios ==
    ASSUME Base, NEW p \in Pedidos, Andar(p)
    PROVE  Outros(p)
<1>1. CASE \/ \E d \in Docs, t \in Tipos, dia \in Dias : LerRevisoes(p, d, t, dia)
           \/ \E d \in Docs : Ler(p, d)
           \/ Guardar(p) \/ CriarDocumento(p) \/ Desistir(p)
  BY <1>1, NovoRascunho, Lendo, Depositando, Insercao, Desistindo
<1>2. CASE GravarEdicao(p) \/ GravarFinal(p) \/ \E a \in BOOLEAN : GravarDecisao(p, a)
  BY <1>2, RegistroDaEdicao, RegistroDaDecisao, RegistroDoFinal
<1>3. CASE GravarAprovacao(p)
  BY <1>3, RegistroDaAprovacao
<1>4. CASE Publicar(p)
  BY <1>4, PublicacaoNoBucket
<1>5. CASE VerificarChave(p)
  BY <1>5, Verificacao
<1>. QED
  BY <1>1, <1>2, <1>3, <1>4, <1>5 DEF Andar

LEMMA PassoPedidos ==
    ASSUME Base, [Next]_vars
    PROVE  PedidosCertos'
<1>0. Crescem /\ TypeOK' /\ PedidosCertos
  BY Crescendo, PassoTipos DEF Base
<1>1. CASE UNCHANGED vars
  <2>1. UNCHANGED <<pc, pedido>> /\ \A d \in Docs : Existe(d)' <=> Existe(d)
    BY <1>1 DEF vars, Existe
  <2>2. \A q \in Pedidos : PedidoCerto(q)'
    BY <1>0, <2>1, PedidoMantido DEF PedidosCertos
  <2>3. RascunhosSos'
    BY <1>0, <1>1 DEF PedidosCertos, RascunhosSos, Rascunhando, Existe, vars
  <2>. QED
    BY <2>2, <2>3 DEF PedidosCertos
<1>2. CASE (\E s \in Slugs : Renomear(s)) \/ ReceberFoto \/ \E d \in Triados : ArquivarTriado(d)
  <2>1. UNCHANGED <<pc, pedido>>
    BY <1>2 DEF Renomear, ReceberFoto, ArquivarTriado
  <2>2. \A q \in Pedidos : PedidoCerto(q)'
    BY <1>0, <2>1, PedidoMantido DEF PedidosCertos
  <2>3. \A q \in Pedidos : Rascunhando(q) => ~Existe(pedido[q].doc)'
    <3>1. CASE UNCHANGED documentos
      <4>1. \A d \in Docs : Existe(d)' <=> Existe(d)
        BY <3>1 DEF Existe
      <4>2. \A q \in Pedidos : Rascunhando(q) => pedido[q].doc \in Docs
        BY DEF Base, PedidosCertos, PedidoCerto, Docs
      <4>. QED
        BY <1>0, <2>1, <4>1, <4>2 DEF PedidosCertos, RascunhosSos
    <3>2. ASSUME NEW d \in Triados, ArquivarTriado(d),
                 NEW q \in Pedidos, Rascunhando(q)
          PROVE  ~Existe(pedido[q].doc)'
      <4>1. /\ pedido[q].doc \in Docs \ {d} /\ ~Existe(pedido[q].doc)
        BY <1>0, <3>2, DocumentosAssumption DEF PedidosCertos, PedidoCerto, RascunhosSos, Docs
      <4>2. \A x \in Docs \ {d} : documentos'[x] = documentos[x]
        BY <3>2, Triagem
      <4>. QED
        BY <2>1, <4>1, <4>2 DEF Existe
    <3>. QED
      BY <1>2, <3>1, <3>2 DEF Renomear, ReceberFoto
  <2>4. RascunhosSos'
    BY <1>0, <2>1, <2>3 DEF PedidosCertos, RascunhosSos, Rascunhando
  <2>. QED
    BY <2>2, <2>4 DEF PedidosCertos
<1>3. ASSUME NEW p \in Pedidos, Andar(p) PROVE PedidosCertos'
  <2>1. Outros(p)
    BY <1>3, Alheios
  <2>2. PedidoCerto(p)' /\ RascunhosSos'
    BY <1>0, <1>3, PassoPedido, PassoSos
  <2>3. \A q \in Pedidos \ {p} : PedidoCerto(q)'
    BY <1>0, <2>1, PedidoMantido DEF PedidosCertos, Outros
  <2>. QED
    BY <2>2, <2>3 DEF PedidosCertos
<1>. QED
  BY <1>1, <1>2, <1>3, Grupos

-----------------------------------------------------------------------------
(* What a row names stays in the bucket.                                   *)

LEMMA BucketCresce ==
    ASSUME Base, [Next]_vars, NEW k \in Chaves, bucket[k] # Nenhum
    PROVE  bucket'[k] # Nenhum
<1>1. CASE UNCHANGED bucket
  BY <1>1
<1>2. ASSUME NEW p \in Pedidos, Andar(p) PROVE bucket'[k] # Nenhum
  <2>1. CASE Guardar(p)
    BY <2>1, Depositando
  <2>2. CASE Publicar(p)
    BY <2>2, PublicacaoNoBucket
  <2>3. CASE UNCHANGED bucket
    BY <2>3
  <2>. QED
    BY <1>2, <2>1, <2>2, <2>3 DEF Andar, LerRevisoes, Ler, LerEdicao, LerDecisao,
       LerFinalizacao, LerAprovacao, LerDocumento, CriarDocumento, GravarEdicao,
       GravarDecisao, GravarAprovacao, VerificarChave, GravarFinal, Desistir,
       ConflitarFinal, Cair
<1>3. CASE \/ \E s \in Slugs : Renomear(s)
           \/ ReceberFoto \/ UNCHANGED vars
           \/ \E d \in Triados : ArquivarTriado(d)
  BY <1>1, <1>3 DEF Renomear, ReceberFoto, ArquivarTriado, vars
<1>. QED
  BY <1>2, <1>3, Grupos

(* The columns a step of request p writes, if any.                         *)
LEMMA ChavesDasLinhas ==
    ASSUME Base, NEW p \in Pedidos, Andar(p), NEW x \in Docs
    PROVE  \/ documentos'[x].chave = documentos[x].chave
           \/ /\ pc[p] \in {"rascunhoGuardado", "publicada"} /\ x = pedido[p].doc
              /\ documentos'[x].chave = pedido[p].chave
<1>1. CASE CriarDocumento(p)
  <2>1. /\ Rascunhando(p) /\ PedidoCerto(p) /\ pc[p] = "rascunhoGuardado"
        /\ documentos'[pedido[p].doc] = pedido[p].lido
        /\ \A y \in Docs \ {pedido[p].doc} : documentos'[y] = documentos[y]
    BY <1>1, Insercao DEF Base, PedidosCertos, CriarDocumento
  <2>. QED
    BY <2>1 DEF PedidoCerto
<1>2. CASE GravarEdicao(p)
  BY <1>2, RegistroDaEdicao
<1>3. ASSUME NEW a \in BOOLEAN, GravarDecisao(p, a)
      PROVE  documentos'[x].chave = documentos[x].chave
  BY <1>3, RegistroDaDecisao
<1>4. CASE GravarFinal(p)
  BY <1>4, RegistroDoFinal
<1>5. CASE UNCHANGED documentos
  BY <1>5
<1>. QED
  BY <1>1, <1>2, <1>3, <1>4, <1>5 DEF Andar, LerRevisoes, Ler, LerEdicao, LerDecisao,
     LerFinalizacao, LerAprovacao, LerDocumento, Guardar, GuardarRascunho, GuardarEdicao,
     PublicarVerificada, GravarAprovacao, Publicar, VerificarChave, Desistir,
     ConflitarFinal, Cair

LEMMA PassoObjetos ==
    ASSUME Base, [Next]_vars
    PROVE  ObjetosGuardados'
<1>0. TypeOK /\ PedidosCertos /\ ObjetosGuardados
  BY DEF Base
<1>1. CASE UNCHANGED <<pc, pedido, documentos, bucket>>
  BY <1>0, <1>1 DEF ObjetosGuardados
<1>2. ASSUME NEW d \in Triados, ArquivarTriado(d) PROVE ObjetosGuardados'
  <2>1. UNCHANGED <<pc, pedido, bucket>>
    BY <1>2 DEF ArquivarTriado
  <2>2. \A x \in Docs : documentos'[x].chave \in {documentos[x].chave, Nenhum}
    BY <1>2, Triagem
  <2>. QED
    BY <1>0, <2>1, <2>2 DEF ObjetosGuardados
<1>3. ASSUME NEW p \in Pedidos, Andar(p) PROVE ObjetosGuardados'
  <2>1. \A k \in Chaves : bucket[k] # Nenhum => bucket'[k] # Nenhum
    <3>1. Next
      BY <1>3 DEF Next, Andar, Chamar, Prosseguir, Ler, Guardar, Desistir
    <3>. QED
      BY <3>1, BucketCresce
  <2>2. \A x \in Docs : documentos'[x].chave # Nenhum => bucket'[documentos'[x].chave] # Nenhum
    <3>1. \A x \in Docs : documentos[x].chave \in Chaves \cup {Nenhum}
      BY <1>0, TiposDaLinha
    <3>2. pedido[p].chave \in Chaves \cup {Nenhum}
      BY <1>0, TiposDoPedido
    <3>. QED
      BY <1>0, <1>3, <2>1, <3>1, <3>2, ChavesDasLinhas DEF ObjetosGuardados
  <2>3. ASSUME NEW q \in Pedidos \ {p}, pedido'[q].chave # Nenhum,
               pc'[q] \notin {"rascunho", "verificada"}
        PROVE  bucket'[pedido'[q].chave] # Nenhum
    BY <1>0, <1>3, <2>1, <2>3, Alheios, TiposDoPedido DEF ObjetosGuardados, Outros
  <2>4. ASSUME pedido'[p].chave # Nenhum, pc'[p] \notin {"rascunho", "verificada"}
        PROVE  bucket'[pedido'[p].chave] # Nenhum
    <3>1. ASSUME NEW d \in Docs, NEW t \in Tipos, NEW dia \in Dias, LerRevisoes(p, d, t, dia)
          PROVE  FALSE
      BY <2>4, <3>1, NovoRascunho
    <3>2. ASSUME NEW d \in Docs, Ler(p, d) PROVE bucket'[pedido'[p].chave] # Nenhum
      <4>1. pedido'[p].chave = documentos[d].chave /\ UNCHANGED bucket
        BY <3>2, Lendo
      <4>. QED
        BY <1>0, <2>4, <4>1 DEF ObjetosGuardados
    <3>3. CASE Guardar(p)
      BY <3>3, Depositando
    <3>4. CASE Publicar(p)
      BY <3>4, PublicacaoNoBucket
    <3>5. CASE VerificarChave(p)
      BY <2>4, <3>5, Verificacao
    <3>6. CASE GravarAprovacao(p)
      BY <1>0, <2>4, <3>6, RegistroDaAprovacao DEF ObjetosGuardados
    <3>7. pedido'[p] # SemPedido
      BY <2>4 DEF SemPedido
    <3>8. ASSUME NEW a \in BOOLEAN, GravarDecisao(p, a) PROVE FALSE
      BY <3>7, <3>8, RegistroDaDecisao
    <3>9. ~CriarDocumento(p) /\ ~GravarEdicao(p) /\ ~GravarFinal(p) /\ ~Desistir(p)
      BY <3>7, Insercao, RegistroDaEdicao, RegistroDoFinal, Desistindo
    <3>. QED
      BY <1>3, <3>1, <3>2, <3>3, <3>4, <3>5, <3>6, <3>8, <3>9 DEF Andar
  <2>. QED
    BY <2>2, <2>3, <2>4 DEF ObjetosGuardados
<1>4. CASE (\E s \in Slugs : Renomear(s)) \/ ReceberFoto \/ UNCHANGED vars
  BY <1>1, <1>4 DEF Renomear, ReceberFoto, vars
<1>. QED
  BY <1>2, <1>3, <1>4, Grupos

-----------------------------------------------------------------------------
(* The locks, and what is published under them.                            *)

LEMMA PassoTravas ==
    ASSUME InvP, [Next]_vars
    PROVE  TravasCertas'
<1>0. /\ Base /\ TypeOK /\ LinhasCertas /\ TravasCertas /\ Crescem
      /\ \A q \in Pedidos : PedidoCerto(q)
  BY Crescendo DEF InvP, Base, PedidosCertos
<1>1. CASE UNCHANGED <<pc, pedido, trava, decididos, aprovacoes>>
  BY <1>0, <1>1 DEF TravasCertas, TravaDeQuemPublica, Publicando
<1>2. ASSUME NEW p \in Pedidos, Andar(p) PROVE TravasCertas'
  <2>0. Outros(p)
    BY <1>0, <1>2, Alheios
  (* Those who publish go on under the same locks.                         *)
  <2>1. ASSUME Publicando(p) => Publicando(p)' /\ pedido'[p].doc = pedido[p].doc,
               Publicando(p)' => /\ pedido'[p].doc \in decididos
                                 /\ trava[pedido'[p].doc] = p \/
                                      /\ pc'[p] # "aprovada" /\ pedido'[p].doc \in aprovacoes
                                      /\ pedido'[p].lido.tipo = "rdo",
               UNCHANGED trava
        PROVE  TravasCertas'
    <3>1. TravaDeQuemPublica'
      BY <1>0, <2>0, <2>1 DEF TravasCertas, TravaDeQuemPublica, Publicando, Outros, TypeOK
    <3>2. ASSUME NEW q \in Pedidos, Publicando(q)'
          PROVE  /\ pedido'[q].doc \in decididos'
                 /\ trava'[pedido'[q].doc] = q \/
                      /\ pc'[q] # "aprovada" /\ pedido'[q].doc \in aprovacoes'
                      /\ pedido'[q].lido.tipo = "rdo"
      BY <1>0, <2>0, <2>1, <3>2 DEF TravasCertas, Publicando, Outros, Crescem
    <3>. QED
      BY <3>1, <3>2 DEF TravasCertas
  (* Who ends leaves its locks.                                            *)
  <2>2. ASSUME pc'[p] = "livre",
               \A d \in Docs : trava'[d] = IF trava[d] = p THEN Nenhum ELSE trava[d]
        PROVE  TravasCertas'
    <3>1. p # Nenhum /\ \A q \in Pedidos : Publicando(q) => pedido[q].doc \in Docs
      BY <1>0, DocumentosAssumption DEF PedidoCerto, Publicando, Operando
    <3>2. TravaDeQuemPublica'
      BY <1>0, <2>0, <2>2, <3>1 DEF TravasCertas, TravaDeQuemPublica, Outros, TypeOK
    <3>3. ASSUME NEW q \in Pedidos, Publicando(q)'
          PROVE  /\ pedido'[q].doc \in decididos'
                 /\ trava'[pedido'[q].doc] = q \/
                      /\ pc'[q] # "aprovada" /\ pedido'[q].doc \in aprovacoes'
                      /\ pedido'[q].lido.tipo = "rdo"
      <4>1. q # p /\ Publicando(q) /\ pc'[q] = pc[q] /\ pedido'[q] = pedido[q]
        BY <2>0, <2>2, <3>3 DEF Publicando, Outros
      <4>. QED
        BY <1>0, <2>2, <3>1, <4>1 DEF TravasCertas, Crescem
    <3>. QED
      BY <3>2, <3>3 DEF TravasCertas
  <2>3. ASSUME NEW d \in Docs, NEW t \in Tipos, NEW dia \in Dias, LerRevisoes(p, d, t, dia)
        PROVE  TravasCertas'
    <3>1. pc[p] = "livre" /\ pc'[p] = "rascunho" /\ UNCHANGED trava
      BY <1>0, <2>3, NovoRascunho
    <3>. QED
      BY <2>1, <3>1 DEF Publicando
  <2>4. ASSUME NEW d \in Docs, Ler(p, d) PROVE TravasCertas'
    <3>1. /\ pc[p] = "livre" /\ UNCHANGED trava
          /\ pc'[p] \in {"edicao", "decisao", "finalizacao", "aprovacao"}
      BY <1>0, <2>4, Lendo
    <3>. QED
      BY <2>1, <3>1 DEF Publicando
  <2>5. CASE Guardar(p)
    <3>1. /\ \/ pc[p] = "rascunho" /\ pc'[p] = "rascunhoGuardado"
             \/ pc[p] = "edicao" /\ pc'[p] = "edicaoGuardada"
             \/ pc[p] = "verificada" /\ pc'[p] = "publicada"
          /\ UNCHANGED <<pedido, trava>>
      BY <1>0, <2>5, Depositando
    <3>. QED
      BY <1>0, <2>1, <3>1 DEF Publicando, TravasCertas
  <2>6. CASE CriarDocumento(p) \/ GravarEdicao(p) \/ \E a \in BOOLEAN : GravarDecisao(p, a)
    <3>1. /\ pc[p] \in {"rascunhoGuardado", "edicaoGuardada", "decisao"}
          /\ UNCHANGED trava
      BY <2>6 DEF CriarDocumento, GravarEdicao, GravarDecisao
    <3>2. pc'[p] = "livre"
      BY <1>0, <2>6, Insercao, RegistroDaEdicao, RegistroDaDecisao
    <3>. QED
      BY <2>1, <3>1, <3>2 DEF Publicando
  <2>7. CASE GravarAprovacao(p)
    <3> DEFINE d == pedido[p].doc
    <3>1. /\ pc[p] = "aprovacao" /\ ~Espera(p) /\ d \in Docs
          /\ pc'[p] = "aprovada" /\ trava'[d] = p
          /\ \A x \in Docs \ {d} : trava'[x] = trava[x]
          /\ decididos' = decididos \cup {d} /\ UNCHANGED <<aprovacoes, pedido>>
      BY <1>0, <2>7, RegistroDaAprovacao
    <3>2. trava[d] \in {Nenhum, p}
      BY <3>1 DEF Espera
    <3>3. TravaDeQuemPublica'
      BY <1>0, <2>0, <3>1 DEF TravasCertas, TravaDeQuemPublica, Outros, TypeOK
    <3>4. ASSUME NEW q \in Pedidos, Publicando(q)'
          PROVE  /\ pedido'[q].doc \in decididos'
                 /\ trava'[pedido'[q].doc] = q \/
                      /\ pc'[q] # "aprovada" /\ pedido'[q].doc \in aprovacoes'
                      /\ pedido'[q].lido.tipo = "rdo"
      <4>1. CASE q = p
        BY <3>1, <4>1
      <4>2. CASE q # p
        <5>1. Publicando(q) /\ pc'[q] = pc[q] /\ q # Nenhum
          BY <2>0, <3>4, <4>2, DocumentosAssumption DEF Publicando, Outros
        <5>2. pedido[q].doc \in Docs
          BY <1>0, <5>1 DEF PedidoCerto, Publicando, Operando
        <5>. QED
          BY <1>0, <3>1, <3>2, <4>2, <5>1, <5>2 DEF TravasCertas
      <4>. QED
        BY <4>1, <4>2
    <3>. QED
      BY <3>3, <3>4 DEF TravasCertas
  <2>8. CASE Publicar(p) \/ VerificarChave(p)
    <3>1. /\ pc[p] \in ProntoParaPublicar /\ pc'[p] \in {"verificada", "publicada"}
          /\ pedido'[p].doc = pedido[p].doc /\ pedido'[p].lido = pedido[p].lido
          /\ UNCHANGED trava
      <4>1. CASE Publicar(p)
        BY <1>0, <4>1, PublicacaoNoBucket
      <4>2. CASE VerificarChave(p)
        BY <1>0, <4>2, Verificacao
      <4>. QED
        BY <2>8, <4>1, <4>2
    <3>2. CASE pc[p] = "finalizacao"
      <4>1. pedido[p].doc \in aprovacoes /\ pedido[p].lido.tipo = "rdo"
        BY <1>0, <3>2 DEF PedidoCerto
      <4>. QED
        BY <1>0, <2>1, <3>1, <3>2, <4>1 DEF Publicando, LinhasCertas
    <3>3. CASE pc[p] = "aprovada"
      BY <1>0, <2>1, <3>1, <3>3 DEF Publicando, TravasCertas
    <3>. QED
      BY <3>1, <3>2, <3>3 DEF ProntoParaPublicar
  <2>9. CASE GravarFinal(p)
    BY <1>0, <2>2, <2>9, RegistroDoFinal
  <2>10. CASE Desistir(p)
    BY <1>0, <2>2, <2>10, Desistindo
  <2>. QED
    BY <1>2, <2>3, <2>4, <2>5, <2>6, <2>7, <2>8, <2>9, <2>10 DEF Andar
<1>3. CASE \/ \E s \in Slugs : Renomear(s)
           \/ ReceberFoto \/ UNCHANGED vars
           \/ \E d \in Triados : ArquivarTriado(d)
  BY <1>1, <1>3 DEF Renomear, ReceberFoto, ArquivarTriado, vars
<1>. QED
  BY <1>2, <1>3, Grupos

(* A final row needs a committed approval, of the request or of before.    *)
LEMMA PassoFinalizado ==
    ASSUME InvP, [Next]_vars
    PROVE  FinalizadoAprovado'
<1>0. Base /\ TravasCertas /\ FinalizadoAprovado /\ Crescem
  BY Crescendo DEF InvP, Base, FinalAprovado
<1>1. ASSUME \A x \in Docs : documentos'[x].status = "FINALIZADO_VALIDADO" =>
                documentos[x].status = "FINALIZADO_VALIDADO" \/ x \in aprovacoes'
      PROVE  FinalizadoAprovado'
  BY <1>0, <1>1 DEF FinalizadoAprovado, Crescem
<1>2. ASSUME NEW d \in Triados, ArquivarTriado(d) PROVE FinalizadoAprovado'
  <2>1. /\ documentos'[d].status = "TRIADO"
        /\ \A x \in Docs \ {d} : documentos'[x] = documentos[x]
    BY <1>0, <1>2, Triagem
  <2>. QED
    BY <1>1, <2>1
<1>3. ASSUME NEW p \in Pedidos, Andar(p) PROVE FinalizadoAprovado'
  <2>1. CASE CriarDocumento(p)
    <3>1. /\ Rascunhando(p) /\ documentos'[pedido[p].doc] = pedido[p].lido
          /\ \A x \in Docs \ {pedido[p].doc} : documentos'[x] = documentos[x]
      BY <1>0, <2>1, Insercao
    <3>2. pedido[p].lido.status = "RASCUNHO_GERADO"
      BY <1>0, <3>1 DEF Base, PedidosCertos, PedidoCerto
    <3>. QED
      BY <1>1, <3>1, <3>2
  <2>2. CASE GravarEdicao(p)
    <3>1. /\ documentos'[pedido[p].doc].status \in
                {documentos[pedido[p].doc].status, "EM_REVISAO"}
          /\ \A x \in Docs \ {pedido[p].doc} : documentos'[x] = documentos[x]
      BY <1>0, <2>2, RegistroDaEdicao
    <3>. QED
      BY <1>1, <3>1
  <2>3. ASSUME NEW a \in BOOLEAN, GravarDecisao(p, a) PROVE FinalizadoAprovado'
    <3>1. /\ documentos'[pedido[p].doc].status \in
                {documentos[pedido[p].doc].status, Decisao(a)}
          /\ \A x \in Docs \ {pedido[p].doc} : documentos'[x] = documentos[x]
      BY <1>0, <2>3, RegistroDaDecisao
    <3>. QED
      BY <1>1, <3>1 DEF Decisao
  <2>4. CASE GravarFinal(p)
    <3> DEFINE d == pedido[p].doc
    <3>1. /\ pc[p] = "publicada" /\ d \in Docs
          /\ \A x \in Docs \ {d} : documentos'[x] = documentos[x]
          /\ aprovacoes' = IF trava[d] = p THEN aprovacoes \cup {d} ELSE aprovacoes
      BY <1>0, <2>4, RegistroDoFinal
    <3>2. d \in aprovacoes'
      BY <1>0, <3>1 DEF TravasCertas, Publicando
    <3>. QED
      BY <1>1, <3>1, <3>2
  <2>5. CASE UNCHANGED documentos
    BY <1>1, <2>5
  <2>. QED
    BY <1>3, <2>1, <2>2, <2>3, <2>4, <2>5 DEF Andar, LerRevisoes, Ler, LerEdicao,
       LerDecisao, LerFinalizacao, LerAprovacao, LerDocumento, Guardar, GuardarRascunho,
       GuardarEdicao, PublicarVerificada, GravarAprovacao, Publicar, VerificarChave,
       Desistir, ConflitarFinal, Cair
<1>4. CASE (\E s \in Slugs : Renomear(s)) \/ ReceberFoto \/ UNCHANGED vars
  BY <1>1, <1>4 DEF Renomear, ReceberFoto, vars
<1>. QED
  BY <1>2, <1>3, <1>4, Grupos

(* What request p puts under a final key is of a documento decided.        *)
LEMMA PassoDecidido ==
    ASSUME InvP, [Next]_vars
    PROVE  FinalDecidido'
<1>0. /\ Base /\ LinhasCertas /\ TravasCertas /\ FinalDecidido /\ Crescem
      /\ \A q \in Pedidos : PedidoCerto(q)
  BY Crescendo DEF InvP, Base, FinalAprovado, PedidosCertos
<1>1. ASSUME NEW k \in Finais, NEW d \in Docs, d \in decididos,
             k = ChaveFinal(documentos[d], k.slug)
      PROVE  d \in decididos' /\ k = ChaveFinal(documentos'[d], k.slug)
  <2>1. MesmoDocumento(documentos'[d], documentos[d]) /\ d \in decididos'
    BY <1>0, <1>1 DEF LinhasCertas, Crescem
  <2>. QED
    BY <1>1, <2>1 DEF MesmoDocumento, ChaveFinal
<1>2. ASSUME NEW k \in Finais, bucket[k] # Nenhum
      PROVE  /\ bucket[k].dono \in decididos'
             /\ k = ChaveFinal(documentos'[bucket[k].dono], k.slug)
  <2>1. k \in Chaves /\ bucket[k].dono \in Docs
    BY <1>0, <1>2, TiposDoObjeto DEF Finais, Base
  <2>. QED
    BY <1>0, <1>1, <1>2, <2>1 DEF FinalDecidido
<1>3. ASSUME NEW p \in Pedidos, Operando(p), pedido[p].doc \in decididos,
             NEW k \in Finais, k = ChaveFinal(pedido[p].lido, k.slug)
      PROVE  /\ pedido[p].doc \in decididos'
             /\ k = ChaveFinal(documentos'[pedido[p].doc], k.slug)
  <2>1. /\ pedido[p].doc \in Docs
        /\ MesmoDocumento(pedido[p].lido, documentos[pedido[p].doc])
    BY <1>0, <1>3 DEF PedidoCerto
  <2>2. k = ChaveFinal(documentos[pedido[p].doc], k.slug)
    BY <1>3, <2>1 DEF MesmoDocumento, ChaveFinal
  <2>. QED
    BY <1>1, <1>3, <2>1, <2>2
<1>4. CASE UNCHANGED bucket
  BY <1>2, <1>4 DEF FinalDecidido
<1>5. ASSUME NEW p \in Pedidos, Guardar(p) PROVE FinalDecidido'
  <2> DEFINE c == pedido[p].chave
             d == pedido[p].doc
  <2>1. /\ pc[p] \in {"rascunho", "edicao", "verificada"} /\ c \in Chaves
        /\ bucket'[c] = [conteudo |-> pedido[p].conteudo, dono |-> d]
        /\ \A x \in Chaves \ {c} : bucket'[x] = bucket[x]
    BY <1>0, <1>5, Depositando
  <2>2. bucket'[c].dono = d
    BY <2>1
  <2>3. ASSUME Final(c)
        PROVE  /\ d \in decididos'
               /\ c = ChaveFinal(documentos'[d], c.slug)
    <3>1. c \in Finais /\ c # Nenhum
      BY <2>1, <2>3, CamposDaChave
    <3>2. pc[p] # "rascunho"
      BY <1>0, <2>3 DEF PedidoCerto, Rascunhando
    <3>3. Operando(p)
      BY <2>1, <3>2 DEF Operando
    <3>4. CASE pc[p] = "edicao"
      <4>1. c = pedido[p].lido.chave /\ LinhaCerta(pedido[p].lido, d, decididos)
        BY <1>0, <3>3, <3>4 DEF PedidoCerto
      <4>2. d \in decididos /\ c = ChaveFinal(pedido[p].lido, c.slug)
        BY <2>3, <3>1, <4>1 DEF LinhaCerta
      <4>. QED
        BY <1>3, <3>1, <3>3, <4>2
    <3>5. CASE pc[p] = "verificada"
      <4>1. d \in decididos /\ c = ChaveFinal(pedido[p].lido, c.slug)
        BY <1>0, <3>5 DEF PedidoCerto, TravasCertas, Publicando
      <4>. QED
        BY <1>3, <3>1, <3>3, <4>1
    <3>. QED
      BY <2>1, <3>2, <3>4, <3>5
  <2> HIDE DEF c, d
  <2>4. ASSUME NEW k \in Finais, bucket'[k] # Nenhum
        PROVE  /\ bucket'[k].dono \in decididos'
               /\ k = ChaveFinal(documentos'[bucket'[k].dono], k.slug)
    <3>1. k \in Chaves /\ Final(k)
      BY DEF Finais
    <3>2. CASE k = c
      BY <2>2, <2>3, <3>1, <3>2
    <3>3. CASE k # c
      BY <1>2, <2>1, <2>4, <3>1, <3>3
    <3>. QED
      BY <3>2, <3>3
  <2>. QED
    BY <2>4 DEF FinalDecidido
<1>6. ASSUME NEW p \in Pedidos, Publicar(p) PROVE FinalDecidido'
  <2> DEFINE c == ChaveFinal(pedido[p].lido, slug)
             d == pedido[p].doc
  <2>1. /\ pc[p] \in ProntoParaPublicar /\ c \in Chaves
        /\ bucket'[c] = [conteudo |-> ConteudoFinal(pedido[p].lido), dono |-> d]
        /\ \A x \in Chaves \ {c} : bucket'[x] = bucket[x]
    BY <1>0, <1>6, PublicacaoNoBucket
  <2>2. c \in Finais /\ c.slug = slug /\ Operando(p)
    BY <1>0, <2>1, ChaveProposta
  <2>3. d \in decididos
    BY <1>0, <2>1 DEF PedidoCerto, TravasCertas, Publicando, LinhasCertas, ProntoParaPublicar
  <2>4. d \in decididos' /\ c = ChaveFinal(documentos'[d], c.slug)
    BY <1>3, <2>2, <2>3
  <2>5. bucket'[c].dono = d
    BY <2>1
  <2> HIDE DEF c, d
  <2>6. ASSUME NEW k \in Finais, bucket'[k] # Nenhum
        PROVE  /\ bucket'[k].dono \in decididos'
               /\ k = ChaveFinal(documentos'[bucket'[k].dono], k.slug)
    <3>1. CASE k = c
      BY <2>4, <2>5, <3>1
    <3>2. CASE k # c
      BY <1>2, <2>1, <2>6, <3>2 DEF Finais
    <3>. QED
      BY <3>1, <3>2
  <2>. QED
    BY <2>6 DEF FinalDecidido
<1>7. ASSUME NEW p \in Pedidos, Andar(p) PROVE FinalDecidido'
  BY <1>4, <1>5, <1>6, <1>7 DEF Andar, LerRevisoes, Ler, LerEdicao, LerDecisao,
     LerFinalizacao, LerAprovacao, LerDocumento, CriarDocumento, GravarEdicao,
     GravarDecisao, GravarAprovacao, VerificarChave, GravarFinal, Desistir,
     ConflitarFinal, Cair
<1>8. CASE \/ \E s \in Slugs : Renomear(s)
           \/ ReceberFoto \/ UNCHANGED vars
           \/ \E d \in Triados : ArquivarTriado(d)
  BY <1>4, <1>8 DEF Renomear, ReceberFoto, ArquivarTriado, vars
<1>. QED
  BY <1>7, <1>8, Grupos

LEMMA PassoInvP ==
    ASSUME InvP, [Next]_vars
    PROVE  InvP'
BY PassoTipos, PassoLinhas, PassoPedidos, PassoTravas, PassoObjetos, PassoFinalizado,
   PassoDecidido DEF InvP, Base, FinalAprovado

LEMMA InicioInvP ==
    ASSUME Init
    PROVE  InvP
<1>1. TypeOK
  BY TipoSemLinha, TipoSemPedido, DocumentosAssumption DEF Init, TypeOK, Passos, Lembrancas
<1>2. LinhasCertas
  BY DEF Init, LinhasCertas, Existe, SemLinha
<1>3. PedidosCertos
  BY DEF Init, PedidosCertos, PedidoCerto, RascunhosSos, Rascunhando, Operando
<1>4. TravasCertas
  BY DEF Init, TravasCertas, TravaDeQuemPublica, Publicando
<1>5. ObjetosGuardados
  BY DEF Init, ObjetosGuardados, SemLinha, SemPedido
<1>6. FinalAprovado
  BY DEF Init, FinalAprovado, FinalizadoAprovado, FinalDecidido, SemLinha, Finais
<1>. QED
  BY <1>1, <1>2, <1>3, <1>4, <1>5, <1>6 DEF InvP

LEMMA InvPSempre == Spec => []InvP
<1>1. Init => InvP
  BY InicioInvP
<1>2. InvP /\ [Next]_vars => InvP'
  BY PassoInvP
<1>. QED
  BY <1>1, <1>2, PTL DEF Spec

(* No documento is FINALIZADO_VALIDADO without a committed approval, and   *)
(* no final object is of one nobody asked to approve.                      *)
THEOREM FinalSempreAprovado == Spec => []FinalAprovado
<1>1. InvP => FinalAprovado
  BY DEF InvP
<1>. QED
  BY <1>1, InvPSempre, PTL

(* A row is locked only by who publishes its documento, and whoever waits  *)
(* for it waits for a request that waits for nobody.                       *)
THEOREM TravasSempreEmOrdem == Spec => []TravasEmOrdem
<1>1. InvP => TravasEmOrdem
  <2>1. ASSUME InvP, NEW p \in Pedidos, Espera(p)
        PROVE  LET q == trava[pedido[p].doc] IN
               /\ pc[q] \in {"aprovada", "verificada", "publicada"}
               /\ pedido[q].doc = pedido[p].doc /\ ~Espera(q)
    <3>1. TravaDeQuemPublica /\ PedidoCerto(p) /\ Operando(p)
      BY <2>1 DEF InvP, TravasCertas, PedidosCertos, Espera, Operando
    <3>2. pedido[p].doc \in Docs /\ trava[pedido[p].doc] # Nenhum
      BY <2>1, <3>1 DEF PedidoCerto, Espera
    <3>. QED
      BY <3>1, <3>2 DEF TravaDeQuemPublica, Espera
  <2>. QED
    BY <2>1 DEF InvP, TravasCertas, TravasEmOrdem, SemImpasse
<1>. QED
  BY <1>1, InvPSempre, PTL

-----------------------------------------------------------------------------
(* With one process a final key belongs to one documento for ever.         *)

(* Whoever holds a final key finds an object under it.                     *)
LEMMA FinaisEmUso ==
    ASSUME InvP, UmProcesso
    PROVE  /\ \A d \in Docs : documentos[d].chave # Nenhum =>
                 documentos[d].chave \in Chaves /\ bucket[documentos[d].chave] # Nenhum
           /\ \A p \in Pedidos : pedido[p].chave # Nenhum /\ Final(pedido[p].chave) =>
                 /\ pedido[p].chave \in Chaves /\ bucket[pedido[p].chave] # Nenhum
                 /\ Operando(p)
<1>1. TypeOK /\ ObjetosGuardados /\ \A p \in Pedidos : PedidoCerto(p)
  BY DEF InvP, PedidosCertos
<1>2. \A d \in Docs : documentos[d].chave # Nenhum =>
         documentos[d].chave \in Chaves /\ bucket[documentos[d].chave] # Nenhum
  BY <1>1, TiposDaLinha DEF ObjetosGuardados
<1>3. ASSUME NEW p \in Pedidos, pedido[p].chave # Nenhum, Final(pedido[p].chave)
      PROVE  /\ pedido[p].chave \in Chaves /\ bucket[pedido[p].chave] # Nenhum
             /\ Operando(p)
  <2>1. ~Rascunhando(p) /\ pc[p] # "verificada" /\ pc[p] # "livre"
    BY <1>1, <1>3 DEF PedidoCerto, SemPedido
  <2>. QED
    BY <1>1, <1>3, <2>1, TiposDoPedido DEF ObjetosGuardados, Rascunhando, Operando
<1>. QED
  BY <1>2, <1>3

(* An object put under a final key already given is of the same documento. *)
LEMMA DonoPermanece ==
    ASSUME InvD, UmProcesso, [Next]_vars, NEW k \in Chaves, Final(k), bucket[k] # Nenhum
    PROVE  bucket'[k] # Nenhum /\ bucket'[k].dono = bucket[k].dono
<1>0. Base /\ InvP /\ DonosDosFinais /\ \A q \in Pedidos : PedidoCerto(q)
  BY DEF InvD, InvP, Base, PedidosCertos
<1>1. bucket'[k] # Nenhum
  BY <1>0, BucketCresce
<1>2. CASE UNCHANGED bucket
  BY <1>1, <1>2
<1>3. ASSUME NEW p \in Pedidos, Guardar(p) PROVE bucket'[k].dono = bucket[k].dono
  <2>1. /\ bucket'[pedido[p].chave] = [conteudo |-> pedido[p].conteudo,
                                       dono |-> pedido[p].doc]
        /\ \A x \in Chaves \ {pedido[p].chave} : bucket'[x] = bucket[x]
    BY <1>0, <1>3, Depositando
  <2>2. CASE k = pedido[p].chave
    <3>1. bucket[k].dono = pedido[p].doc
      BY <1>0, <2>2, CamposDaChave DEF DonosDosFinais
    <3>. QED
      BY <2>1, <2>2, <3>1
  <2>. QED
    BY <2>1, <2>2
<1>4. ASSUME NEW p \in Pedidos, Publicar(p) PROVE bucket'[k].dono = bucket[k].dono
  BY <1>0, <1>4, PublicacaoNoBucket
<1>5. ASSUME NEW p \in Pedidos, Andar(p) PROVE bucket'[k].dono = bucket[k].dono
  BY <1>2, <1>3, <1>4, <1>5 DEF Andar, LerRevisoes, Ler, LerEdicao, LerDecisao,
     LerFinalizacao, LerAprovacao, LerDocumento, CriarDocumento, GravarEdicao,
     GravarDecisao, GravarAprovacao, VerificarChave, GravarFinal, Desistir,
     ConflitarFinal, Cair
<1>6. CASE \/ \E s \in Slugs : Renomear(s)
           \/ ReceberFoto \/ UNCHANGED vars
           \/ \E d \in Triados : ArquivarTriado(d)
  BY <1>2, <1>6 DEF Renomear, ReceberFoto, ArquivarTriado, vars
<1>. QED
  BY <1>1, <1>5, <1>6, Grupos

LEMMA PassoDonos ==
    ASSUME InvD, [Next]_vars
    PROVE  DonosDosFinais'
<1> SUFFICES ASSUME UmProcesso PROVE DonosDosFinais'
  BY DEF DonosDosFinais
<1>0. /\ Base /\ InvP /\ DonosDosFinais /\ TypeOK
      /\ \A q \in Pedidos : PedidoCerto(q)
  BY DEF InvD, InvP, Base, PedidosCertos
<1>1. \A k \in Chaves : Final(k) /\ bucket[k] # Nenhum => bucket'[k].dono = bucket[k].dono
  BY DonoPermanece
<1>2. \A d \in Docs : documentos[d].chave # Nenhum /\ Final(documentos[d].chave) =>
         bucket'[documentos[d].chave].dono = d
  BY <1>0, <1>1, FinaisEmUso DEF DonosDosFinais
<1>3. \A q \in Pedidos : pedido[q].chave # Nenhum /\ Final(pedido[q].chave) =>
         bucket'[pedido[q].chave].dono = pedido[q].doc
  BY <1>0, <1>1, FinaisEmUso DEF DonosDosFinais
<1>4. CASE UNCHANGED <<documentos, pedido>>
  BY <1>2, <1>3, <1>4 DEF DonosDosFinais
<1>5. ASSUME NEW d \in Triados, ArquivarTriado(d) PROVE DonosDosFinais'
  <2>1. UNCHANGED pedido
    BY <1>5 DEF ArquivarTriado
  <2>2. \A x \in Docs : documentos'[x].chave \in {documentos[x].chave, Nenhum}
    BY <1>0, <1>5, Triagem
  <2>. QED
    BY <1>2, <1>3, <2>1, <2>2 DEF DonosDosFinais
<1>6. ASSUME NEW p \in Pedidos, Andar(p) PROVE DonosDosFinais'
  <2>1. \A d \in Docs : documentos'[d].chave # Nenhum /\ Final(documentos'[d].chave) =>
           bucket'[documentos'[d].chave].dono = d
    BY <1>0, <1>2, <1>3, <1>6, ChavesDasLinhas
  <2>2. ASSUME NEW q \in Pedidos, pedido'[q].chave # Nenhum, Final(pedido'[q].chave)
        PROVE  bucket'[pedido'[q].chave].dono = pedido'[q].doc
    <3>1. CASE pedido'[q] = pedido[q]
      BY <1>3, <2>2, <3>1
    <3>2. CASE q # p
      BY <1>0, <1>6, <3>1, <3>2, Alheios DEF Outros
    <3>3. ASSUME q = p, NEW d \in Docs, NEW t \in Tipos, NEW dia \in Dias,
                 LerRevisoes(p, d, t, dia)
          PROVE  FALSE
      <4>1. /\ pedido'[p].chave = ChaveRascunho(t, slug, dia, pedido'[p].lido.rev)
            /\ pedido' \in [Pedidos -> Lembrancas]
        BY <1>0, <3>3, NovoRascunho
      <4>2. pedido'[p].lido.rev \in Revs /\ slug \in Slugs
        BY <1>0, <4>1 DEF Lembrancas, Linhas, TypeOK
      <4>. QED
        BY <2>2, <3>3, <4>1, <4>2, TipoRascunho
    <3>4. ASSUME q = p, NEW d \in Docs, Ler(p, d)
          PROVE  bucket'[pedido'[q].chave].dono = pedido'[q].doc
      <4>1. pedido'[p].chave = documentos[d].chave /\ pedido'[p].doc = d
        BY <1>0, <3>4, Lendo
      <4>. QED
        BY <1>2, <2>2, <3>4, <4>1
    <3>5. CASE q = p /\ Publicar(p)
      <4> DEFINE k == ChaveFinal(pedido[p].lido, slug)
      <4>1. /\ bucket'[k] = [conteudo |-> ConteudoFinal(pedido[p].lido), dono |-> pedido[p].doc]
            /\ pedido'[p].doc = pedido[p].doc /\ pedido'[p].chave = k
        BY <1>0, <3>5, PublicacaoNoBucket
      <4>. QED
        BY <3>5, <4>1
    <3>6. ASSUME pedido'[p] = SemPedido, q = p PROVE FALSE
      BY <2>2, <3>6 DEF SemPedido
    <3>7. ASSUME q = p, NEW a \in BOOLEAN, GravarDecisao(p, a) PROVE FALSE
      BY <1>0, <3>6, <3>7, RegistroDaDecisao
    <3>8. CASE q = p /\ \/ CriarDocumento(p) \/ GravarEdicao(p)
                        \/ GravarFinal(p) \/ Desistir(p)
      BY <1>0, <3>6, <3>8, Insercao, RegistroDaEdicao, RegistroDoFinal, Desistindo
    <3>9. CASE Guardar(p) \/ GravarAprovacao(p)
      BY <3>1, <3>9 DEF Guardar, GuardarRascunho, GuardarEdicao, PublicarVerificada,
         GravarAprovacao
    <3>10. ~VerificarChave(p)
      BY DEF VerificarChave
    <3>. QED
      BY <1>6, <3>2, <3>3, <3>4, <3>5, <3>7, <3>8, <3>9, <3>10 DEF Andar
  <2>. QED
    BY <2>1, <2>2 DEF DonosDosFinais
<1>7. CASE (\E s \in Slugs : Renomear(s)) \/ ReceberFoto \/ UNCHANGED vars
  BY <1>4, <1>7 DEF Renomear, ReceberFoto, vars
<1>. QED
  BY <1>5, <1>6, <1>7, Grupos

LEMMA InvDSempre == Spec => []InvD
<1>1. Init => InvD
  <2>1. Init => DonosDosFinais
    BY DEF Init, DonosDosFinais, SemLinha, SemPedido
  <2>. QED
    BY <2>1, InicioInvP DEF InvD
<1>2. InvD /\ [Next]_vars => InvD'
  BY PassoInvP, PassoDonos DEF InvD
<1>. QED
  BY <1>1, <1>2, PTL DEF Spec

-----------------------------------------------------------------------------
(* The life of documentos implements Publicacao.                           *)

(* What the outsider sees: of whom each final object is, and under which   *)
(* key each documento is published.                                        *)
DonoVisto == [k \in Finais |-> IF bucket[k] = Nenhum THEN Nenhum ELSE bucket[k].dono]
PublicadoVisto == [d \in Docs |-> IF documentos[d].status = "FINALIZADO_VALIDADO"
                                  THEN documentos[d].chave ELSE Nenhum]

LEMMA PassoPublicacao ==
    ASSUME InvD, UmProcesso, [Next]_vars
    PROVE  [Promessa!Next]_(Promessa!vars)
<1>0. /\ Base /\ InvP /\ DonosDosFinais /\ TypeOK /\ LinhasCertas /\ TravasCertas
      /\ \A q \in Pedidos : PedidoCerto(q)
  BY DEF InvD, InvP, Base, PedidosCertos
<1>1. ASSUME UNCHANGED <<decididos, DonoVisto, PublicadoVisto>>
      PROVE  [Promessa!Next]_(Promessa!vars)
  BY <1>1 DEF Promessa!vars, DonoVisto, PublicadoVisto
<1>2. ASSUME NEW d \in Docs, PublicadoVisto' = [PublicadoVisto EXCEPT ![d] = Nenhum],
             decididos' \in {decididos, decididos \cup {d}}, UNCHANGED DonoVisto
      PROVE  [Promessa!Next]_(Promessa!vars)
  BY <1>2 DEF Promessa!Next, Promessa!Reabrir, DonoVisto, PublicadoVisto
<1>3. ASSUME NEW d \in Docs, decididos' = decididos \cup {d},
             UNCHANGED <<DonoVisto, PublicadoVisto>>
      PROVE  [Promessa!Next]_(Promessa!vars)
  BY <1>3 DEF Promessa!Next, Promessa!Decidir, DonoVisto, PublicadoVisto
<1>4. ASSUME UNCHANGED documentos PROVE UNCHANGED PublicadoVisto
  BY <1>4 DEF PublicadoVisto
<1>5. ASSUME UNCHANGED bucket PROVE UNCHANGED DonoVisto
  BY <1>5 DEF DonoVisto
<1>6. ASSUME NEW d \in Docs, documentos'[d].status # "FINALIZADO_VALIDADO",
             documentos[d].status # "FINALIZADO_VALIDADO",
             \A x \in Docs \ {d} : documentos'[x] = documentos[x]
      PROVE  UNCHANGED PublicadoVisto
  BY <1>6 DEF PublicadoVisto
(* A decision or an edit: the documento is not published any more, or is   *)
(* as it was.                                                              *)
<1>7. ASSUME NEW d \in Docs, documentos' \in [Docs -> Linhas],
             documentos'[d].chave = documentos[d].chave,
             documentos'[d].status = documentos[d].status
                \/ documentos'[d].status # "FINALIZADO_VALIDADO",
             \A x \in Docs \ {d} : documentos'[x] = documentos[x],
             decididos' \in {decididos, decididos \cup {d}}, UNCHANGED bucket
      PROVE  [Promessa!Next]_(Promessa!vars)
  <2>1. CASE documentos'[d].status = documentos[d].status
    <3>1. UNCHANGED PublicadoVisto
      BY <1>7, <2>1 DEF PublicadoVisto
    <3>. QED
      BY <1>1, <1>3, <1>5, <1>7, <3>1
  <2>2. CASE documentos'[d].status # "FINALIZADO_VALIDADO"
    <3>1. PublicadoVisto' = [PublicadoVisto EXCEPT ![d] = Nenhum]
      BY <1>7, <2>2 DEF PublicadoVisto
    <3>. QED
      BY <1>2, <1>5, <1>7, <3>1
  <2>. QED
    BY <1>7, <2>1, <2>2
<1>8. CASE UNCHANGED <<documentos, bucket, decididos>>
  BY <1>1, <1>4, <1>5, <1>8
<1>9. ASSUME NEW d \in Triados, ArquivarTriado(d) PROVE [Promessa!Next]_(Promessa!vars)
  <2>1. /\ d \in Docs /\ documentos'[d].status = "TRIADO" /\ documentos[d] = SemLinha
        /\ \A x \in Docs \ {d} : documentos'[x] = documentos[x]
    BY <1>0, <1>9, Triagem
  <2>2. UNCHANGED <<bucket, decididos>>
    BY <1>9 DEF ArquivarTriado
  <2>3. UNCHANGED PublicadoVisto
    BY <1>6, <2>1 DEF SemLinha
  <2>. QED
    BY <1>1, <1>5, <2>2, <2>3
<1>10. ASSUME NEW p \in Pedidos, Andar(p) PROVE [Promessa!Next]_(Promessa!vars)
  <2> DEFINE d == pedido[p].doc
  <2>1. CASE Guardar(p)
    <3>1. UNCHANGED <<documentos, decididos>>
      BY <1>0, <2>1, Depositando
    <3>2. ASSUME NEW k \in Finais
          PROVE  /\ bucket[k] = Nenhum <=> bucket'[k] = Nenhum
                 /\ bucket[k] # Nenhum => bucket'[k].dono = bucket[k].dono
      <4>1. k \in Chaves /\ Final(k) /\ k # Nenhum
        BY CamposDaChave DEF Finais
      <4>2. CASE k = pedido[p].chave
        BY <1>0, <4>1, <4>2, FinaisEmUso, DonoPermanece
      <4>3. CASE k # pedido[p].chave
        BY <1>0, <2>1, <4>1, <4>3, Depositando
      <4>. QED
        BY <4>2, <4>3
    <3>3. UNCHANGED DonoVisto
      BY <3>2 DEF DonoVisto
    <3>. QED
      BY <1>1, <1>4, <3>1, <3>3
  <2>2. CASE CriarDocumento(p)
    <3>1. /\ Rascunhando(p) /\ d \in Docs /\ ~Existe(d) /\ documentos'[d] = pedido[p].lido
          /\ \A x \in Docs \ {d} : documentos'[x] = documentos[x]
          /\ UNCHANGED <<bucket, decididos>>
      BY <1>0, <2>2, Insercao
    <3>2. pedido[p].lido.status = "RASCUNHO_GERADO"
      BY <1>0, <3>1 DEF PedidoCerto
    <3>3. UNCHANGED PublicadoVisto
      BY <1>6, <3>1, <3>2 DEF Existe
    <3>. QED
      BY <1>1, <1>5, <3>1, <3>3
  <2>3. CASE GravarEdicao(p)
    <3>1. /\ d \in Docs /\ documentos' \in [Docs -> Linhas]
          /\ documentos'[d].status \in {documentos[d].status, "EM_REVISAO"}
          /\ documentos'[d].chave = documentos[d].chave
          /\ \A x \in Docs \ {d} : documentos'[x] = documentos[x]
          /\ UNCHANGED <<bucket, decididos>>
      BY <1>0, <2>3, RegistroDaEdicao
    <3>. QED
      BY <1>7, <3>1
  <2>4. ASSUME NEW a \in BOOLEAN, GravarDecisao(p, a) PROVE [Promessa!Next]_(Promessa!vars)
    <3>1. /\ d \in Docs /\ documentos' \in [Docs -> Linhas]
          /\ documentos'[d].status \in {documentos[d].status, Decisao(a)}
          /\ documentos'[d].chave = documentos[d].chave
          /\ \A x \in Docs \ {d} : documentos'[x] = documentos[x]
          /\ decididos' = decididos \cup (IF a THEN {d} ELSE {})
          /\ UNCHANGED bucket
      BY <1>0, <2>4, RegistroDaDecisao
    <3>2. decididos' \in {decididos, decididos \cup {d}}
      BY <3>1
    <3>. QED
      BY <1>7, <3>1, <3>2 DEF Decisao
  <2>5. CASE GravarAprovacao(p)
    <3>1. d \in Docs /\ decididos' = decididos \cup {d} /\ UNCHANGED <<documentos, bucket>>
      BY <1>0, <2>5, RegistroDaAprovacao
    <3>. QED
      BY <1>3, <1>4, <1>5, <3>1
  <2>6. CASE Publicar(p)
    <3> DEFINE k == ChaveFinal(pedido[p].lido, slug)
    <3>1. /\ pc[p] \in ProntoParaPublicar /\ k \in Chaves /\ Final(k) /\ bucket[k] = Nenhum
          /\ bucket'[k] = [conteudo |-> ConteudoFinal(pedido[p].lido), dono |-> d]
          /\ bucket'[k] # Nenhum
          /\ \A x \in Chaves \ {k} : bucket'[x] = bucket[x]
          /\ UNCHANGED <<documentos, decididos>>
      BY <1>0, <2>6, PublicacaoNoBucket
    <3>2. d \in Docs /\ k \in Finais /\ bucket'[k].dono = d
      BY <1>0, <3>1, ChaveProposta
    <3>3. d \in decididos
      BY <1>0, <3>1 DEF PedidoCerto, TravasCertas, Publicando, LinhasCertas, ProntoParaPublicar
    <3> HIDE DEF d, k
    <3>4. DonoVisto' = [DonoVisto EXCEPT ![k] = d] /\ DonoVisto[k] = Nenhum
      BY <3>1, <3>2 DEF DonoVisto, Finais
    <3>5. UNCHANGED PublicadoVisto
      BY <1>4, <3>1
    <3>. QED
      BY <3>1, <3>2, <3>3, <3>4, <3>5
         DEF Promessa!Next, Promessa!Escrever, DonoVisto, PublicadoVisto
  <2>7. CASE GravarFinal(p)
    <3> DEFINE k == pedido[p].chave
    <3>1. /\ d \in Docs /\ k \in Chaves /\ Final(k)
          /\ documentos' \in [Docs -> Linhas]
          /\ documentos'[d].status = "FINALIZADO_VALIDADO" /\ documentos'[d].chave = k
          /\ \A x \in Docs \ {d} : documentos'[x] = documentos[x]
          /\ UNCHANGED <<bucket, decididos>>
      BY <1>0, <2>7, RegistroDoFinal
    <3>2. k \in Finais /\ bucket[k] # Nenhum /\ bucket[k].dono = d
      BY <1>0, <3>1, FinaisEmUso, CamposDaChave DEF DonosDosFinais
    <3> HIDE DEF d, k
    <3>3. PublicadoVisto' = [PublicadoVisto EXCEPT ![d] = k]
      BY <3>1 DEF PublicadoVisto
    <3>4. UNCHANGED DonoVisto /\ DonoVisto[k] = d
      BY <1>5, <3>1, <3>2 DEF DonoVisto
    <3>. QED
      BY <3>1, <3>2, <3>3, <3>4
         DEF Promessa!Next, Promessa!Confirmar, DonoVisto, PublicadoVisto
  <2>8. CASE UNCHANGED <<documentos, bucket, decididos>>
    BY <1>8, <2>8
  <2>. QED
    BY <1>10, <2>1, <2>2, <2>3, <2>4, <2>5, <2>6, <2>7, <2>8 DEF Andar, LerRevisoes, Ler,
       LerEdicao, LerDecisao, LerFinalizacao, LerAprovacao, LerDocumento, VerificarChave,
       Desistir, ConflitarFinal, Cair
<1>11. CASE (\E s \in Slugs : Renomear(s)) \/ ReceberFoto \/ UNCHANGED vars
  BY <1>8, <1>11 DEF Renomear, ReceberFoto, vars
<1>. QED
  BY <1>9, <1>10, <1>11, Grupos

(* With one process, whatever interleaves and whoever dies, a final key is *)
(* written once, for a documento somebody decided to approve, and only     *)
(* that documento is published under it.                                   *)
THEOREM ImplementaSempre ==
    ASSUME UmProcesso
    PROVE  Spec => ImplementaPublicacao
<1>1. Init => Promessa!Init
  BY DEF Init, Promessa!Init, Finais, SemLinha
<1>2. InvD /\ [Next]_vars => [Promessa!Next]_(Promessa!vars)
  BY PassoPublicacao
<1>. QED
  BY <1>1, <1>2, InvDSempre, PTL DEF Spec, ImplementaPublicacao, Promessa!Spec

-----------------------------------------------------------------------------
(* Revisions.                                                              *)

(* The rows that exist keep what identifies them, and only the insertion   *)
(* of a draft makes one of Rascunhos exist.                                *)
LEMMA RascunhosExistentes ==
    ASSUME Base, NEW p \in Pedidos, Andar(p), NEW d \in Rascunhos, Existe(d)'
    PROVE  Existe(d) \/ /\ CriarDocumento(p) /\ d = pedido[p].doc
                        /\ documentos'[d] = pedido[p].lido
<1>0. d \in Docs
  BY DEF Docs
<1>1. CASE CriarDocumento(p)
  BY <1>0, <1>1, Insercao DEF Existe
<1>2. CASE GravarEdicao(p)
  BY <1>0, <1>2, RegistroDaEdicao DEF Existe
<1>3. ASSUME NEW a \in BOOLEAN, GravarDecisao(p, a) PROVE Existe(d)
  BY <1>0, <1>3, RegistroDaDecisao DEF Existe
<1>4. CASE GravarFinal(p)
  BY <1>0, <1>4, RegistroDoFinal DEF Existe
<1>5. CASE UNCHANGED documentos
  BY <1>5 DEF Existe
<1>. QED
  BY <1>1, <1>2, <1>3, <1>4, <1>5 DEF Andar, LerRevisoes, Ler, LerEdicao, LerDecisao,
     LerFinalizacao, LerAprovacao, LerDocumento, Guardar, GuardarRascunho, GuardarEdicao,
     PublicarVerificada, GravarAprovacao, Publicar, VerificarChave, Desistir,
     ConflitarFinal, Cair

(* Whether two rows are distinct depends on what identifies them.          *)
LEMMA DistintasSempre ==
    ASSUME NEW r, NEW s, NEW n, MesmoDocumento(n, r)
    PROVE  Distintas(r, s) <=> Distintas(n, s)
BY DEF Distintas, MesmaSerie, MesmoDocumento

(* The revision taken by a new draft is above every row of its series.     *)
LEMMA RevisaoNova ==
    ASSUME Base, NEW p \in Pedidos, NEW d \in Docs, NEW t \in Tipos, NEW dia \in Dias,
           LerRevisoes(p, d, t, dia), NEW e \in Docs, Existe(e)
    PROVE  Distintas(documentos[e], pedido'[p].lido)
<1>1. /\ pedido'[p].lido.tipo = t /\ pedido'[p].lido.dia = dia
      /\ ProximaRevisao(pedido'[p].lido.rev, Revisoes(t, dia))
      /\ pedido' \in [Pedidos -> Lembrancas]
  BY NovoRascunho
<1>2. TypeOK /\ documentos[e].rev \in Nat /\ pedido'[p].lido.rev \in Nat
  BY <1>1, TiposDaLinha DEF Base, Lembrancas, Linhas, Revs
<1>3. ASSUME MesmaSerie(documentos[e], pedido'[p].lido)
      PROVE  documentos[e].rev # pedido'[p].lido.rev
  <2>1. documentos[e].rev \in Revisoes(t, dia)
    BY <1>1, <1>3 DEF Revisoes, MesmaSerie
  <2>2. documentos[e].rev < pedido'[p].lido.rev
    BY <1>1, <2>1 DEF ProximaRevisao
  <2>. QED
    BY <1>2, <2>2
<1>. QED
  BY <1>3 DEF Distintas

LEMMA PassoRevisoes ==
    ASSUME InvR, [Next]_vars
    PROVE  RevisoesCertas'
<1>0. /\ Base /\ RevisoesCertas /\ Crescem /\ TypeOK /\ RascunhosSos
      /\ \A q \in Pedidos : PedidoCerto(q)
  BY Crescendo DEF InvR, InvP, Base, PedidosCertos
<1>1. \A d \in Rascunhos : Existe(d) => Existe(d)' /\ MesmoDocumento(documentos'[d], documentos[d])
  BY <1>0 DEF Crescem, Docs
<1>2. ASSUME \A d \in Rascunhos : Existe(d)' => Existe(d), UNCHANGED <<pc, pedido, gemeos>>
      PROVE  RevisoesCertas'
  <2>1. RevisaoUnica'
    BY <1>0, <1>1, <1>2 DEF RevisoesCertas, RevisaoUnica, MesmaSerie, MesmoDocumento
  <2>2. ASSUME NEW p \in Pedidos, NEW d \in Rascunhos, Rascunhando(p)', Existe(d)',
               d \notin gemeos' \/ pedido'[p].doc \notin gemeos'
        PROVE  Distintas(documentos'[d], pedido'[p].lido)
    <3>1. Rascunhando(p) /\ Existe(d) /\ Distintas(documentos[d], pedido[p].lido)
      BY <1>0, <1>2, <2>2 DEF RevisoesCertas, Rascunhando
    <3>. QED
      BY <1>1, <1>2, <3>1, DistintasSempre
  <2>3. \A p, q \in Pedidos : Rascunhando(p)' /\ Rascunhando(q)' /\ p # q =>
           pedido'[p].doc \in gemeos'
    BY <1>0, <1>2 DEF RevisoesCertas, Rascunhando
  <2>. QED
    BY <2>1, <2>2, <2>3 DEF RevisoesCertas
<1>3. CASE (\E s \in Slugs : Renomear(s)) \/ ReceberFoto \/ UNCHANGED vars
  <2>1. UNCHANGED <<documentos, pc, pedido, gemeos>>
    BY <1>3 DEF Renomear, ReceberFoto, vars
  <2>. QED
    BY <1>2, <2>1 DEF Existe
<1>4. ASSUME NEW d \in Triados, ArquivarTriado(d) PROVE RevisoesCertas'
  <2>1. /\ d \notin Rascunhos /\ \A x \in Docs \ {d} : documentos'[x] = documentos[x]
        /\ UNCHANGED <<pc, pedido, gemeos>>
    BY <1>0, <1>4, Triagem DEF ArquivarTriado
  <2>. QED
    BY <1>2, <2>1 DEF Existe, Docs
<1>5. ASSUME NEW p \in Pedidos, Andar(p) PROVE RevisoesCertas'
  <2>1. Outros(p) /\ gemeos \subseteq gemeos'
    BY <1>0, <1>5, Alheios DEF Andar, LerRevisoes, Ler, LerEdicao, LerDecisao,
       LerFinalizacao, LerAprovacao, LerDocumento, Guardar, GuardarRascunho, GuardarEdicao,
       PublicarVerificada, CriarDocumento, GravarEdicao, GravarDecisao, GravarAprovacao,
       Publicar, VerificarChave, GravarFinal, Desistir, ConflitarFinal, Cair
  <2>2. \A d \in Rascunhos : Existe(d)' => Existe(d) \/
           /\ CriarDocumento(p) /\ d = pedido[p].doc /\ documentos'[d] = pedido[p].lido
    BY <1>0, <1>5, RascunhosExistentes
  <2>3. CASE CriarDocumento(p)
    <3> DEFINE d == pedido[p].doc
    <3>1. /\ Rascunhando(p) /\ d \in Rascunhos /\ ~Existe(d) /\ pc'[p] = "livre"
          /\ documentos'[d] = pedido[p].lido /\ UNCHANGED gemeos
      BY <1>0, <2>3, Insercao
    <3>2. ASSUME NEW e \in Rascunhos, Existe(e), d \notin gemeos \/ e \notin gemeos
          PROVE  Distintas(documentos'[e], documentos'[d])
      <4>1. Distintas(documentos[e], pedido[p].lido)
        BY <1>0, <3>1, <3>2 DEF RevisoesCertas
      <4>. QED
        BY <1>1, <3>1, <3>2, <4>1, DistintasSempre
    <3>3. RevisaoUnica'
      <4> SUFFICES ASSUME NEW x \in Rascunhos \ gemeos', NEW y \in Rascunhos, x # y,
                          Existe(x)', Existe(y)', MesmaSerie(documentos'[x], documentos'[y])
                   PROVE  documentos'[x].rev # documentos'[y].rev
        BY DEF RevisaoUnica
      <4>1. x \notin gemeos /\ (Existe(x) \/ x = d) /\ (Existe(y) \/ y = d)
        BY <2>2, <3>1
      <4>2. CASE Existe(x) /\ Existe(y)
        BY <1>0, <1>1, <4>1, <4>2 DEF RevisoesCertas, RevisaoUnica, MesmaSerie, MesmoDocumento
      <4>3. CASE x = d /\ Existe(y)
        <5>1. Distintas(documentos'[y], documentos'[d])
          BY <3>2, <4>1, <4>3
        <5>. QED
          BY <4>3, <5>1 DEF Distintas, MesmaSerie
      <4>4. CASE Existe(x) /\ y = d
        BY <3>2, <4>1, <4>4 DEF Distintas
      <4>. QED
        BY <3>1, <4>1, <4>2, <4>3, <4>4
    <3>4. \A q \in Pedidos : Rascunhando(q)' => /\ q # p /\ Rascunhando(q) /\ pedido'[q] = pedido[q]
                                                /\ d \in gemeos /\ pedido[q].doc \in gemeos
      BY <1>0, <2>1, <3>1 DEF RevisoesCertas, Rascunhando, Outros
    <3>5. ASSUME NEW q \in Pedidos, NEW x \in Rascunhos, Rascunhando(q)', Existe(x)',
                 x \notin gemeos' \/ pedido'[q].doc \notin gemeos'
          PROVE  Distintas(documentos'[x], pedido'[q].lido)
      <4>1. Rascunhando(q) /\ pedido'[q] = pedido[q] /\ x # d /\ Existe(x)
        BY <2>2, <3>1, <3>4, <3>5
      <4>2. Distintas(documentos[x], pedido[q].lido)
        BY <1>0, <3>1, <3>5, <4>1 DEF RevisoesCertas
      <4>. QED
        BY <1>1, <4>1, <4>2, DistintasSempre
    <3>6. \A z, q \in Pedidos : Rascunhando(z)' /\ Rascunhando(q)' /\ z # q =>
             pedido'[z].doc \in gemeos'
      BY <3>1, <3>4
    <3>. QED
      BY <3>3, <3>5, <3>6 DEF RevisoesCertas
  <2>4. ASSUME ~CriarDocumento(p), UNCHANGED gemeos, Rascunhando(p)' => Rascunhando(p),
               Rascunhando(p)' => pedido'[p] = pedido[p]
        PROVE  RevisoesCertas'
    <3>1. \A d \in Rascunhos : Existe(d)' => Existe(d)
      BY <2>2, <2>4
    <3>2. \A q \in Pedidos : Rascunhando(q)' => Rascunhando(q) /\ pedido'[q] = pedido[q]
      BY <2>1, <2>4 DEF Outros, Rascunhando
    <3>3. RevisaoUnica'
      BY <1>0, <1>1, <2>4, <3>1 DEF RevisoesCertas, RevisaoUnica, MesmaSerie, MesmoDocumento
    <3>4. ASSUME NEW q \in Pedidos, NEW d \in Rascunhos, Rascunhando(q)', Existe(d)',
                 d \notin gemeos' \/ pedido'[q].doc \notin gemeos'
          PROVE  Distintas(documentos'[d], pedido'[q].lido)
      <4>1. /\ Rascunhando(q) /\ Existe(d) /\ pedido'[q] = pedido[q]
            /\ Distintas(documentos[d], pedido[q].lido)
        BY <1>0, <2>4, <3>1, <3>2, <3>4 DEF RevisoesCertas
      <4>. QED
        BY <1>1, <4>1, DistintasSempre
    <3>5. \A z, q \in Pedidos : Rascunhando(z)' /\ Rascunhando(q)' /\ z # q =>
             pedido'[z].doc \in gemeos'
      BY <1>0, <2>4, <3>2 DEF RevisoesCertas
    <3>. QED
      BY <3>3, <3>4, <3>5 DEF RevisoesCertas
  <2>5. ASSUME NEW d \in Docs, NEW t \in Tipos, NEW dia \in Dias, LerRevisoes(p, d, t, dia)
        PROVE  RevisoesCertas'
    <3>1. /\ pc[p] = "livre" /\ pc'[p] = "rascunho" /\ pedido'[p].doc = d
          /\ \A q \in Pedidos : Rascunhando(q) => {d, pedido[q].doc} \subseteq gemeos'
          /\ UNCHANGED documentos
      BY <1>0, <2>5, NovoRascunho
    <3>2. \A x \in Docs : Existe(x)' <=> Existe(x)
      BY <3>1 DEF Existe
    <3>3. RevisaoUnica'
      BY <1>0, <2>1, <3>1, <3>2 DEF RevisoesCertas, RevisaoUnica, Docs
    <3>4. ASSUME NEW q \in Pedidos, NEW x \in Rascunhos, Rascunhando(q)', Existe(x)',
                 x \notin gemeos' \/ pedido'[q].doc \notin gemeos'
          PROVE  Distintas(documentos'[x], pedido'[q].lido)
      <4>1. x \in Docs /\ Existe(x)
        BY <3>2, <3>4 DEF Docs
      <4>2. CASE q = p
        BY <1>0, <2>5, <3>1, <4>1, <4>2, RevisaoNova
      <4>3. CASE q # p
        BY <1>0, <2>1, <3>1, <3>4, <4>1, <4>3 DEF RevisoesCertas, Outros, Rascunhando
      <4>. QED
        BY <4>2, <4>3
    <3>5. ASSUME NEW z \in Pedidos, NEW q \in Pedidos, Rascunhando(z)', Rascunhando(q)', z # q
          PROVE  pedido'[z].doc \in gemeos'
      <4>1. CASE z = p
        BY <2>1, <3>1, <3>5, <4>1 DEF Outros, Rascunhando
      <4>2. CASE z # p
        <5>1. Rascunhando(z) /\ pedido'[z] = pedido[z]
          BY <2>1, <3>5, <4>2 DEF Outros, Rascunhando
        <5>. QED
          BY <3>1, <5>1
      <4>. QED
        BY <4>1, <4>2
    <3>. QED
      BY <3>3, <3>4, <3>5 DEF RevisoesCertas
  <2>6. CASE Guardar(p) \/ GravarAprovacao(p)
    <3>1. UNCHANGED <<pedido, gemeos>> /\ ~CriarDocumento(p)
      BY <2>6 DEF Guardar, GuardarRascunho, GuardarEdicao, PublicarVerificada,
         GravarAprovacao, CriarDocumento
    <3>2. Rascunhando(p)' => Rascunhando(p)
      BY <1>0, <2>6, Depositando, RegistroDaAprovacao DEF Rascunhando
    <3>. QED
      BY <2>4, <3>1, <3>2
  <2>7. ASSUME ~Rascunhando(p)', UNCHANGED gemeos PROVE RevisoesCertas'
    BY <2>3, <2>4, <2>7
  <2>8. ASSUME NEW d \in Docs, Ler(p, d) PROVE RevisoesCertas'
    BY <1>0, <2>7, <2>8, Lendo DEF Rascunhando
  <2>9. CASE Publicar(p)
    BY <1>0, <2>7, <2>9, PublicacaoNoBucket DEF Rascunhando
  <2>10. CASE VerificarChave(p)
    BY <1>0, <2>7, <2>10, Verificacao DEF Rascunhando
  <2>11. CASE GravarEdicao(p)
    BY <1>0, <2>7, <2>11, RegistroDaEdicao DEF Rascunhando
  <2>12. ASSUME NEW a \in BOOLEAN, GravarDecisao(p, a) PROVE RevisoesCertas'
    BY <1>0, <2>7, <2>12, RegistroDaDecisao DEF Rascunhando
  <2>13. CASE GravarFinal(p)
    BY <1>0, <2>7, <2>13, RegistroDoFinal DEF Rascunhando
  <2>14. CASE Desistir(p)
    BY <1>0, <2>7, <2>14, Desistindo DEF Rascunhando
  <2>. QED
    BY <1>5, <2>3, <2>5, <2>6, <2>8, <2>9, <2>10, <2>11, <2>12, <2>13, <2>14 DEF Andar
<1>. QED
  BY <1>3, <1>4, <1>5, Grupos

LEMMA InvRSempre == Spec => []InvR
<1>1. Init => InvR
  <2>1. Init => RevisoesCertas
    BY DEF Init, RevisoesCertas, RevisaoUnica, Rascunhando, Existe, SemLinha, Docs
  <2>. QED
    BY <2>1, InicioInvP DEF InvR
<1>2. InvR /\ [Next]_vars => InvR'
  BY PassoInvP, PassoRevisoes DEF InvR
<1>. QED
  BY <1>1, <1>2, PTL DEF Spec

(* The draft of a documento gets a number nobody has in its series, but    *)
(* for drafts requested together; so no other draft takes the final key    *)
(* of an approved one.                                                     *)
THEOREM RevisaoSemprePropria == Spec => []RevisaoPropria
<1>1. InvR => RevisaoPropria
  <2>1. ASSUME InvR, NEW d \in Rascunhos \ gemeos, documentos[d].status = "APROVADO",
               NEW k, k = ChaveFinal(documentos[d], slug), bucket[k] # Nenhum,
               bucket[k].dono \notin {d} \cup Triados
        PROVE  FALSE
    <3> DEFINE e == bucket[k].dono
    <3>1. TypeOK /\ LinhasCertas /\ FinalDecidido /\ RevisaoUnica
      BY <2>1 DEF InvR, InvP, FinalAprovado, RevisoesCertas
    <3>2. d \in Docs /\ Existe(d)
      BY <2>1 DEF Docs, Existe
    <3>3. k \in Finais /\ k \in Chaves
      BY <2>1, <3>1, <3>2, TiposDaLinha, TipoFinal DEF TypeOK, Finais
    <3>4. e \in Docs /\ e \in Rascunhos /\ e # d
      BY <2>1, <3>1, <3>3, TiposDoObjeto DEF Docs
    <3>5. Existe(e) /\ k = ChaveFinal(documentos[e], k.slug)
      BY <2>1, <3>1, <3>3, <3>4 DEF FinalDecidido, LinhasCertas
    <3>6. documentos[d].dia # Nenhum /\ documentos[e].dia # Nenhum
      BY <2>1, <3>1, <3>2, <3>4, <3>5 DEF LinhasCertas, LinhaCerta
    <3>7. MesmoDocumento(documentos[d], documentos[e])
      <4> HIDE DEF e
      <4>. QED
        BY <2>1, <3>5, <3>6 DEF ChaveFinal, MesmoDocumento
    <3>. QED
      BY <3>1, <3>2, <3>4, <3>5, <3>7 DEF RevisaoUnica, MesmaSerie, MesmoDocumento
  <2>. QED
    BY <2>1 DEF RevisaoPropria, AprovadoPublicavel, InvR, RevisoesCertas, Livre
<1>. QED
  BY <1>1, InvRSempre, PTL

-----------------------------------------------------------------------------
(* Documentos in peace: their row and their object change only by their    *)
(* own request.                                                            *)

LEMMA LinhaAlheia ==
    ASSUME Base, NEW p \in Pedidos, Andar(p), NEW x \in Docs, x # pedido[p].doc
    PROVE  documentos'[x] = documentos[x]
<1>1. CASE CriarDocumento(p)
  BY <1>1, Insercao
<1>2. CASE GravarEdicao(p)
  BY <1>2, RegistroDaEdicao
<1>3. ASSUME NEW a \in BOOLEAN, GravarDecisao(p, a) PROVE documentos'[x] = documentos[x]
  BY <1>3, RegistroDaDecisao
<1>4. CASE GravarFinal(p)
  BY <1>4, RegistroDoFinal
<1>5. CASE UNCHANGED documentos
  BY <1>5
<1>. QED
  BY <1>1, <1>2, <1>3, <1>4, <1>5 DEF Andar, LerRevisoes, Ler, LerEdicao, LerDecisao,
     LerFinalizacao, LerAprovacao, LerDocumento, Guardar, GuardarRascunho, GuardarEdicao,
     PublicarVerificada, GravarAprovacao, Publicar, VerificarChave, Desistir,
     ConflitarFinal, Cair

(* The request of a documento starts on it alone or disputes it, goes on   *)
(* with what it read, or ends.                                             *)
LEMMA PedidoSegue ==
    ASSUME Base, NEW p \in Pedidos, Andar(p)
    PROVE  /\ disputa \subseteq disputa' /\ gemeos \subseteq gemeos'
           /\ \/ pc'[p] = "livre" /\ pedido'[p] = SemPedido
              \/ /\ pedido'[p].doc = pedido[p].doc /\ pedido'[p].lido = pedido[p].lido
                 /\ UNCHANGED documentos /\ (Operando(p)' <=> Operando(p)) /\ pc[p] # "livre"
              \/ /\ pc[p] = "livre" /\ pedido'[p].doc \in Docs
                 /\ \A q \in Pedidos : pedido[q].doc = pedido'[p].doc => pedido'[p].doc \in disputa'
                 /\ Operando(p)' => pedido'[p].lido = documentos[pedido'[p].doc]
                 /\ UNCHANGED documentos
<1>1. ASSUME NEW d \in Docs, NEW t \in Tipos, NEW dia \in Dias, LerRevisoes(p, d, t, dia)
      PROVE  /\ disputa \subseteq disputa' /\ gemeos \subseteq gemeos'
             /\ pc[p] = "livre" /\ pedido'[p].doc \in Docs
             /\ \A q \in Pedidos : pedido[q].doc = pedido'[p].doc => pedido'[p].doc \in disputa'
             /\ ~Operando(p)' /\ UNCHANGED documentos
  BY <1>1, NovoRascunho DEF Operando
<1>2. ASSUME NEW d \in Docs, Ler(p, d)
      PROVE  /\ disputa \subseteq disputa' /\ gemeos \subseteq gemeos'
             /\ pc[p] = "livre" /\ pedido'[p].doc \in Docs
             /\ \A q \in Pedidos : pedido[q].doc = pedido'[p].doc => pedido'[p].doc \in disputa'
             /\ pedido'[p].lido = documentos[pedido'[p].doc] /\ UNCHANGED documentos
  BY <1>2, Lendo
<1>3. CASE Guardar(p)
  BY <1>3, Depositando DEF Operando
<1>4. CASE GravarAprovacao(p)
  BY <1>4, RegistroDaAprovacao DEF Operando
<1>5. CASE Publicar(p)
  BY <1>5, PublicacaoNoBucket DEF Operando, ProntoParaPublicar
<1>6. CASE VerificarChave(p)
  BY <1>6, Verificacao DEF Operando, ProntoParaPublicar
<1>7. CASE CriarDocumento(p) \/ Desistir(p)
  BY <1>7, Insercao, Desistindo
<1>8. CASE GravarEdicao(p)
  BY <1>8, RegistroDaEdicao
<1>9. ASSUME NEW a \in BOOLEAN, GravarDecisao(p, a)
      PROVE  /\ disputa \subseteq disputa' /\ gemeos \subseteq gemeos'
             /\ pc'[p] = "livre" /\ pedido'[p] = SemPedido
  BY <1>9, RegistroDaDecisao
<1>10. CASE GravarFinal(p)
  BY <1>10, RegistroDoFinal
<1>. QED
  BY <1>1, <1>2, <1>3, <1>4, <1>5, <1>6, <1>7, <1>8, <1>9, <1>10 DEF Andar

LEMMA PassoEmPaz ==
    ASSUME Base, EmPaz, [Next]_vars
    PROVE  EmPaz'
<1>0. \A q \in Pedidos : PedidoCerto(q)
  BY DEF Base, PedidosCertos
<1>1. CASE UNCHANGED <<pc, pedido, documentos, disputa>>
  BY <1>1 DEF EmPaz, Operando
<1>2. ASSUME NEW d \in Triados, ArquivarTriado(d) PROVE EmPaz'
  <2>1. /\ ~Existe(d) /\ \A x \in Docs \ {d} : documentos'[x] = documentos[x]
        /\ UNCHANGED <<pc, pedido, disputa>>
    BY <1>2, Triagem DEF ArquivarTriado
  <2>2. \A q \in Pedidos : Operando(q) => pedido[q].doc \in Docs \ {d}
    BY <1>0, <2>1 DEF PedidoCerto
  <2>. QED
    BY <2>1, <2>2 DEF EmPaz, Operando
<1>3. ASSUME NEW p \in Pedidos, Andar(p) PROVE EmPaz'
  <2>0. Outros(p) /\ disputa \subseteq disputa' /\ Nenhum \notin Docs
    BY <1>3, Alheios, PedidoSegue, NenhumAssumption
  <2>1. ASSUME NEW q \in Pedidos, NEW z \in Pedidos,
               pedido'[q].doc \in Docs \ disputa', pedido'[z].doc = pedido'[q].doc, q # z
        PROVE  FALSE
    <3>1. CASE q # p /\ z # p
      BY <2>0, <2>1, <3>1 DEF EmPaz, Outros
    <3>2. ASSUME NEW o \in Pedidos \ {p}, pedido'[o].doc = pedido'[p].doc,
                 pedido'[p].doc \in Docs \ disputa'
          PROVE  FALSE
      <4>1. pedido'[o] = pedido[o]
        BY <2>0, <3>2 DEF Outros
      <4>2. pedido'[p].doc = pedido[p].doc
        BY <1>3, <2>0, <3>2, <4>1, PedidoSegue DEF SemPedido
      <4>. QED
        BY <2>0, <3>2, <4>1, <4>2 DEF EmPaz
    <3>. QED
      BY <2>1, <3>1, <3>2
  <2>2. ASSUME NEW q \in Pedidos, Operando(q)', pedido'[q].doc \notin disputa'
        PROVE  pedido'[q].lido = documentos'[pedido'[q].doc]
    <3>1. CASE q = p
      <4>1. pc'[p] # "livre"
        BY <2>2, <3>1 DEF Operando
      <4>2. UNCHANGED documentos
        BY <1>3, <4>1, PedidoSegue
      <4>. QED
        BY <1>3, <2>0, <2>2, <3>1, <4>1, <4>2, PedidoSegue DEF EmPaz
    <3>2. CASE q # p
      <4>1. /\ Operando(q) /\ pedido'[q] = pedido[q] /\ pedido[q].doc \in Docs \ disputa
        BY <1>0, <2>0, <2>2, <3>2 DEF Outros, Operando, PedidoCerto
      <4>2. pedido[q].doc # pedido[p].doc
        BY <3>2, <4>1 DEF EmPaz
      <4>. QED
        BY <1>3, <4>1, <4>2, LinhaAlheia DEF EmPaz
    <3>. QED
      BY <3>1, <3>2
  <2>. QED
    BY <2>1, <2>2 DEF EmPaz
<1>4. CASE (\E s \in Slugs : Renomear(s)) \/ ReceberFoto \/ UNCHANGED vars
  BY <1>1, <1>4 DEF Renomear, ReceberFoto, vars
<1>. QED
  BY <1>2, <1>3, <1>4, Grupos

(* Two rows that name the same draft are of one series and number.         *)
LEMMA MesmaChave ==
    ASSUME NEW r, NEW s, NEW d \in Docs, NEW e \in Docs, NEW D, NEW E,
           LinhaCerta(r, d, D), LinhaCerta(s, e, E),
           r.chave = s.chave, r.chave \in Chaves, ~Final(r.chave)
    PROVE  MesmoDocumento(r, s) /\ d \in Rascunhos /\ e \in Rascunhos
<1>1. r.chave # Nenhum /\ r.chave.dia \in Dias /\ Nenhum \notin Dias
  BY CamposDaChave, DocumentosAssumption
<1>2. /\ r.chave = ChaveRascunho(r.tipo, r.chave.slug, r.dia, r.rev)
      /\ s.chave = ChaveRascunho(s.tipo, s.chave.slug, s.dia, s.rev)
  BY <1>1 DEF LinhaCerta
<1>3. /\ r.chave.tipo = r.tipo /\ r.chave.dia = r.dia /\ r.chave.rev = r.rev
      /\ s.chave.tipo = s.tipo /\ s.chave.dia = s.dia /\ s.chave.rev = s.rev
  BY <1>2 DEF ChaveRascunho
<1>4. d \notin Triados /\ e \notin Triados
  BY <1>1, <1>3 DEF LinhaCerta
<1>. QED
  BY <1>3, <1>4 DEF MesmoDocumento, Docs

(* The key a request puts a draft or an edit under.                        *)
LEMMA ChaveGuardada ==
    ASSUME InvP, UmProcesso, NEW p \in Pedidos, Guardar(p)
    PROVE  /\ pc[p] \in {"rascunho", "edicao"} /\ pedido[p].doc \in Docs
           /\ pedido[p].chave \in Chaves /\ pedido[p].lido.chave = pedido[p].chave
           /\ LinhaCerta(pedido[p].lido, pedido[p].doc, decididos)
           /\ pc[p] = "rascunho" => Rascunhando(p) /\ ~Final(pedido[p].chave)
           /\ pc[p] = "edicao" =>
                 /\ Operando(p) /\ Existe(pedido[p].doc)
                 /\ MesmoDocumento(pedido[p].lido, documentos[pedido[p].doc])
<1>1. Base /\ PedidoCerto(p)
  BY DEF InvP, Base, PedidosCertos
<1>2. /\ pc[p] \in {"rascunho", "edicao", "verificada"} /\ pedido[p].doc \in Docs
      /\ pedido[p].chave \in Chaves
  BY <1>1, Depositando
<1>3. pc[p] # "verificada"
  BY <1>1 DEF PedidoCerto
<1>4. CASE pc[p] = "rascunho"
  <2>1. Rascunhando(p)
    BY <1>4 DEF Rascunhando
  <2>. QED
    BY <1>1, <1>2, <1>4, <2>1 DEF PedidoCerto
<1>5. CASE pc[p] = "edicao"
  <2>1. Operando(p)
    BY <1>5 DEF Operando
  <2>. QED
    BY <1>1, <1>2, <1>5, <2>1 DEF PedidoCerto
<1>. QED
  BY <1>2, <1>3, <1>4, <1>5

(* No other documento puts anything under the key of a row in peace.       *)
LEMMA ChaveDaLinha ==
    ASSUME InvD, RevisoesCertas, UmProcesso, NEW p \in Pedidos, Guardar(p),
           NEW d \in Docs \ gemeos, d # pedido[p].doc, documentos[d].chave # Nenhum
    PROVE  documentos[d].chave # pedido[p].chave
<1> SUFFICES ASSUME documentos[d].chave = pedido[p].chave PROVE FALSE
  OBVIOUS
<1> DEFINE k == pedido[p].chave
           e == pedido[p].doc
           r == pedido[p].lido
<1>0. InvP /\ LinhasCertas /\ DonosDosFinais /\ TypeOK
  BY DEF InvD, InvP
<1>1. /\ pc[p] \in {"rascunho", "edicao"} /\ e \in Docs
      /\ k \in Chaves /\ r.chave = k /\ LinhaCerta(r, e, decididos)
      /\ pc[p] = "rascunho" => Rascunhando(p) /\ ~Final(k)
      /\ pc[p] = "edicao" => Operando(p) /\ Existe(e) /\ MesmoDocumento(r, documentos[e])
  BY <1>0, ChaveGuardada
<1>2. Existe(d) /\ LinhaCerta(documentos[d], d, decididos)
  BY <1>0 DEF LinhasCertas, SemLinha
<1>3. CASE Final(k)
  <2>1. bucket[k].dono = d /\ bucket[k].dono = e
    BY <1>0, <1>3 DEF DonosDosFinais
  <2>. QED
    BY <2>1
<1>4. CASE ~Final(k)
  <2>1. MesmoDocumento(documentos[d], r) /\ d \in Rascunhos /\ e \in Rascunhos
    BY <1>1, <1>2, <1>4, MesmaChave
  <2>2. CASE pc[p] = "rascunho"
    <3>1. Distintas(documentos[d], r)
      BY <1>1, <1>2, <2>1, <2>2 DEF RevisoesCertas
    <3>. QED
      BY <2>1, <3>1 DEF Distintas, MesmaSerie, MesmoDocumento
  <2>3. CASE pc[p] = "edicao"
    <3>1. MesmoDocumento(documentos[d], documentos[e]) /\ Existe(e)
      BY <1>1, <2>1, <2>3 DEF MesmoDocumento
    <3>. QED
      BY <1>2, <2>1, <3>1 DEF RevisoesCertas, RevisaoUnica, MesmaSerie, MesmoDocumento
  <2>. QED
    BY <1>1, <2>2, <2>3
<1>. QED
  BY <1>3, <1>4

(* Nor under the key of a draft in progress.                               *)
LEMMA ChaveDoRascunho ==
    ASSUME InvD, RevisoesCertas, UmProcesso, NEW p \in Pedidos, Guardar(p),
           NEW q \in Pedidos \ {p}, Rascunhando(q), pedido[q].doc \notin gemeos
    PROVE  pedido[q].chave # pedido[p].chave
<1> SUFFICES ASSUME pedido[q].chave = pedido[p].chave PROVE FALSE
  OBVIOUS
<1> DEFINE k == pedido[p].chave
           e == pedido[p].doc
           r == pedido[p].lido
           s == pedido[q].lido
           d == pedido[q].doc
<1>0. InvP /\ PedidoCerto(q) /\ TypeOK
  BY DEF InvD, InvP, PedidosCertos
<1>1. /\ pc[p] \in {"rascunho", "edicao"} /\ e \in Docs
      /\ k \in Chaves /\ r.chave = k /\ LinhaCerta(r, e, decididos)
      /\ pc[p] = "rascunho" => Rascunhando(p)
      /\ pc[p] = "edicao" => Operando(p) /\ Existe(e) /\ MesmoDocumento(r, documentos[e])
  BY <1>0, ChaveGuardada
<1>2. LinhaCerta(s, d, decididos) /\ s.chave = k /\ ~Final(k) /\ d \in Docs
  BY <1>0 DEF PedidoCerto, Docs
<1>3. pc[p] = "edicao" /\ Existe(e)
  BY <1>1 DEF RevisoesCertas
<1>4. MesmoDocumento(r, s) /\ e \in Rascunhos
  BY <1>1, <1>2, MesmaChave
<1>5. Distintas(documentos[e], s)
  BY <1>3, <1>4 DEF RevisoesCertas
<1>. QED
  BY <1>1, <1>3, <1>4, <1>5 DEF Distintas, MesmaSerie, MesmoDocumento

LEMMA ObjetoIntacto ==
    ASSUME Base, NEW p \in Pedidos, Andar(p), NEW k \in Chaves, bucket[k] # Nenhum,
           Guardar(p) => k # pedido[p].chave
    PROVE  bucket'[k] = bucket[k]
<1>1. CASE Guardar(p)
  BY <1>1, Depositando
<1>2. CASE Publicar(p)
  BY <1>2, PublicacaoNoBucket
<1>. QED
  BY <1>1, <1>2 DEF Andar, LerRevisoes, Ler, LerEdicao, LerDecisao, LerFinalizacao,
     LerAprovacao, LerDocumento, CriarDocumento, GravarEdicao, GravarDecisao,
     GravarAprovacao, VerificarChave, GravarFinal, Desistir, ConflitarFinal, Cair

(* The object of a documento in peace, its own steps apart.                *)
LEMMA LinhaEmPaz ==
    ASSUME InvD, RevisoesCertas, UmProcesso, NEW p \in Pedidos, Andar(p),
           NEW d \in Docs \ gemeos, d # pedido[p].doc, documentos[d].chave # Nenhum
    PROVE  /\ documentos'[d] = documentos[d]
           /\ bucket'[documentos[d].chave] = bucket[documentos[d].chave]
<1>1. Base /\ InvP
  BY DEF InvD, InvP, Base
<1>2. documentos[d].chave \in Chaves /\ bucket[documentos[d].chave] # Nenhum
  BY <1>1, FinaisEmUso
<1>3. Guardar(p) => documentos[d].chave # pedido[p].chave
  BY ChaveDaLinha
<1>. QED
  BY <1>1, <1>2, <1>3, LinhaAlheia, ObjetoIntacto

(* What a request has put is still there when it records it.               *)
LEMMA GuardadaFica ==
    ASSUME InvH, UmProcesso, NEW p \in Pedidos, Andar(p), NEW q \in Pedidos \ {p},
           Guardada(q)
    PROVE  bucket'[pedido[q].chave] = bucket[pedido[q].chave]
<1> DEFINE d == pedido[q].doc
           k == pedido[q].chave
<1>0. /\ InvD /\ RevisoesCertas /\ EmPaz /\ InvP /\ Base /\ DonosDosFinais
      /\ PedidoCerto(q) /\ PedidoCerto(p) /\ TypeOK
  BY DEF InvH, InvD, InvR, InvP, Base, PedidosCertos
<1>1. d \in Docs /\ d \notin gemeos /\ d \notin disputa
  BY DEF Guardada, Incontestes
<1>2. d # pedido[p].doc
  BY <1>0, <1>1 DEF EmPaz
<1>3. CASE pc[q] = "rascunhoGuardado"
  <2>1. Rascunhando(q)
    BY <1>3 DEF Rascunhando
  <2>2. k \in Chaves /\ bucket[k] # Nenhum
    BY <1>0, <1>1, <1>3, <2>1, TiposDoPedido DEF InvP, ObjetosGuardados, PedidoCerto, LinhaCerta
  <2>. QED
    BY <1>0, <1>1, <2>1, <2>2, ChaveDoRascunho, ObjetoIntacto
<1>4. CASE pc[q] = "edicaoGuardada"
  <2>1. /\ k # Nenhum /\ k = pedido[q].lido.chave /\ pedido[q].lido = documentos[d]
    BY <1>0, <1>1, <1>4 DEF PedidoCerto, Operando, EmPaz
  <2>. QED
    BY <1>0, <1>1, <1>2, <2>1, LinhaEmPaz
<1>5. CASE pc[q] = "publicada"
  <2>1. k # Nenhum /\ Final(k)
    BY <1>0, <1>5 DEF PedidoCerto
  <2>2. k \in Chaves /\ bucket[k] # Nenhum /\ bucket[k].dono = d
    BY <1>0, <2>1, FinaisEmUso DEF DonosDosFinais
  <2>3. Guardar(p) => k # pedido[p].chave
    BY <1>0, <1>2, <2>1, <2>2 DEF DonosDosFinais
  <2>. QED
    BY <1>0, <2>2, <2>3, ObjetoIntacto
<1>. QED
  BY <1>3, <1>4, <1>5 DEF Guardada

LEMMA PassoGuardada ==
    ASSUME InvH, UmProcesso, NEW p \in Pedidos, Andar(p), NEW q \in Pedidos, Guardada(q)'
    PROVE  ObjetoDoPedido(q)'
<1>0. Base /\ Outros(p) /\ disputa \subseteq disputa' /\ gemeos \subseteq gemeos'
  BY Alheios, PedidoSegue DEF InvH, InvD, InvP, Base
<1>1. CASE q # p
  <2>1. pc'[q] = pc[q] /\ pedido'[q] = pedido[q] /\ Guardada(q)
    BY <1>0, <1>1 DEF Outros, Guardada, Incontestes
  <2>2. ObjetoDoPedido(q)
    BY <2>1 DEF InvH, GravadosCertos
  <2>3. bucket'[pedido[q].chave] = bucket[pedido[q].chave]
    BY <1>1, <2>1, GuardadaFica
  <2>. QED
    BY <2>1, <2>2, <2>3 DEF ObjetoDoPedido
<1>2. CASE q = p
  <2>0. pc'[p] \in {"rascunhoGuardado", "edicaoGuardada", "publicada"}
    BY <1>2 DEF Guardada
  <2>1. CASE Guardar(p)
    <3>1. /\ bucket'[pedido[p].chave] = [conteudo |-> pedido[p].conteudo,
                                          dono |-> pedido[p].doc]
          /\ UNCHANGED pedido
      BY <1>0, <2>1, Depositando
    <3>. QED
      BY <1>2, <3>1 DEF ObjetoDoPedido
  <2>2. CASE Publicar(p)
    <3> DEFINE k == ChaveFinal(pedido[p].lido, slug)
               c == ConteudoFinal(pedido[p].lido)
    <3>1. /\ bucket'[k] = [conteudo |-> c, dono |-> pedido[p].doc]
          /\ pedido'[p].doc = pedido[p].doc
          /\ pedido'[p].chave = k /\ pedido'[p].conteudo = c
      BY <1>0, <2>2, PublicacaoNoBucket
    <3> HIDE DEF k, c
    <3>. QED
      BY <1>2, <3>1 DEF ObjetoDoPedido
  <2>3. ASSUME NEW d \in Docs, NEW t \in Tipos, NEW dia \in Dias, LerRevisoes(p, d, t, dia)
        PROVE  FALSE
    BY <1>0, <2>0, <2>3, NovoRascunho
  <2>4. ASSUME NEW d \in Docs, Ler(p, d) PROVE FALSE
    BY <1>0, <2>0, <2>4, Lendo
  <2>5. ~GravarAprovacao(p) /\ ~VerificarChave(p) /\ ~CriarDocumento(p)
    BY <1>0, <2>0, RegistroDaAprovacao, Verificacao, Insercao
  <2>6. ~GravarEdicao(p) /\ ~GravarFinal(p) /\ ~Desistir(p)
    BY <1>0, <2>0, RegistroDaEdicao, RegistroDoFinal, Desistindo
  <2>7. ASSUME NEW a \in BOOLEAN, GravarDecisao(p, a) PROVE FALSE
    BY <1>0, <2>0, <2>7, RegistroDaDecisao
  <2>. QED
    BY <2>1, <2>2, <2>3, <2>4, <2>5, <2>6, <2>7 DEF Andar
<1>. QED
  BY <1>1, <1>2

LEMMA PassoGravado ==
    ASSUME InvH, UmProcesso, NEW p \in Pedidos, Andar(p),
           NEW d \in Docs, d \in Incontestes', documentos'[d].chave # Nenhum
    PROVE  Gravado(d)'
<1>0. /\ Base /\ Outros(p) /\ disputa \subseteq disputa' /\ gemeos \subseteq gemeos'
      /\ InvD /\ InvP /\ RevisoesCertas /\ EmPaz /\ GravadosCertos /\ PedidoCerto(p)
      /\ LinhasCertas /\ RascunhosSos
  BY Alheios, PedidoSegue DEF InvH, InvR, InvD, InvP, Base, PedidosCertos
<1>1. d \in Incontestes /\ d \notin gemeos /\ d \notin disputa /\ d \notin disputa'
  BY <1>0 DEF Incontestes
(* A step that is not of the request of d.                                 *)
<1>2. CASE d # pedido[p].doc
  <2>1. documentos'[d] = documentos[d] /\ documentos[d].chave # Nenhum
    BY <1>0, <1>2, LinhaAlheia
  <2>2. bucket'[documentos[d].chave] = bucket[documentos[d].chave]
    BY <1>0, <1>1, <1>2, <2>1, LinhaEmPaz
  <2>3. SemEdicao(d)' => SemEdicao(d)
    BY <1>0, <1>2 DEF SemEdicao, Outros
  <2>4. Gravado(d)
    BY <1>0, <1>1, <2>1 DEF GravadosCertos
  <2>. QED
    BY <2>1, <2>2, <2>3, <2>4 DEF Gravado
<1>3. CASE d = pedido[p].doc
  <2>0. pc[p] # "livre"
    BY <1>0, <1>3, NenhumAssumption DEF PedidoCerto, SemPedido
  <2>1. ASSUME documentos'[d].chave = documentos[d].chave,
               documentos'[d].hash = documentos[d].hash,
               ~Guardar(p), pc[p] # "edicaoGuardada"
        PROVE  Gravado(d)'
    <3>1. Gravado(d) /\ documentos[d].chave # Nenhum
      BY <1>0, <1>1, <2>1 DEF GravadosCertos
    <3>2. SemEdicao(d)
      BY <1>0, <1>1, <1>3, <2>1 DEF EmPaz, SemEdicao
    <3>3. bucket'[documentos[d].chave] = bucket[documentos[d].chave]
      BY <1>0, <2>1, <3>1, FinaisEmUso, ObjetoIntacto
    <3>. QED
      BY <2>1, <3>1, <3>2, <3>3 DEF Gravado
  <2>2. ASSUME Guardada(p), bucket' = bucket,
               documentos'[d].chave = pedido[p].chave,
               documentos'[d].hash = pedido[p].conteudo
        PROVE  Gravado(d)'
    <3>1. ObjetoDoPedido(p)
      BY <1>0, <2>2 DEF GravadosCertos
    <3>. QED
      BY <1>3, <2>2, <3>1 DEF Gravado, ObjetoDoPedido
  <2>3. CASE Guardar(p)
    <3>1. /\ bucket'[pedido[p].chave] = [conteudo |-> pedido[p].conteudo, dono |-> d]
          /\ UNCHANGED <<documentos, pedido>>
          /\ pc[p] = "edicao" => pc'[p] = "edicaoGuardada"
      BY <1>0, <1>3, <2>3, Depositando
    <3>2. Existe(d)
      BY <1>0, <3>1 DEF LinhasCertas, SemLinha
    <3>3. pc[p] = "edicao" /\ Operando(p)
      BY <1>0, <1>3, <2>3, <3>2, ChaveGuardada DEF RascunhosSos
    <3>4. documentos[d].chave = pedido[p].chave
      BY <1>0, <1>1, <1>3, <3>3 DEF EmPaz, PedidoCerto
    <3>5. ~SemEdicao(d)'
      BY <1>3, <3>1, <3>3 DEF SemEdicao
    <3>. QED
      BY <3>1, <3>4, <3>5 DEF Gravado
  <2>4. CASE CriarDocumento(p)
    <3>1. /\ Rascunhando(p) /\ documentos'[d] = pedido[p].lido /\ UNCHANGED bucket
      BY <1>0, <1>3, <2>4, Insercao
    <3>2. pedido[p].lido.chave = pedido[p].chave /\ pedido[p].lido.hash = pedido[p].conteudo
      BY <1>0, <3>1 DEF PedidoCerto
    <3>3. Guardada(p)
      BY <1>1, <1>3, <2>4 DEF Guardada, CriarDocumento
    <3>. QED
      BY <2>2, <3>1, <3>2, <3>3
  <2>5. CASE GravarEdicao(p)
    <3>1. /\ pc[p] = "edicaoGuardada" /\ UNCHANGED bucket
          /\ documentos'[d].hash = pedido[p].conteudo
          /\ documentos'[d].chave = documentos[d].chave
      BY <1>0, <1>3, <2>5, RegistroDaEdicao
    <3>2. documentos[d].chave = pedido[p].chave
      BY <1>0, <1>1, <1>3, <3>1 DEF EmPaz, PedidoCerto, Operando
    <3>3. Guardada(p)
      BY <1>1, <1>3, <3>1 DEF Guardada
    <3>. QED
      BY <2>2, <3>1, <3>2, <3>3
  <2>6. ASSUME NEW a \in BOOLEAN, GravarDecisao(p, a) PROVE Gravado(d)'
    <3>1. /\ pc[p] = "decisao" /\ documentos'[d].hash = documentos[d].hash
          /\ documentos'[d].chave = documentos[d].chave
      BY <1>0, <1>3, <2>6, RegistroDaDecisao
    <3>2. ~Guardar(p)
      BY <3>1 DEF Guardar, GuardarRascunho, GuardarEdicao, PublicarVerificada
    <3>. QED
      BY <2>1, <3>1, <3>2
  <2>7. CASE GravarAprovacao(p) \/ Publicar(p) \/ Desistir(p)
    <3>1. pc[p] \in {"aprovacao", "finalizacao", "aprovada"}
      BY <1>0, <1>1, <1>3, <2>7, Desistindo DEF GravarAprovacao, Publicar, ProntoParaPublicar
    <3>2. ~Guardar(p)
      BY <3>1 DEF Guardar, GuardarRascunho, GuardarEdicao, PublicarVerificada
    <3>3. UNCHANGED documentos
      BY <2>7 DEF GravarAprovacao, Publicar, Desistir, ConflitarFinal, Cair
    <3>. QED
      BY <2>1, <3>1, <3>2, <3>3
  <2>8. CASE GravarFinal(p)
    <3>1. /\ pc[p] = "publicada" /\ UNCHANGED bucket
          /\ documentos'[d].hash = pedido[p].conteudo
          /\ documentos'[d].chave = pedido[p].chave
      BY <1>0, <1>3, <2>8, RegistroDoFinal
    <3>2. Guardada(p)
      BY <1>1, <1>3, <3>1 DEF Guardada
    <3>. QED
      BY <2>2, <3>1, <3>2
  <2>9. ~VerificarChave(p)
    BY DEF VerificarChave
  <2>10. \A x \in Docs, t \in Tipos, dia \in Dias : ~LerRevisoes(p, x, t, dia)
    BY <2>0 DEF LerRevisoes
  <2>11. \A x \in Docs : ~Ler(p, x)
    BY <2>0 DEF Ler, LerEdicao, LerDecisao, LerFinalizacao, LerAprovacao, LerDocumento
  <2>. QED
    BY <2>3, <2>4, <2>5, <2>6, <2>7, <2>8, <2>9, <2>10, <2>11 DEF Andar
<1>. QED
  BY <1>2, <1>3

LEMMA PassoGravados ==
    ASSUME InvH, [Next]_vars
    PROVE  GravadosCertos'
<1> SUFFICES ASSUME UmProcesso PROVE GravadosCertos'
  BY DEF GravadosCertos
<1>0. Base /\ GravadosCertos
  BY DEF InvH, InvD, InvP, Base
<1>1. CASE UNCHANGED <<pc, pedido, documentos, bucket, disputa, gemeos>>
  BY <1>0, <1>1 DEF GravadosCertos, Gravado, SemEdicao, Guardada, ObjetoDoPedido, Incontestes
<1>2. ASSUME NEW d \in Triados, ArquivarTriado(d) PROVE GravadosCertos'
  <2>1. /\ documentos'[d].chave = Nenhum
        /\ \A x \in Docs \ {d} : documentos'[x] = documentos[x]
        /\ UNCHANGED <<pc, pedido, bucket, disputa, gemeos>>
    BY <1>0, <1>2, Triagem DEF ArquivarTriado
  <2>. QED
    BY <1>0, <2>1 DEF GravadosCertos, Gravado, SemEdicao, Guardada, ObjetoDoPedido, Incontestes
<1>3. ASSUME NEW p \in Pedidos, Andar(p) PROVE GravadosCertos'
  <2>1. \A d \in Incontestes' : d \in Docs
    BY DEF Incontestes
  <2>. QED
    BY <1>3, <2>1, PassoGuardada, PassoGravado DEF GravadosCertos
<1>4. CASE (\E s \in Slugs : Renomear(s)) \/ ReceberFoto \/ UNCHANGED vars
  BY <1>1, <1>4 DEF Renomear, ReceberFoto, vars
<1>. QED
  BY <1>2, <1>3, <1>4, Grupos

LEMMA InvHSempre == Spec => []InvH
<1>1. Init => InvH
  <2>1. Init => InvD /\ InvR
    <3>1. Init => DonosDosFinais
      BY DEF Init, DonosDosFinais, SemLinha, SemPedido
    <3>2. Init => RevisoesCertas
      BY DEF Init, RevisoesCertas, RevisaoUnica, Rascunhando, Existe, SemLinha, Docs
    <3>. QED
      BY <3>1, <3>2, InicioInvP DEF InvD, InvR
  <2>2. Init => EmPaz
    BY NenhumAssumption DEF Init, EmPaz, Operando, SemPedido
  <2>3. Init => GravadosCertos
    BY DEF Init, GravadosCertos, Guardada, Incontestes, SemLinha
  <2>. QED
    BY <2>1, <2>2, <2>3 DEF InvH
<1>2. InvH /\ [Next]_vars => InvH'
  <2>. SUFFICES ASSUME InvH, [Next]_vars PROVE InvH'
    OBVIOUS
  <2>1. InvD' /\ InvR'
    BY PassoInvP, PassoDonos, PassoRevisoes DEF InvH, InvD, InvR
  <2>2. EmPaz' /\ GravadosCertos'
    BY PassoEmPaz, PassoGravados DEF InvH, InvD, InvP, Base
  <2>. QED
    BY <2>1, <2>2 DEF InvH
<1>. QED
  BY <1>1, <1>2, PTL DEF Spec

(* With one process, hash_sha256 of a documento in peace, with no request  *)
(* on it, is the hash of the object its row names.                         *)
THEOREM HashSempreConfere ==
    ASSUME UmProcesso
    PROVE  Spec => []HashConfere
<1>1. InvH => HashConfere
  <2>1. ASSUME InvH, NEW d \in Quietos, documentos[d].chave # Nenhum
        PROVE  documentos[d].hash = bucket[documentos[d].chave].conteudo
    <3>1. d \in Incontestes /\ SemEdicao(d)
      BY <2>1 DEF Quietos, EmCurso, SemEdicao
    <3>. QED
      BY <2>1, <3>1 DEF InvH, GravadosCertos, Gravado
  <2>. QED
    BY <2>1 DEF HashConfere
<1>. QED
  BY <1>1, InvHSempre, PTL

(* With one process, a published object changes only after a person took   *)
(* its documento back.                                                     *)
THEOREM FinalSempreMudaSoReaberto ==
    ASSUME UmProcesso
    PROVE  Spec => FinalMudaSoReaberto
<1>1. ASSUME InvH, [Next]_vars, NEW k \in Finais, bucket[k] # Nenhum,
             bucket'[k] # bucket[k], bucket[k].dono \notin disputa
      PROVE  documentos[bucket[k].dono].status \in {"REPROVADO", "EM_REVISAO"}
  <2>0. /\ InvD /\ InvP /\ Base /\ EmPaz /\ DonosDosFinais
        /\ k \in Chaves /\ Final(k) /\ k # Nenhum
    BY <1>1, CamposDaChave DEF InvH, InvD, InvP, Base, Finais
  <2>1. PICK p \in Pedidos : Andar(p)
    <3>1. ~UNCHANGED bucket
      BY <1>1
    <3>. QED
      BY <1>1, <3>1, Grupos DEF Renomear, ReceberFoto, ArquivarTriado, vars
  <2>2. Guardar(p) /\ k = pedido[p].chave
    BY <1>1, <2>0, <2>1, ObjetoIntacto
  <2>3. pc[p] = "edicao" /\ pedido[p].doc \in Docs /\ Operando(p)
    BY <2>0, <2>2, ChaveGuardada
  <2>4. bucket[k].dono = pedido[p].doc
    BY <2>0, <2>2 DEF DonosDosFinais
  <2>5. pedido[p].lido = documentos[pedido[p].doc]
    BY <1>1, <2>0, <2>3, <2>4 DEF EmPaz
  <2>6. /\ pedido[p].lido.status \in Editaveis /\ pedido[p].lido.chave = k
        /\ LinhaCerta(pedido[p].lido, pedido[p].doc, decididos)
    BY <2>0, <2>2, <2>3 DEF Base, PedidosCertos, PedidoCerto
  <2>. QED
    BY <2>0, <2>4, <2>5, <2>6 DEF LinhaCerta, Editaveis
<1>2. InvH /\ [Next]_vars =>
        [\A k \in Finais :
           /\ bucket[k] # Nenhum /\ bucket'[k] # bucket[k]
           /\ bucket[k].dono \notin disputa
           => documentos[bucket[k].dono].status \in {"REPROVADO", "EM_REVISAO"}]_vars
  BY <1>1
<1>. QED
  BY <1>2, InvHSempre, PTL DEF Spec, FinalMudaSoReaberto

-----------------------------------------------------------------------------
(* What is published is what was seen when it was approved.                *)

(* With an object under its key, what is seen is the object.               *)
LEMMA VistoIntacto ==
    ASSUME NEW d \in Docs, documentos'[d].chave = documentos[d].chave,
           documentos[d].chave # Nenhum =>
               bucket'[documentos[d].chave] = bucket[documentos[d].chave]
    PROVE  Visto(d)' = Visto(d)
BY DEF Visto

LEMMA VistosCrescem ==
    ASSUME Base, NEW p \in Pedidos, Andar(p), NEW d \in Docs
    PROVE  /\ vistos[d] \subseteq vistos'[d]
           /\ d # pedido[p].doc => vistos'[d] = vistos[d]
<1>1. ASSUME NEW a \in BOOLEAN, GravarDecisao(p, a)
      PROVE  /\ vistos[d] \subseteq vistos'[d]
             /\ d # pedido[p].doc => vistos'[d] = vistos[d]
  BY <1>1, RegistroDaDecisao
<1>2. CASE GravarAprovacao(p)
  BY <1>2, RegistroDaAprovacao
<1>3. CASE UNCHANGED vistos
  BY <1>3
<1>. QED
  BY <1>1, <1>2, <1>3 DEF Andar, LerRevisoes, Ler, LerEdicao, LerDecisao, LerFinalizacao,
     LerAprovacao, LerDocumento, Guardar, GuardarRascunho, GuardarEdicao,
     PublicarVerificada, CriarDocumento, GravarEdicao, Publicar, VerificarChave,
     GravarFinal, Desistir, ConflitarFinal, Cair

(* What is known of a documento in peace, its row and its request.         *)
VistaDaLinha(d) ==
    /\ documentos[d].status = "APROVADO" => Visto(d) \subseteq vistos[d]
    /\ Publicado(d, "rdo") => documentos[d].hash \in {Pdf(c) : c \in vistos[d]}
VistaDoPedido(p) ==
    LET d == pedido[p].doc IN
    /\ pc[p] = "aprovada" => Visto(d) \subseteq vistos[d]
    /\ pc[p] = "finalizacao" => pedido[p].lido.status = "APROVADO"
    /\ pc[p] = "publicada" /\ pedido[p].lido.tipo = "rdo" =>
          pedido[p].conteudo \in {Pdf(c) : c \in vistos[d]}

(* A step that is not of its request changes nothing of it.                *)
LEMMA VistaAlheia ==
    ASSUME InvV, UmProcesso, NEW p \in Pedidos, Andar(p),
           NEW d \in Docs, d \in Incontestes, d # pedido[p].doc
    PROVE  /\ VistaDaLinha(d) => VistaDaLinha(d)'
           /\ \A q \in Pedidos \ {p} : pedido[q].doc = d /\ VistaDoPedido(q) => VistaDoPedido(q)'
<1>0. InvD /\ RevisoesCertas /\ Base /\ Outros(p)
  BY Alheios DEF InvV, InvH, InvR, InvD, InvP, Base
<1>1. d \in Docs \ gemeos
  BY DEF Incontestes
<1>2. documentos'[d] = documentos[d]
  BY <1>0, LinhaAlheia
<1>3. documentos[d].chave # Nenhum =>
         bucket'[documentos[d].chave] = bucket[documentos[d].chave]
  BY <1>0, <1>1, LinhaEmPaz
<1>4. Visto(d)' = Visto(d)
  BY <1>2, <1>3, VistoIntacto
<1>5. vistos'[d] = vistos[d]
  BY <1>0, VistosCrescem
<1>6. VistaDaLinha(d) => VistaDaLinha(d)'
  BY <1>2, <1>4, <1>5 DEF VistaDaLinha, Publicado
<1>7. ASSUME NEW q \in Pedidos \ {p}, pedido[q].doc = d, VistaDoPedido(q)
      PROVE  VistaDoPedido(q)'
  <2>1. pc'[q] = pc[q] /\ pedido'[q] = pedido[q]
    BY <1>0 DEF Outros
  <2>2. Visto(pedido[q].doc)' = Visto(pedido[q].doc)
    BY <1>4, <1>7, <2>1 DEF Visto
  <2>. QED
    BY <1>5, <1>7, <2>1, <2>2 DEF VistaDoPedido
<1>. QED
  BY <1>6, <1>7

LEMMA PassoVista ==
    ASSUME InvV, UmProcesso, NEW p \in Pedidos, Andar(p),
           NEW d \in Docs, d \in Incontestes'
    PROVE  /\ VistaDaLinha(d)'
           /\ \A q \in Pedidos : pedido'[q].doc = d => VistaDoPedido(q)'
<1>0. /\ Base /\ TypeOK /\ Outros(p) /\ disputa \subseteq disputa' /\ gemeos \subseteq gemeos'
      /\ InvD /\ InvP /\ InvH /\ EmPaz /\ PedidoCerto(p) /\ RascunhosSos /\ LinhasCertas
  BY Alheios, PedidoSegue DEF InvV, InvH, InvD, InvP, Base, PedidosCertos
<1>1. d \in Incontestes /\ d \notin disputa /\ d \notin disputa' /\ d \notin gemeos
  BY <1>0 DEF Incontestes
<1>2. VistaDaLinha(d) /\ \A q \in Pedidos : pedido[q].doc = d => VistaDoPedido(q)
  BY <1>1 DEF InvV, VistosCertos, PublicaOAprovado, VistaDaLinha, VistaDoPedido
<1>3. CASE d # pedido[p].doc
  <2>1. VistaDaLinha(d)' /\ \A q \in Pedidos \ {p} : pedido[q].doc = d => VistaDoPedido(q)'
    BY <1>1, <1>2, <1>3, VistaAlheia
  <2>2. ASSUME pedido'[p].doc = d PROVE VistaDoPedido(p)'
    <3>1. pedido'[p].doc # pedido[p].doc /\ pedido'[p] # SemPedido
      BY <1>3, <2>2, NenhumAssumption DEF SemPedido
    <3>2. ASSUME NEW x \in Docs, NEW t \in Tipos, NEW dia \in Dias, LerRevisoes(p, x, t, dia)
          PROVE  VistaDoPedido(p)'
      BY <1>0, <3>2, NovoRascunho DEF VistaDoPedido
    <3>3. ASSUME NEW x \in Docs, Ler(p, x) PROVE VistaDoPedido(p)'
      <4>1. /\ pc'[p] \in {"edicao", "decisao", "finalizacao", "aprovacao"}
            /\ pedido'[p].lido = documentos[x]
            /\ pc'[p] = "finalizacao" => ExigeAprovacao(x)
        BY <1>0, <3>3, Lendo
      <4>. QED
        BY <4>1 DEF VistaDoPedido, ExigeAprovacao
    <3>4. pc[p] = "livre"
      BY <1>0, <3>1, PedidoSegue
    <3>. QED
      BY <3>2, <3>3, <3>4 DEF Andar, Guardar, GuardarRascunho, GuardarEdicao,
         PublicarVerificada, CriarDocumento, GravarEdicao, GravarDecisao, GravarAprovacao,
         Publicar, VerificarChave, GravarFinal, Desistir, ConflitarFinal, Cair,
         ProntoParaPublicar
  <2>. QED
    BY <1>0, <2>1, <2>2 DEF Outros
<1>4. CASE d = pedido[p].doc
  <2>1. \A q \in Pedidos \ {p} : pedido'[q].doc # d
    BY <1>0, <1>1, <1>4 DEF EmPaz, Outros
  <2>2. ASSUME VistaDaLinha(d)', pedido'[p].doc = d => VistaDoPedido(p)'
        PROVE  /\ VistaDaLinha(d)'
               /\ \A q \in Pedidos : pedido'[q].doc = d => VistaDoPedido(q)'
    BY <2>1, <2>2
  <2>3. ASSUME pedido'[p] = SemPedido PROVE pedido'[p].doc # d
    BY <2>3, NenhumAssumption DEF SemPedido
  <2>4. VistaDaLinha(d) /\ VistaDoPedido(p) /\ vistos[d] \subseteq vistos'[d]
    BY <1>0, <1>2, <1>4, VistosCrescem
  <2>5. pc[p] # "livre"
    BY <1>0, <1>4, NenhumAssumption DEF PedidoCerto, SemPedido
  <2>6. Operando(p) => pedido[p].lido = documentos[d]
    BY <1>0, <1>1, <1>4 DEF EmPaz
  (* Nothing of the row, what it shows or what was seen changes but to     *)
  (* grow.                                                                 *)
  <2>7. ASSUME UNCHANGED documentos, ~Guardar(p)
        PROVE  Visto(d)' = Visto(d) /\ VistaDaLinha(d)'
    <3>1. documentos[d].chave # Nenhum =>
             bucket'[documentos[d].chave] = bucket[documentos[d].chave]
      BY <1>0, <2>7, FinaisEmUso, ObjetoIntacto
    <3>2. Visto(d)' = Visto(d)
      BY <2>7, <3>1, VistoIntacto
    <3>. QED
      BY <2>4, <2>7, <3>2 DEF VistaDaLinha, Publicado
  <2>8. CASE Guardar(p)
    <3>1. /\ UNCHANGED <<documentos, pedido, vistos>>
          /\ pc'[p] \in {"rascunhoGuardado", "edicaoGuardada", "publicada"}
          /\ pc[p] = "rascunho" => pc'[p] = "rascunhoGuardado"
          /\ pc[p] = "edicao" => pc'[p] = "edicaoGuardada"
      BY <1>0, <2>8, Depositando
    <3>2. pc[p] \in {"rascunho", "edicao"}
      BY <1>0, <2>8, ChaveGuardada
    <3>3. documentos[d].status \notin {"APROVADO", "FINALIZADO_VALIDADO"}
      <4>1. CASE pc[p] = "rascunho"
        BY <1>0, <1>4, <4>1 DEF RascunhosSos, Rascunhando, Existe
      <4>2. CASE pc[p] = "edicao"
        <5>1. pedido[p].lido.status \in Editaveis /\ Operando(p)
          BY <1>0, <4>2 DEF PedidoCerto, Operando
        <5>. QED
          BY <2>6, <5>1 DEF Editaveis
      <4>. QED
        BY <3>2, <4>1, <4>2
    <3>4. VistaDaLinha(d)'
      BY <3>1, <3>3 DEF VistaDaLinha, Publicado
    <3>5. VistaDoPedido(p)'
      BY <3>1, <3>2 DEF VistaDoPedido
    <3>. QED
      BY <2>2, <3>4, <3>5
  <2>9. CASE CriarDocumento(p)
    <3>1. Rascunhando(p) /\ documentos'[d] = pedido[p].lido /\ pedido'[p] = SemPedido
      BY <1>0, <1>4, <2>9, Insercao
    <3>2. documentos'[d].status = "RASCUNHO_GERADO"
      BY <1>0, <3>1 DEF PedidoCerto
    <3>. QED
      BY <2>2, <2>3, <3>1, <3>2 DEF VistaDaLinha, Publicado
  <2>10. CASE GravarEdicao(p)
    <3>1. /\ pc[p] = "edicaoGuardada" /\ pedido'[p] = SemPedido
          /\ documentos'[d].status = StatusGravado(p, "EM_REVISAO")
      BY <1>0, <1>4, <2>10, RegistroDaEdicao
    <3>2. pedido[p].lido = documentos[d]
      BY <2>6, <3>1 DEF Operando
    <3>3. documentos'[d].status = "EM_REVISAO"
      BY <1>4, <3>1, <3>2 DEF StatusGravado
    <3>. QED
      BY <2>2, <2>3, <3>1, <3>3 DEF VistaDaLinha, Publicado
  <2>11. ASSUME NEW a \in BOOLEAN, GravarDecisao(p, a)
         PROVE  /\ VistaDaLinha(d)'
                /\ \A q \in Pedidos : pedido'[q].doc = d => VistaDoPedido(q)'
    <3>1. /\ pc[p] = "decisao" /\ pedido'[p] = SemPedido
          /\ documentos'[d].status = StatusGravado(p, Decisao(a))
          /\ documentos'[d].chave = documentos[d].chave
          /\ vistos'[d] = vistos[d] \cup (IF a THEN Visto(d) ELSE {})
          /\ UNCHANGED bucket
      BY <1>0, <1>4, <2>11, RegistroDaDecisao
    <3>2. pedido[p].lido = documentos[d]
      BY <2>6, <3>1 DEF Operando
    <3>3. documentos'[d].status = Decisao(a)
      BY <1>4, <3>1, <3>2 DEF StatusGravado
    <3>4. Visto(d)' = Visto(d)
      BY <3>1, VistoIntacto
    <3>. QED
      BY <2>2, <2>3, <3>1, <3>3, <3>4 DEF VistaDaLinha, Publicado, Decisao
  <2>12. CASE GravarAprovacao(p)
    <3>1. /\ UNCHANGED <<documentos, pedido>> /\ pc'[p] = "aprovada" /\ pc[p] = "aprovacao"
          /\ vistos'[d] = vistos[d] \cup Visto(d)
      BY <1>0, <1>4, <2>12, RegistroDaAprovacao
    <3>2. ~Guardar(p)
      BY <3>1 DEF Guardar, GuardarRascunho, GuardarEdicao, PublicarVerificada
    <3>3. Visto(pedido[p].doc)' = Visto(d)
      BY <1>4, <2>7, <3>1, <3>2 DEF Visto
    <3>4. VistaDoPedido(p)'
      BY <1>4, <3>1, <3>3 DEF VistaDoPedido
    <3>. QED
      BY <2>2, <2>7, <3>1, <3>2, <3>4
  <2>13. CASE Publicar(p)
    <3> DEFINE c == ConteudoFinal(pedido[p].lido)
    <3>1. /\ pc[p] \in ProntoParaPublicar /\ pc'[p] = "publicada"
          /\ pedido'[p].doc = pedido[p].doc /\ pedido'[p].lido = pedido[p].lido
          /\ pedido'[p].conteudo = c /\ UNCHANGED <<documentos, vistos>>
      BY <1>0, <2>13, PublicacaoNoBucket
    <3>2. ~Guardar(p)
      BY <3>1 DEF Guardar, GuardarRascunho, GuardarEdicao, PublicarVerificada,
         ProntoParaPublicar
    <3>3. pedido[p].lido = documentos[d]
      BY <2>6, <3>1 DEF Operando, ProntoParaPublicar
    <3>4. Visto(d) \subseteq vistos[d]
      BY <1>4, <2>4, <3>1, <3>3 DEF ProntoParaPublicar, VistaDoPedido, VistaDaLinha
    <3>5. ASSUME documentos[d].tipo = "rdo" PROVE c \in {Pdf(x) : x \in vistos[d]}
      BY <3>3, <3>4, <3>5 DEF ConteudoFinal, Visto
    <3> HIDE DEF c
    <3>6. VistaDoPedido(p)'
      BY <1>4, <3>1, <3>3, <3>5 DEF VistaDoPedido
    <3>. QED
      BY <2>2, <2>7, <3>1, <3>2, <3>6
  <2>14. CASE GravarFinal(p)
    <3>1. /\ pc[p] = "publicada" /\ pedido'[p] = SemPedido
          /\ documentos'[d].status = "FINALIZADO_VALIDADO"
          /\ documentos'[d].hash = pedido[p].conteudo
          /\ MesmoDocumento(documentos'[d], documentos[d])
          /\ UNCHANGED vistos
      BY <1>0, <1>4, <2>14, RegistroDoFinal
    <3>2. documentos'[d].tipo = pedido[p].lido.tipo
      BY <2>6, <3>1 DEF Operando, MesmoDocumento
    <3>3. Publicado(d, "rdo")' => documentos'[d].hash \in {Pdf(c) : c \in vistos'[d]}
      BY <1>4, <2>4, <3>1, <3>2 DEF VistaDoPedido, Publicado
    <3>. QED
      BY <2>2, <2>3, <3>1, <3>3 DEF VistaDaLinha
  <2>15. CASE Desistir(p)
    <3>1. /\ pc[p] \in ProntoParaPublicar /\ pedido'[p] = SemPedido /\ UNCHANGED documentos
      BY <1>0, <1>1, <1>4, <2>15, Desistindo
    <3>2. ~Guardar(p)
      BY <3>1 DEF Guardar, GuardarRascunho, GuardarEdicao, PublicarVerificada,
         ProntoParaPublicar
    <3>. QED
      BY <2>2, <2>3, <2>7, <3>1, <3>2
  <2>16. ~VerificarChave(p)
    BY DEF VerificarChave
  <2>17. \A x \in Docs, t \in Tipos, dia \in Dias : ~LerRevisoes(p, x, t, dia)
    BY <2>5 DEF LerRevisoes
  <2>18. \A x \in Docs : ~Ler(p, x)
    BY <2>5 DEF Ler, LerEdicao, LerDecisao, LerFinalizacao, LerAprovacao, LerDocumento
  <2>. QED
    BY <2>8, <2>9, <2>10, <2>11, <2>12, <2>13, <2>14, <2>15, <2>16, <2>17, <2>18 DEF Andar
<1>. QED
  BY <1>3, <1>4

LEMMA PassoVistos ==
    ASSUME InvV, [Next]_vars, UmProcesso
    PROVE  VistosCertos' /\ PublicaOAprovado'
<1>0. Base /\ VistosCertos /\ PublicaOAprovado
  BY DEF InvV, InvH, InvD, InvP, Base
<1>1. CASE UNCHANGED <<pc, pedido, documentos, bucket, vistos, disputa, gemeos>>
  BY <1>0, <1>1 DEF VistosCertos, PublicaOAprovado, Visto, Incontestes, Publicado
<1>2. ASSUME NEW d \in Triados, ArquivarTriado(d) PROVE VistosCertos' /\ PublicaOAprovado'
  <2>1. /\ documentos'[d].status = "TRIADO" /\ ~Existe(d)
        /\ \A x \in Docs \ {d} : documentos'[x] = documentos[x]
        /\ UNCHANGED <<pc, pedido, bucket, vistos, disputa, gemeos>>
    BY <1>0, <1>2, Triagem DEF ArquivarTriado
  <2>2. \A x \in Docs \ {d} : Visto(x)' = Visto(x)
    BY <2>1 DEF Visto
  <2>3. \A q \in Pedidos : Operando(q) => pedido[q].doc \in Docs \ {d}
    BY <1>0, <2>1 DEF Base, PedidosCertos, PedidoCerto
  <2>4. \A x \in Incontestes' : x \in Docs /\ x \in Incontestes
    BY <2>1 DEF Incontestes
  <2>5. ASSUME NEW q \in Pedidos, pedido'[q].doc \in Incontestes', pc'[q] = "aprovada"
        PROVE  Visto(pedido[q].doc)' \subseteq vistos'[pedido'[q].doc]
    <3>1. pc[q] = "aprovada" /\ pedido[q].doc \in Docs \ {d} /\ pedido[q].doc \in Incontestes
      BY <2>1, <2>3, <2>4, <2>5 DEF Operando
    <3>2. Visto(pedido[q].doc) \subseteq vistos[pedido[q].doc]
      BY <1>0, <3>1 DEF VistosCertos
    <3>3. Visto(pedido[q].doc)' = Visto(pedido[q].doc)
      BY <2>1, <3>1 DEF Visto
    <3>. QED
      BY <2>1, <3>2, <3>3
  <2>6. VistosCertos'
    BY <1>0, <2>1, <2>2, <2>4, <2>5 DEF VistosCertos
  <2>7. PublicaOAprovado'
    BY <1>0, <2>1, <2>4 DEF PublicaOAprovado, Publicado
  <2>. QED
    BY <2>6, <2>7
<1>3. ASSUME NEW p \in Pedidos, Andar(p) PROVE VistosCertos' /\ PublicaOAprovado'
  <2>1. \A d \in Incontestes' : d \in Docs
    BY DEF Incontestes
  <2>2. \A d \in Incontestes' :
           /\ VistaDaLinha(d)'
           /\ \A q \in Pedidos : pedido'[q].doc = d => VistaDoPedido(q)'
    BY <1>3, <2>1, PassoVista
  <2>3. VistosCertos'
    BY <2>2 DEF VistosCertos, VistaDaLinha, VistaDoPedido
  <2>4. PublicaOAprovado'
    BY <2>2 DEF PublicaOAprovado, VistaDaLinha
  <2>. QED
    BY <2>3, <2>4
<1>4. CASE (\E s \in Slugs : Renomear(s)) \/ ReceberFoto \/ UNCHANGED vars
  BY <1>1, <1>4 DEF Renomear, ReceberFoto, vars
<1>. QED
  BY <1>2, <1>3, <1>4, Grupos

LEMMA InvVSempre == Spec => []InvV
<1>1. Init => VistosCertos /\ PublicaOAprovado
  BY DEF Init, VistosCertos, PublicaOAprovado, Publicado, Incontestes, SemLinha
<1>2. ASSUME InvV, [Next]_vars, InvH' PROVE InvV'
  <2>1. UmProcesso => VistosCertos' /\ PublicaOAprovado'
    BY <1>2, PassoVistos
  <2>. QED
    BY <1>2, <2>1 DEF InvV, VistosCertos
<1>3. InvH /\ VistosCertos /\ (UmProcesso => PublicaOAprovado) <=> InvV
  BY DEF InvV
<1>. QED
  BY <1>1, <1>2, <1>3, InvHSempre, PTL DEF Spec

(* With one process, the PDF an RDO in peace is published with is of a     *)
(* text that was seen when somebody approved it.                           *)
THEOREM PublicaSempreOAprovado ==
    ASSUME UmProcesso
    PROVE  Spec => []PublicaOAprovado
<1>1. InvV => PublicaOAprovado
  BY DEF InvV
<1>. QED
  BY <1>1, InvVSempre, PTL

-----------------------------------------------------------------------------
(* The photo reports, with any number of processes.                        *)

(* The row of a photo report.                                              *)
LEMMA LinhaDeFoto ==
    ASSUME InvP, NEW d \in Docs, documentos[d].tipo = "foto"
    PROVE  /\ d \in Rascunhos /\ Existe(d) /\ documentos[d].dia # Nenhum
           /\ documentos[d].chave \in Chaves /\ documentos[d].chave # Nenhum
           /\ documentos[d].chave.tipo = "foto" /\ bucket[documentos[d].chave] # Nenhum
           /\ Final(documentos[d].chave) =>
                 documentos[d].chave = ChaveFinal(documentos[d], documentos[d].chave.slug)
           /\ Visto(d) = {bucket[documentos[d].chave].conteudo}
<1>1. TypeOK /\ LinhasCertas /\ ObjetosGuardados
  BY DEF InvP
<1>2. Existe(d) /\ LinhaCerta(documentos[d], d, decididos)
  BY <1>1 DEF LinhasCertas, SemLinha
<1>3. d \in Rascunhos
  BY <1>2 DEF LinhaCerta, Docs
<1>4. documentos[d].chave # Nenhum /\ documentos[d].dia # Nenhum
  BY <1>2, <1>3 DEF LinhaCerta
<1>5. documentos[d].chave \in Chaves /\ bucket[documentos[d].chave] # Nenhum
  BY <1>1, <1>4, TiposDaLinha DEF ObjetosGuardados
<1>6. documentos[d].chave.tipo = documentos[d].tipo
  BY <1>2, <1>4 DEF LinhaCerta, ChaveFinal, ChaveRascunho
<1>7. Final(documentos[d].chave) =>
         documentos[d].chave = ChaveFinal(documentos[d], documentos[d].chave.slug)
  BY <1>2, <1>4 DEF LinhaCerta
<1>8. Visto(d) = {bucket[documentos[d].chave].conteudo}
  BY <1>4 DEF Visto
<1>. QED
  BY <1>2, <1>3, <1>4, <1>5, <1>6, <1>7, <1>8

(* A publication of photos holds the row, which is of photos.              *)
LEMMA PublicacaoDeFoto ==
    ASSUME InvP, NEW p \in Pedidos, Publicando(p), pedido[p].lido.tipo = "foto"
    PROVE  /\ pedido[p].doc \in Docs /\ trava[pedido[p].doc] = p
           /\ documentos[pedido[p].doc].tipo = "foto"
           /\ MesmoDocumento(pedido[p].lido, documentos[pedido[p].doc])
           /\ pedido[p].doc \in decididos
           /\ pc[p] # "aprovada" =>
                 /\ pedido[p].chave \in Chaves /\ Final(pedido[p].chave)
                 /\ pedido[p].chave = ChaveFinal(documentos[pedido[p].doc], pedido[p].chave.slug)
                 /\ pedido[p].chave.tipo = "foto" /\ pedido[p].conteudo \in Conteudos
<1> DEFINE d == pedido[p].doc
           k == pedido[p].chave
<1>1. TypeOK /\ PedidoCerto(p) /\ TravasCertas /\ Operando(p)
  BY DEF InvP, PedidosCertos, Publicando, Operando
<1>2. d \in decididos /\ trava[d] = p
  BY <1>1 DEF TravasCertas
<1>3. d \in Docs /\ MesmoDocumento(pedido[p].lido, documentos[d])
  BY <1>1 DEF PedidoCerto
<1>4. documentos[d].tipo = "foto"
  BY <1>3 DEF MesmoDocumento
<1>5. ASSUME pc[p] # "aprovada"
      PROVE  /\ k \in Chaves /\ Final(k) /\ k.tipo = "foto" /\ pedido[p].conteudo \in Conteudos
             /\ k = ChaveFinal(documentos[d], k.slug)
  <2>1. /\ k # Nenhum /\ Final(k) /\ pedido[p].conteudo # Nenhum
        /\ k = ChaveFinal(pedido[p].lido, k.slug)
    BY <1>1, <1>5 DEF PedidoCerto, Publicando
  <2>2. k \in Chaves /\ pedido[p].conteudo \in Conteudos
    BY <1>1, <2>1, TiposDoPedido
  <2>3. k = ChaveFinal(documentos[d], k.slug) /\ k.tipo = pedido[p].lido.tipo
    BY <1>3, <2>1 DEF ChaveFinal, MesmoDocumento
  <2>. QED
    BY <2>1, <2>2, <2>3
<1>. QED
  BY <1>2, <1>3, <1>4, <1>5

(* Two photo reports have different final keys, but for drafts requested   *)
(* together.                                                               *)
LEMMA FinaisDeFotos ==
    ASSUME InvR, NEW d \in Docs \ gemeos, NEW e \in Docs, NEW k,
           documentos[d].tipo = "foto", documentos[e].tipo = "foto",
           k = ChaveFinal(documentos[d], k.slug), k = ChaveFinal(documentos[e], k.slug)
    PROVE  d = e
<1>1. /\ d \in Rascunhos /\ Existe(d) /\ documentos[d].dia # Nenhum
      /\ e \in Rascunhos /\ Existe(e) /\ documentos[e].dia # Nenhum
  BY LinhaDeFoto DEF InvR
<1>2. documentos[d].rev = documentos[e].rev
  BY <1>1 DEF ChaveFinal
<1>. QED
  BY <1>1, <1>2 DEF InvR, RevisoesCertas, RevisaoUnica, MesmaSerie

(* A row held by another request is neither written nor decided upon.      *)
LEMMA LinhaTravada ==
    ASSUME Base, NEW p \in Pedidos, Andar(p), NEW d \in Docs, Existe(d),
           trava[d] \notin {Nenhum, p}
    PROVE  documentos'[d] = documentos[d] /\ vistos'[d] = vistos[d]
<1>1. CASE d # pedido[p].doc
  BY <1>1, LinhaAlheia, VistosCrescem
<1>2. CASE d = pedido[p].doc
  <2>1. ~Espera(p) => pc[p] \notin {"edicaoGuardada", "decisao", "aprovacao", "publicada"}
    BY <1>2 DEF Espera
  <2>2. ~GravarEdicao(p) /\ ~GravarAprovacao(p) /\ ~GravarFinal(p)
    BY <2>1 DEF GravarEdicao, GravarAprovacao, GravarFinal
  <2>3. \A a \in BOOLEAN : ~GravarDecisao(p, a)
    BY <2>1 DEF GravarDecisao
  <2>4. ~CriarDocumento(p)
    BY <1>2, Insercao
  <2>. QED
    BY <2>2, <2>3, <2>4 DEF Andar, LerRevisoes, Ler, LerEdicao, LerDecisao,
       LerFinalizacao, LerAprovacao, LerDocumento, Guardar, GuardarRascunho, GuardarEdicao,
       PublicarVerificada, Publicar, VerificarChave, Desistir, ConflitarFinal, Cair
<1>. QED
  BY <1>1, <1>2

(* A decision to approve adds what is seen, and nothing else is added to   *)
(* what was seen.                                                          *)
LEMMA VistosNovos ==
    ASSUME Base, NEW p \in Pedidos, Andar(p), NEW d \in Docs
    PROVE  \/ vistos'[d] = vistos[d]
           \/ /\ vistos'[d] = vistos[d] \cup Visto(d) /\ d = pedido[p].doc
              /\ pc[p] \in {"decisao", "aprovacao"} /\ Existe(d) /\ d \in decididos'
              /\ documentos'[d].chave = documentos[d].chave
              /\ documentos'[d].hash = documentos[d].hash
              /\ documentos'[d].tipo = documentos[d].tipo
              /\ documentos'[d].status \in {documentos[d].status, "APROVADO"}
<1>1. ASSUME NEW a \in BOOLEAN, GravarDecisao(p, a), vistos'[d] # vistos[d]
      PROVE  /\ vistos'[d] = vistos[d] \cup Visto(d) /\ d = pedido[p].doc
             /\ pc[p] \in {"decisao", "aprovacao"} /\ Existe(d) /\ d \in decididos'
             /\ documentos'[d].chave = documentos[d].chave
             /\ documentos'[d].hash = documentos[d].hash
             /\ documentos'[d].tipo = documentos[d].tipo
             /\ documentos'[d].status \in {documentos[d].status, "APROVADO"}
  <2>1. /\ pc[p] = "decisao" /\ \A x \in Docs \ {pedido[p].doc} : vistos'[x] = vistos[x]
        /\ ~a => vistos'[pedido[p].doc] = vistos[pedido[p].doc]
    BY <1>1, RegistroDaDecisao
  <2>2. d = pedido[p].doc /\ a
    BY <1>1, <2>1
  <2>3. /\ Existe(d) /\ decididos' = decididos \cup {d}
        /\ documentos'[d].chave = documentos[d].chave
        /\ documentos'[d].hash = documentos[d].hash
        /\ MesmoDocumento(documentos'[d], documentos[d])
        /\ documentos'[d].status \in {documentos[d].status, Decisao(a)}
        /\ vistos'[d] = vistos[d] \cup Visto(d)
    BY <1>1, <2>2, RegistroDaDecisao
  <2>. QED
    BY <2>1, <2>2, <2>3 DEF Decisao, MesmoDocumento
<1>2. CASE GravarAprovacao(p)
  BY <1>2, RegistroDaAprovacao
<1>3. CASE UNCHANGED vistos
  BY <1>3
<1>. QED
  BY <1>1, <1>2, <1>3 DEF Andar, LerRevisoes, Ler, LerEdicao, LerDecisao, LerFinalizacao,
     LerAprovacao, LerDocumento, Guardar, GuardarRascunho, GuardarEdicao,
     PublicarVerificada, CriarDocumento, GravarEdicao, Publicar, VerificarChave,
     GravarFinal, Desistir, ConflitarFinal, Cair

(* What may be put under the key of a photo report.                        *)
LEMMA ObjetoDeFoto ==
    ASSUME InvF, NEW p \in Pedidos, Andar(p), NEW k \in Chaves, k.tipo = "foto",
           bucket'[k] # bucket[k]
    PROVE  /\ bucket'[k].conteudo.versao \in Nat
           /\ bucket'[k].conteudo.versao <= fotos
           /\ Final(k) /\ bucket[k] # Nenhum =>
                 /\ pc[p] = "verificada" /\ pc'[p] = "publicada"
                 /\ pedido[p].lido.tipo = "foto" /\ k = pedido[p].chave
                 /\ bucket'[k].conteudo = pedido[p].conteudo
<1>0. Base /\ InvP /\ TypeOK /\ PedidoCerto(p) /\ fotos \in Nat /\ FotosDoPedido(p)
  BY DEF InvF, InvR, InvP, Base, PedidosCertos, TypeOK, FotosCertas
<1>1. CASE Guardar(p)
  <2>1. /\ pc[p] \in {"rascunho", "edicao", "verificada"}
        /\ pc[p] = "verificada" => pc'[p] = "publicada"
        /\ pedido[p].conteudo \in Conteudos
        /\ bucket'[pedido[p].chave] = [conteudo |-> pedido[p].conteudo,
                                       dono |-> pedido[p].doc]
        /\ k = pedido[p].chave
    BY <1>0, <1>1, Depositando
  <2>2. bucket'[k].conteudo = pedido[p].conteudo /\ k # Nenhum
    BY <2>1, CamposDaChave
  <2>3. pedido[p].lido.tipo = "foto"
    <3>1. CASE pc[p] = "rascunho" \/ pc[p] = "edicao"
      <4>1. LinhaCerta(pedido[p].lido, pedido[p].doc, decididos) /\ pedido[p].lido.chave = k
        BY <1>0, <2>1, <3>1 DEF PedidoCerto, Rascunhando, Operando
      <4>. QED
        BY <2>2, <4>1 DEF LinhaCerta, ChaveFinal, ChaveRascunho
    <3>2. CASE pc[p] = "verificada"
      <4>1. k = ChaveFinal(pedido[p].lido, k.slug)
        BY <1>0, <2>1, <3>2 DEF PedidoCerto
      <4>. QED
        BY <4>1 DEF ChaveFinal
    <3>. QED
      BY <2>1, <3>1, <3>2
  <2>4. pc[p] # "edicao" /\ (Final(k) => pc[p] # "rascunho")
    BY <1>0, <2>1, <2>3 DEF PedidoCerto, Rascunhando
  <2>5. pedido[p].conteudo.versao \in Nat /\ pedido[p].conteudo.versao <= fotos
    BY <1>0, <2>1, <2>3, Conversoes DEF FotosDoPedido
  <2>. QED
    BY <2>1, <2>2, <2>3, <2>4, <2>5
<1>2. CASE Publicar(p)
  <2> DEFINE h == ChaveFinal(pedido[p].lido, slug)
             c == ConteudoFinal(pedido[p].lido)
  <2>1. /\ bucket[h] = Nenhum /\ bucket'[h] = [conteudo |-> c, dono |-> pedido[p].doc]
        /\ \A x \in Chaves \ {h} : bucket'[x] = bucket[x]
    BY <1>0, <1>2, PublicacaoNoBucket
  <2>2. k = h
    BY <2>1
  <2>3. pedido[p].lido.tipo = "foto"
    BY <2>2 DEF ChaveFinal
  <2>4. c = Pdf(Html(fotos))
    BY <2>3 DEF ConteudoFinal
  <2>5. bucket'[k].conteudo = c
    BY <2>1, <2>2
  <2> HIDE DEF c, h
  <2>6. c.versao = fotos
    BY <1>0, <2>4, Conversoes
  <2>. QED
    BY <1>0, <2>1, <2>2, <2>5, <2>6
<1>. QED
  BY <1>1, <1>2 DEF Andar, LerRevisoes, Ler, LerEdicao, LerDecisao, LerFinalizacao,
     LerAprovacao, LerDocumento, CriarDocumento, GravarEdicao, GravarDecisao,
     GravarAprovacao, VerificarChave, GravarFinal, Desistir, ConflitarFinal, Cair

LEMMA FotosMantidas ==
    ASSUME NEW p \in Pedidos, Andar(p)
    PROVE  fotos' = fotos
BY DEF Andar, LerRevisoes, Ler, LerEdicao, LerDecisao, LerFinalizacao,
   LerAprovacao, LerDocumento, Guardar, GuardarRascunho, GuardarEdicao,
   PublicarVerificada, CriarDocumento, GravarEdicao, GravarDecisao, GravarAprovacao,
   Publicar, VerificarChave, GravarFinal, Desistir, ConflitarFinal, Cair

LEMMA PassoGuardadas ==
    ASSUME InvF, NEW p \in Pedidos, Andar(p)
    PROVE  FotosGuardadas'
<1>1. ASSUME NEW k \in Chaves, k.tipo = "foto", bucket'[k] # Nenhum
      PROVE  bucket'[k].conteudo.versao <= fotos'
  <2>1. CASE bucket'[k] = bucket[k]
    BY <1>1, <2>1, FotosMantidas DEF InvF, FotosCertas, FotosGuardadas
  <2>2. CASE bucket'[k] # bucket[k]
    BY <1>1, <2>2, FotosMantidas, ObjetoDeFoto
  <2>. QED
    BY <2>1, <2>2
<1>. QED
  BY <1>1 DEF FotosGuardadas

LEMMA PassoVistas ==
    ASSUME InvF, NEW p \in Pedidos, Andar(p), Crescem
    PROVE  FotosVistas'
<1>0. Base /\ InvP /\ FotosVistas /\ FotosGuardadas /\ \A d \in decididos : Existe(d)
  BY DEF InvF, InvR, InvP, Base, FotosCertas, LinhasCertas
<1>1. ASSUME NEW d \in Docs
      PROVE  /\ d \notin decididos' => vistos'[d] = {}
             /\ documentos'[d].tipo = "foto" => \A c \in vistos'[d] : c.versao <= fotos'
  <2>1. CASE vistos'[d] = vistos[d] /\ d \notin decididos
    BY <1>0, <2>1 DEF FotosVistas
  <2>2. CASE vistos'[d] = vistos[d] /\ d \in decididos
    <3>1. d \in decididos' /\ documentos'[d].tipo = documentos[d].tipo
      BY <1>0, <2>2 DEF Crescem, MesmoDocumento
    <3>. QED
      BY <1>0, <2>2, <3>1, FotosMantidas DEF FotosVistas
  <2>3. CASE vistos'[d] # vistos[d]
    <3>1. /\ vistos'[d] = vistos[d] \cup Visto(d) /\ d \in decididos'
          /\ documentos'[d].tipo = documentos[d].tipo
      BY <1>0, <2>3, VistosNovos
    <3>2. ASSUME documentos[d].tipo = "foto", NEW c \in Visto(d) PROVE c.versao <= fotos
      <4>1. /\ documentos[d].chave \in Chaves /\ documentos[d].chave.tipo = "foto"
            /\ bucket[documentos[d].chave] # Nenhum
            /\ Visto(d) = {bucket[documentos[d].chave].conteudo}
        BY <1>0, <3>2, LinhaDeFoto
      <4>. QED
        BY <1>0, <3>2, <4>1 DEF FotosGuardadas
    <3>. QED
      BY <1>0, <3>1, <3>2, FotosMantidas DEF FotosVistas
  <2>. QED
    BY <2>1, <2>2, <2>3
<1>. QED
  BY <1>1 DEF FotosVistas

LEMMA PassoFotosAlheio ==
    ASSUME InvF, NEW p \in Pedidos, Andar(p), NEW q \in Pedidos \ {p}
    PROVE  FotosDoPedido(q)'
<1> DEFINE d == pedido[q].doc
           k == pedido[q].chave
<1>0. Base /\ InvP /\ InvR /\ FotosDoPedido(q)
  BY DEF InvF, InvR, InvP, Base, FotosCertas
<1>1. pc'[q] = pc[q] /\ pedido'[q] = pedido[q] /\ fotos' = fotos
  BY <1>0, Alheios, FotosMantidas DEF Outros
<1>2. ASSUME pedido[q].lido.tipo = "foto", Publicando(q)
      PROVE  /\ d \in Docs /\ trava[d] = q /\ documentos[d].tipo = "foto"
             /\ documentos'[d] = documentos[d] /\ vistos'[d] = vistos[d]
  <2>1. d \in Docs /\ trava[d] = q /\ documentos[d].tipo = "foto"
    BY <1>0, <1>2, PublicacaoDeFoto
  <2>2. Existe(d)
    BY <1>0, <2>1, LinhaDeFoto
  <2>3. trava[d] \notin {Nenhum, p}
    BY <2>1, DocumentosAssumption
  <2>. QED
    BY <1>0, <2>1, <2>2, <2>3, LinhaTravada
<1>3. ASSUME pedido[q].lido.tipo = "foto", pc[q] = "publicada", d \notin gemeos
      PROVE  bucket'[k] = bucket[k]
  <2>0. Publicando(q) /\ Operando(q)
    BY <1>3 DEF Publicando, Operando
  <2>1. d \in Docs \ gemeos /\ trava[d] = q /\ documentos[d].tipo = "foto"
    BY <1>2, <1>3, <2>0
  <2>2. k \in Chaves /\ Final(k) /\ k = ChaveFinal(documentos[d], k.slug) /\ k.tipo = "foto"
    BY <1>0, <1>3, <2>0, PublicacaoDeFoto
  <2>3. bucket[k] # Nenhum
    BY <1>0, <1>3, <2>2, CamposDaChave DEF Base, ObjetosGuardados
  <2>4. ASSUME bucket'[k] # bucket[k] PROVE FALSE
    <3>1. pc[p] = "verificada" /\ pedido[p].lido.tipo = "foto" /\ k = pedido[p].chave
      BY <2>2, <2>3, <2>4, ObjetoDeFoto
    <3>2. Publicando(p)
      BY <3>1 DEF Publicando
    <3>3. /\ pedido[p].doc \in Docs /\ trava[pedido[p].doc] = p
          /\ documentos[pedido[p].doc].tipo = "foto"
          /\ pedido[p].chave = ChaveFinal(documentos[pedido[p].doc], pedido[p].chave.slug)
      BY <1>0, <3>1, <3>2, PublicacaoDeFoto
    <3>4. d = pedido[p].doc
      BY <1>0, <2>1, <2>2, <3>1, <3>3, FinaisDeFotos
    <3>. QED
      BY <2>1, <3>3, <3>4
  <2>. QED
    BY <2>4
<1>4. gemeos \subseteq gemeos'
  BY <1>0, PedidoSegue
<1>5. SUFFICES ASSUME pedido[q].lido.tipo = "foto"
      PROVE  /\ pedido[q].conteudo # Nenhum => pedido[q].conteudo.versao <= fotos
             /\ pc[q] \in {"verificada", "publicada"} =>
                   \A c \in vistos'[d] : c.versao <= pedido[q].conteudo.versao
             /\ pc[q] = "verificada" => k # documentos'[d].chave
             /\ pc[q] = "publicada" /\ d \notin gemeos' =>
                   bucket'[k].conteudo.versao <= pedido[q].conteudo.versao
  BY <1>1 DEF FotosDoPedido
<1>6. CASE pc[q] \notin {"verificada", "publicada"}
  BY <1>0, <1>5, <1>6 DEF FotosDoPedido
<1>7. CASE pc[q] = "verificada"
  <2>1. Publicando(q)
    BY <1>7 DEF Publicando
  <2>. QED
    BY <1>0, <1>2, <1>5, <1>7, <2>1 DEF FotosDoPedido
<1>8. CASE pc[q] = "publicada"
  <2>1. Publicando(q)
    BY <1>8 DEF Publicando
  <2>. QED
    BY <1>0, <1>2, <1>3, <1>4, <1>5, <1>8, <2>1 DEF FotosDoPedido
<1>. QED
  BY <1>6, <1>7, <1>8

LEMMA PassoFotosProprio ==
    ASSUME InvF, NEW p \in Pedidos, Andar(p)
    PROVE  FotosDoPedido(p)'
<1>0. /\ Base /\ TypeOK /\ fotos \in Nat /\ fotos' = fotos
      /\ FotosDoPedido(p) /\ FotosVistas /\ PedidoCerto(p) /\ ObjetosGuardados
  BY FotosMantidas DEF InvF, InvR, InvP, Base, FotosCertas, TypeOK, PedidosCertos
<1>1. ASSUME NEW d \in Docs, NEW t \in Tipos, NEW dia \in Dias, LerRevisoes(p, d, t, dia)
      PROVE  FotosDoPedido(p)'
  <2>1. /\ pedido'[p].lido.tipo = t /\ pedido'[p].conteudo = ConteudoNovo(t)
        /\ pc'[p] = "rascunho"
    BY <1>0, <1>1, NovoRascunho
  <2>2. t = "foto" => ConteudoNovo(t).versao = fotos
    BY <1>0, Conversoes DEF ConteudoNovo
  <2>. QED
    BY <1>0, <2>1, <2>2 DEF FotosDoPedido
<1>2. ASSUME NEW d \in Docs, Ler(p, d) PROVE FotosDoPedido(p)'
  <2>1. /\ pedido'[p].lido = documentos[d]
        /\ pc'[p] \in {"edicao", "decisao", "finalizacao", "aprovacao"}
        /\ documentos[d].tipo # "rdo" => pedido'[p].conteudo = Nenhum
    BY <1>0, <1>2, Lendo
  <2>. QED
    BY <2>1 DEF FotosDoPedido
<1>3. CASE Guardar(p)
  <2>0. /\ pc'[p] # "verificada"
        /\ pc'[p] = "publicada" => pc[p] = "verificada"
        /\ bucket'[pedido[p].chave] = [conteudo |-> pedido[p].conteudo,
                                       dono |-> pedido[p].doc]
        /\ pedido[p].conteudo \in Conteudos
        /\ UNCHANGED <<pedido, vistos>>
    BY <1>0, <1>3, Depositando
  <2>1. bucket'[pedido[p].chave].conteudo = pedido[p].conteudo
    BY <2>0
  <2>2. pedido[p].conteudo.versao \in Nat
    BY <2>0, Conversoes
  <2>. QED
    BY <1>0, <2>0, <2>1, <2>2 DEF FotosDoPedido
<1>4. ASSUME pc[p] \in ProntoParaPublicar, pedido[p].lido.tipo = "foto"
      PROVE  /\ ConteudoFinal(pedido[p].lido).versao = fotos
             /\ \A c \in vistos[pedido[p].doc] : c.versao <= fotos
             /\ documentos[pedido[p].doc].chave # Nenhum =>
                   bucket[documentos[pedido[p].doc].chave] # Nenhum
  <2>1. pedido[p].doc \in Docs /\ MesmoDocumento(pedido[p].lido, documentos[pedido[p].doc])
    BY <1>0, <1>4 DEF PedidoCerto, Operando, ProntoParaPublicar
  <2>2. documentos[pedido[p].doc].tipo = "foto"
    BY <1>4, <2>1 DEF MesmoDocumento
  <2>3. ConteudoFinal(pedido[p].lido) = Pdf(Html(fotos))
    BY <1>4 DEF ConteudoFinal
  <2>4. Pdf(Html(fotos)).versao = fotos
    BY <1>0, Conversoes
  <2>. QED
    BY <1>0, <2>1, <2>2, <2>3, <2>4 DEF FotosVistas, ObjetosGuardados
<1>5. CASE Publicar(p)
  <2> DEFINE k == ChaveFinal(pedido[p].lido, slug)
             c == ConteudoFinal(pedido[p].lido)
  <2>1. /\ pc[p] \in ProntoParaPublicar /\ pc'[p] = "publicada" /\ vistos' = vistos
        /\ pedido'[p].doc = pedido[p].doc /\ pedido'[p].lido = pedido[p].lido
        /\ pedido'[p].chave = k /\ pedido'[p].conteudo = c
        /\ bucket'[k] = [conteudo |-> c, dono |-> pedido[p].doc]
    BY <1>0, <1>5, PublicacaoNoBucket
  <2> HIDE DEF c, k
  <2>2. bucket'[k].conteudo = c
    BY <2>1
  <2>3. pedido[p].lido.tipo = "foto" =>
           c.versao = fotos /\ \A x \in vistos[pedido[p].doc] : x.versao <= fotos
    BY <1>4, <2>1 DEF c
  <2>. QED
    BY <1>0, <2>1, <2>2, <2>3 DEF FotosDoPedido
<1>6. CASE VerificarChave(p)
  <2>1. LET k == ChaveFinal(pedido[p].lido, slug)
            c == ConteudoFinal(pedido[p].lido)
        IN /\ pc[p] \in ProntoParaPublicar /\ pc'[p] = "verificada"
           /\ UNCHANGED <<vistos, documentos>>
           /\ pedido'[p].doc = pedido[p].doc /\ pedido'[p].lido = pedido[p].lido
           /\ pedido'[p].chave = k /\ pedido'[p].conteudo = c
           /\ k \in Chaves /\ bucket[k] = Nenhum
    BY <1>0, <1>6, Verificacao
  <2>2. ChaveFinal(pedido[p].lido, slug) # Nenhum
    BY <2>1, CamposDaChave
  <2>3. pedido[p].lido.tipo = "foto" =>
           ChaveFinal(pedido[p].lido, slug) # documentos[pedido[p].doc].chave
    BY <1>4, <2>1, <2>2
  <2>. QED
    BY <1>0, <1>4, <2>1, <2>3 DEF FotosDoPedido
<1>7. CASE GravarAprovacao(p)
  BY <1>0, <1>7, RegistroDaAprovacao DEF FotosDoPedido
<1>8. ASSUME pedido'[p] = SemPedido PROVE FotosDoPedido(p)'
  BY <1>8 DEF FotosDoPedido, SemPedido, SemLinha
<1>9. CASE CriarDocumento(p) \/ GravarEdicao(p) \/ GravarFinal(p) \/ Desistir(p)
  BY <1>0, <1>8, <1>9, Insercao, RegistroDaEdicao, RegistroDoFinal, Desistindo
<1>10. ASSUME NEW a \in BOOLEAN, GravarDecisao(p, a) PROVE FotosDoPedido(p)'
  BY <1>0, <1>8, <1>10, RegistroDaDecisao
<1>. QED
  BY <1>1, <1>2, <1>3, <1>5, <1>6, <1>7, <1>9, <1>10 DEF Andar

(* A report is published by GravarFinal, and its row is then written only  *)
(* by decisions.                                                           *)
LEMMA LinhaPublicada ==
    ASSUME Base, NEW p \in Pedidos, Andar(p), NEW d \in Docs, Publicado(d, "foto")'
    PROVE  \/ GravarFinal(p) /\ d = pedido[p].doc
           \/ /\ Publicado(d, "foto") /\ documentos'[d].chave = documentos[d].chave
              /\ documentos'[d].hash = documentos[d].hash
<1>0. documentos'[d].tipo = "foto" /\ documentos'[d].status = "FINALIZADO_VALIDADO"
  BY DEF Publicado
<1>1. CASE documentos'[d] = documentos[d]
  BY <1>0, <1>1 DEF Publicado
<1>2. CASE documentos'[d] # documentos[d] /\ d = pedido[p].doc
  <2>1. ~CriarDocumento(p)
    <3>1. ASSUME CriarDocumento(p) PROVE FALSE
      <4>1. Rascunhando(p) /\ documentos'[d] = pedido[p].lido /\ PedidoCerto(p)
        BY <1>2, <3>1, Insercao DEF Base, PedidosCertos
      <4>. QED
        BY <1>0, <4>1 DEF PedidoCerto
    <3>. QED
      BY <3>1
  <2>2. ~GravarEdicao(p)
    <3>1. ASSUME GravarEdicao(p) PROVE FALSE
      <4>1. /\ pc[p] = "edicaoGuardada" /\ MesmoDocumento(documentos'[d], documentos[d])
            /\ PedidoCerto(p)
        BY <1>2, <3>1, RegistroDaEdicao DEF Base, PedidosCertos
      <4>2. pedido[p].lido.tipo = "rdo" /\ MesmoDocumento(pedido[p].lido, documentos[d])
        BY <1>2, <4>1 DEF PedidoCerto, Operando
      <4>. QED
        BY <1>0, <4>1, <4>2 DEF MesmoDocumento
    <3>. QED
      BY <3>1
  <2>3. ASSUME NEW a \in BOOLEAN, GravarDecisao(p, a)
        PROVE  /\ Publicado(d, "foto") /\ documentos'[d].chave = documentos[d].chave
               /\ documentos'[d].hash = documentos[d].hash
    <3>1. /\ documentos'[d].chave = documentos[d].chave
          /\ documentos'[d].hash = documentos[d].hash
          /\ MesmoDocumento(documentos'[d], documentos[d])
          /\ documentos'[d].status \in {documentos[d].status, Decisao(a)}
      BY <1>2, <2>3, RegistroDaDecisao
    <3>. QED
      BY <1>0, <3>1 DEF Publicado, MesmoDocumento, Decisao
  <2>4. CASE UNCHANGED documentos
    BY <1>2, <2>4
  <2>. QED
    BY <1>2, <2>1, <2>2, <2>3, <2>4 DEF Andar, LerRevisoes, Ler, LerEdicao, LerDecisao,
       LerFinalizacao, LerAprovacao, LerDocumento, Guardar, GuardarRascunho,
       GuardarEdicao, PublicarVerificada, GravarAprovacao, Publicar, VerificarChave,
       Desistir, ConflitarFinal, Cair
<1>. QED
  BY <1>1, <1>2, LinhaAlheia

LEMMA PassoPublicadas ==
    ASSUME InvF, NEW p \in Pedidos, Andar(p)
    PROVE  FotosPublicadas'
<1>0. Base /\ InvP /\ InvR /\ FotosDoPedido(p) /\ FotosPublicadas
  BY DEF InvF, InvR, InvP, Base, FotosCertas
<1>1. gemeos \subseteq gemeos'
  BY <1>0, PedidoSegue
<1>2. ASSUME NEW d \in Docs, d \notin gemeos', Publicado(d, "foto")'
      PROVE  /\ bucket'[documentos'[d].chave].conteudo.versao <= documentos'[d].hash.versao
             /\ \A c \in vistos'[d] : c.versao <= documentos'[d].hash.versao
  <2>0. d \in Docs \ gemeos
    BY <1>1, <1>2
  <2>1. CASE GravarFinal(p) /\ d = pedido[p].doc
    <3>1. /\ pc[p] = "publicada" /\ documentos'[d].hash = pedido[p].conteudo
          /\ documentos'[d].chave = pedido[p].chave
          /\ MesmoDocumento(documentos'[d], documentos[d])
          /\ UNCHANGED <<bucket, vistos>>
      BY <1>0, <2>1, RegistroDoFinal
    <3>2. MesmoDocumento(pedido[p].lido, documentos[d])
      BY <1>0, <2>1, <3>1 DEF Base, PedidosCertos, PedidoCerto, Operando
    <3>3. pedido[p].lido.tipo = "foto"
      BY <1>2, <3>1, <3>2 DEF MesmoDocumento, Publicado
    <3>. QED
      BY <1>0, <2>0, <2>1, <3>1, <3>3 DEF FotosDoPedido
  <2>2. CASE ~(GravarFinal(p) /\ d = pedido[p].doc)
    <3> DEFINE k == documentos[d].chave
               v == documentos[d].hash.versao
    <3>1. Publicado(d, "foto") /\ documentos'[d].chave = k /\ documentos'[d].hash.versao = v
      BY <1>0, <1>2, <2>2, LinhaPublicada
    <3>2. /\ bucket[k].conteudo.versao <= v
          /\ \A c \in vistos[d] : c.versao <= v
      BY <1>0, <2>0, <3>1 DEF FotosPublicadas
    <3>3. documentos[d].tipo = "foto" /\ documentos[d].status = "FINALIZADO_VALIDADO"
      BY <3>1 DEF Publicado
    <3>4. /\ Existe(d) /\ k \in Chaves /\ k.tipo = "foto" /\ bucket[k] # Nenhum
          /\ Final(k) => k = ChaveFinal(documentos[d], k.slug)
          /\ Visto(d) = {bucket[k].conteudo}
      BY <1>0, <3>3, LinhaDeFoto
    <3>5. Final(k)
      BY <1>0, <3>3, <3>4 DEF Base, LinhasCertas, LinhaCerta
    <3>6. ASSUME bucket'[k] # bucket[k] PROVE FALSE
      <4>1. pc[p] = "verificada" /\ pedido[p].lido.tipo = "foto" /\ k = pedido[p].chave
        BY <3>4, <3>5, <3>6, ObjetoDeFoto
      <4>2. Publicando(p)
        BY <4>1 DEF Publicando
      <4>3. /\ pedido[p].doc \in Docs /\ documentos[pedido[p].doc].tipo = "foto"
            /\ pedido[p].chave = ChaveFinal(documentos[pedido[p].doc], pedido[p].chave.slug)
        BY <1>0, <4>1, <4>2, PublicacaoDeFoto
      <4>4. d = pedido[p].doc
        BY <1>0, <2>0, <3>3, <3>4, <3>5, <4>1, <4>3, FinaisDeFotos
      <4>. QED
        BY <1>0, <4>1, <4>4 DEF FotosDoPedido
    <3>7. \A c \in vistos'[d] : c.versao <= v
      <4>1. vistos'[d] = vistos[d] \/ vistos'[d] = vistos[d] \cup Visto(d)
        BY <1>0, VistosNovos
      <4>. QED
        BY <3>2, <3>4, <4>1
    <3>. QED
      BY <3>1, <3>2, <3>6, <3>7
  <2>. QED
    BY <2>1, <2>2
<1>. QED
  BY <1>2 DEF FotosPublicadas

LEMMA PassoFotos ==
    ASSUME InvF, [Next]_vars
    PROVE  FotosCertas'
<1>0. Base /\ TypeOK /\ FotosCertas
  BY DEF InvF, InvR, InvP, Base
<1>1. CASE UNCHANGED <<fotos, pc, pedido, documentos, bucket, vistos, decididos, gemeos>>
  BY <1>0, <1>1 DEF FotosCertas, FotosGuardadas, FotosVistas, FotosPublicadas,
     FotosDoPedido, Publicado
<1>2. CASE ReceberFoto
  <2>1. /\ fotos' = fotos + 1 /\ fotos \in Nat
        /\ UNCHANGED <<pc, pedido, documentos, bucket, vistos, decididos, gemeos>>
    BY <1>0, <1>2 DEF ReceberFoto, TypeOK
  <2>2. \A c \in Conteudos : c.versao <= fotos => c.versao <= fotos'
    BY <2>1, Conversoes
  <2>3. FotosGuardadas'
    BY <1>0, <2>1, <2>2, TiposDoObjeto DEF FotosCertas, FotosGuardadas
  <2>4. FotosVistas'
    BY <1>0, <2>1, <2>2 DEF FotosCertas, FotosVistas, TypeOK
  <2>5. \A q \in Pedidos : FotosDoPedido(q)'
    BY <1>0, <2>1, <2>2, TiposDoPedido DEF FotosCertas, FotosDoPedido
  <2>6. FotosPublicadas'
    BY <1>0, <2>1 DEF FotosCertas, FotosPublicadas, Publicado
  <2>. QED
    BY <2>3, <2>4, <2>5, <2>6 DEF FotosCertas
<1>3. ASSUME NEW d \in Triados, ArquivarTriado(d) PROVE FotosCertas'
  <2>1. /\ d \in Docs /\ ~Existe(d)
        /\ documentos'[d].status = "TRIADO" /\ MesmoDocumento(documentos'[d], SemLinha)
        /\ \A x \in Docs \ {d} : documentos'[x] = documentos[x]
        /\ UNCHANGED <<fotos, pc, pedido, bucket, vistos, decididos, gemeos>>
    BY <1>0, <1>3, Triagem DEF ArquivarTriado
  <2>2. documentos'[d].tipo = "rdo"
    BY <2>1 DEF MesmoDocumento, SemLinha
  <2>3. FotosGuardadas'
    BY <1>0, <2>1 DEF FotosCertas, FotosGuardadas
  <2>4. FotosVistas'
    BY <1>0, <2>1, <2>2 DEF FotosCertas, FotosVistas
  <2>5. ASSUME NEW q \in Pedidos, Publicando(q) PROVE documentos'[pedido[q].doc] = documentos[pedido[q].doc]
    BY <1>0, <2>1, <2>5 DEF Base, PedidosCertos, PedidoCerto, Operando, Publicando
  <2>6. \A q \in Pedidos : FotosDoPedido(q)'
    BY <1>0, <2>1, <2>5 DEF FotosCertas, FotosDoPedido, Publicando
  <2>7. FotosPublicadas'
    BY <1>0, <2>1 DEF FotosCertas, FotosPublicadas, Publicado
  <2>. QED
    BY <2>3, <2>4, <2>6, <2>7 DEF FotosCertas
<1>4. ASSUME NEW p \in Pedidos, Andar(p) PROVE FotosCertas'
  <2>1. Crescem
    BY <1>0, Crescendo
  <2>2. \A q \in Pedidos : FotosDoPedido(q)'
    BY <1>4, PassoFotosAlheio, PassoFotosProprio
  <2>. QED
    BY <1>4, <2>1, <2>2, PassoGuardadas, PassoVistas, PassoPublicadas DEF FotosCertas
<1>5. CASE (\E s \in Slugs : Renomear(s)) \/ UNCHANGED vars
  BY <1>1, <1>5 DEF Renomear, vars
<1>. QED
  BY <1>2, <1>3, <1>4, <1>5, Grupos

LEMMA InvFSempre == Spec => []InvF
<1>1. Init => FotosCertas
  BY DEF Init, FotosCertas, FotosGuardadas, FotosVistas, FotosPublicadas, FotosDoPedido,
     Publicado, SemLinha, SemPedido
<1>2. ASSUME InvF, [Next]_vars, InvR' PROVE InvF'
  BY <1>2, PassoFotos DEF InvF
<1>3. InvR /\ FotosCertas <=> InvF
  BY DEF InvF
<1>. QED
  BY <1>1, <1>2, <1>3, InvRSempre, PTL DEF Spec

(* With any number of processes, a published report of photos has all the  *)
(* photos that anybody had seen in it when approving it.                   *)
THEOREM FotosSempreRevistas == Spec => []FotosRevistasPublicadas
<1>1. InvF => FotosRevistasPublicadas
  BY DEF InvF, FotosCertas, FotosPublicadas, FotosRevistasPublicadas
<1>. QED
  BY <1>1, InvFSempre, PTL
=============================================================================
