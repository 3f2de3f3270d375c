----------------------------- MODULE Documentos -----------------------------
(***************************************************************************)
(* The life of the documentos of one obra: drafts, edits, human decisions  *)
(* and the publication of the final object, over a database whose rows are *)
(* read without lock and a bucket that is not part of the transaction.     *)
(* Requests interleave between their awaits and may die at any of them.    *)
(***************************************************************************)
EXTENDS Naturals, FiniteSets

CONSTANTS Rascunhos,  \* ids of documentos created by the draft operations
          Triados,    \* ids of documentos the worker files from a triage
          Tipos,      \* the kinds of draft requested, of {"rdo", "foto"}
          Dias, Hoje, \* days a document refers to; the day of publication
          Slugs,      \* slugs the obra may have
          Renomes,    \* bound: the renames <<from, to>> that may happen
          Pedidos,    \* requests in progress at one time
          UmProcesso, \* one API process: nothing runs between two awaits
          MaxRev,     \* bound: highest revision number
          MaxVersoes, \* bound: contents written by drafts and edits
          MaxFotos,   \* bound: photos ingested during the run
          MaxQuedas,  \* bound: requests that die half-way
          Nenhum

ASSUME DocumentosAssumption ==
    /\ Rascunhos \cap Triados = {}
    /\ Tipos \subseteq {"rdo", "foto"}
    /\ Renomes \subseteq Slugs \X Slugs
    /\ Hoje \in Dias /\ Nenhum \notin Dias \cup Slugs \cup Pedidos
    /\ UmProcesso \in BOOLEAN
    /\ MaxRev \in Nat /\ MaxVersoes \in Nat /\ MaxFotos \in Nat /\ MaxQuedas \in Nat

Docs == Rascunhos \cup Triados

VARIABLES slug,        \* current slug of the obra
          fotos,       \* photos of the obra, as a version number
          versoes,     \* last content version written
          documentos,  \* committed rows
          aprovacoes,  \* documentos with a committed positive Aprovacao
          bucket,      \* objects by key, with their sidecar
          pc, pedido,  \* where each request is and what it has read
          trava,       \* the request that holds the row of a documento
          quedas,
          decididos,   \* history: documentos some human asked to approve
          vistos,      \* history: contents of a documento when approved
          disputa,     \* history: documentos two requests overlapped on, or
                       \* one died on
          gemeos       \* history: drafts requested together

vars == <<slug, fotos, versoes, documentos, aprovacoes, bucket, pc, pedido,
          trava, quedas, decididos, vistos, disputa, gemeos>>

Status == {"ausente", "TRIADO", "RASCUNHO_GERADO", "EM_REVISAO", "APROVADO",
           "REPROVADO", "FINALIZADO_VALIDADO"}
Editaveis == {"RASCUNHO_GERADO", "EM_REVISAO", "REPROVADO"}

Conteudos == [forma : {"html", "pdf", "ilegivel"}, versao : Nat]
Html(v) == [forma |-> "html", versao |-> v]
Pdf(c) == [forma |-> IF c.forma = "html" THEN "pdf" ELSE "ilegivel",
           versao |-> c.versao]
(* A documento without draft is published as an empty page.                *)
Vazio == Html(0)

Revs == 0..MaxRev
(* Only the key of a photo draft has no slug.                              *)
Chaves == {k \in [tipo : Tipos \cup {"rdo"}, area : {"rascunho", "final"},
                  slug : Slugs \cup {Nenhum}, dia : Dias, rev : Revs] :
             k.slug = Nenhum <=> k.tipo = "foto" /\ k.area = "rascunho"}
Final(k) == k.area = "final"
Finais == {k \in Chaves : Final(k)}
ChaveRascunho(t, s, d, n) ==
    [tipo |-> t, area |-> "rascunho",
     slug |-> IF t = "rdo" THEN s ELSE Nenhum, dia |-> d, rev |-> n]
ChaveFinal(r, s) ==
    [tipo |-> r.tipo, area |-> "final", slug |-> s,
     dia |-> IF r.dia = Nenhum THEN Hoje ELSE r.dia, rev |-> r.rev]

(* An object: its content and the documento its sidecar names.             *)
Objetos == [conteudo : Conteudos, dono : Docs]
Guardado(k, c, d) == [bucket EXCEPT ![k] = [conteudo |-> c, dono |-> d]]
(* Mutant: allow_overwrite=False is ignored.                               *)
SempreLivre(k) == k \in Chaves
Livre(k) == bucket[k] = Nenhum

ASSUME NenhumAssumption ==
    Nenhum \notin Docs \cup Chaves \cup Conteudos \cup Objetos

Linhas == [tipo : Tipos \cup {"rdo"}, dia : Dias \cup {Nenhum}, rev : Revs,
           status : Status, chave : Chaves \cup {Nenhum},
           hash : Conteudos \cup {Nenhum}]
SemLinha == [tipo |-> "rdo", dia |-> Nenhum, rev |-> 0, status |-> "ausente",
             chave |-> Nenhum, hash |-> Nenhum]

SemPedido == [doc |-> Nenhum, lido |-> SemLinha, chave |-> Nenhum,
              conteudo |-> Nenhum]

Existe(d) == documentos[d].status # "ausente"

(* Revisions count per day for the RDO and per obra for the photo report.  *)
Revisoes(t, d) == {documentos[x].rev : x \in {y \in Docs :
                     /\ Existe(y) /\ documentos[y].tipo = t
                     /\ t = "rdo" => documentos[y].dia = d}}
(* Mutant: the highest number is taken without adding one.                 *)
UltimaRevisao(n, rs) ==
    \/ rs = {} /\ n = 0
    \/ n \in rs /\ \A r \in rs : r <= n
ProximaRevisao(n, rs) ==
    \/ rs = {} /\ n = 0
    \/ n - 1 \in rs /\ \A r \in rs : r < n

Init ==
    /\ slug \in Slugs
    /\ fotos = 0 /\ versoes = 0 /\ quedas = 0
    /\ documentos = [d \in Docs |-> SemLinha]
    /\ aprovacoes = {} /\ decididos = {}
    /\ bucket = [k \in Chaves |-> Nenhum]
    /\ pc = [p \in Pedidos |-> "livre"]
    /\ pedido = [p \in Pedidos |-> SemPedido]
    /\ trava = [d \in Docs |-> Nenhum]
    /\ vistos = [d \in Docs |-> {}]
    /\ disputa = {} /\ gemeos = {}

Ir(p, passo, dados) ==
    /\ pc' = [pc EXCEPT ![p] = passo]
    /\ pedido' = [pedido EXCEPT ![p] = dados]
Terminar(p) == Ir(p, "livre", SemPedido)

-----------------------------------------------------------------------------
(* Events outside the documentos.                                          *)

(* An edit of the obra's name changes its slug.                            *)
Renomear(s) ==
    /\ <<slug, s>> \in Renomes
    /\ slug' = s
    /\ UNCHANGED <<fotos, versoes, documentos, aprovacoes, bucket, pc, pedido,
                   trava, quedas, decididos, vistos, disputa, gemeos>>

ReceberFoto ==
    /\ fotos < MaxFotos
    /\ fotos' = fotos + 1
    /\ UNCHANGED <<slug, versoes, documentos, aprovacoes, bucket, pc, pedido,
                   trava, quedas, decididos, vistos, disputa, gemeos>>

(* The worker files a message classified as an RDO: no draft, no day.      *)
ArquivarTriado(d) ==
    /\ d \in Triados /\ ~Existe(d)
    /\ documentos' = [documentos EXCEPT ![d].status = "TRIADO"]
    /\ UNCHANGED <<slug, fotos, versoes, aprovacoes, bucket, pc, pedido,
                   trava, quedas, decididos, vistos, disputa, gemeos>>

-----------------------------------------------------------------------------
(* Drafts: the revision is read, the draft is put, the row is inserted.    *)

ConteudoNovo(t) == Html(IF t = "rdo" THEN versoes + 1 ELSE fotos)
LinhaNova(t, dia, n, k, c) ==
    [tipo |-> t, dia |-> dia, rev |-> n, chave |-> k, hash |-> c,
     status |-> "RASCUNHO_GERADO"]

LerRevisoes(p, d, t, dia) ==
    /\ pc[p] = "livre" /\ d \in Rascunhos /\ ~Existe(d)
    /\ \A q \in Pedidos : pedido[q].doc # d
    /\ t = "rdo" => versoes < MaxVersoes
    /\ \E n \in Revs :
         /\ ProximaRevisao(n, Revisoes(t, dia))
         /\ LET k == ChaveRascunho(t, slug, dia, n)
                c == ConteudoNovo(t)
            IN Ir(p, "rascunho",
                  [doc |-> d, chave |-> k, conteudo |-> c,
                   lido |-> LinhaNova(t, dia, n, k, c)])
    /\ versoes' = IF t = "rdo" THEN versoes + 1 ELSE versoes
    /\ LET outros == {q \in Pedidos : pc[q] \in {"rascunho", "rascunhoGuardado"}} IN
         gemeos' = IF outros = {} THEN gemeos
                   ELSE gemeos \cup {d} \cup {pedido[q].doc : q \in outros}
    /\ UNCHANGED <<slug, fotos, documentos, aprovacoes, bucket, trava, quedas,
                   decididos, vistos, disputa>>

GuardarRascunho(p) ==
    /\ pc[p] = "rascunho"
    /\ bucket' = Guardado(pedido[p].chave, pedido[p].conteudo, pedido[p].doc)
    /\ pc' = [pc EXCEPT ![p] = "rascunhoGuardado"]
    /\ UNCHANGED <<slug, fotos, versoes, documentos, aprovacoes, pedido, trava,
                   quedas, decididos, vistos, disputa, gemeos>>

CriarDocumento(p) ==
    /\ pc[p] = "rascunhoGuardado"
    /\ documentos' = [documentos EXCEPT ![pedido[p].doc] = pedido[p].lido]
    /\ Terminar(p)
    /\ UNCHANGED <<slug, fotos, versoes, aprovacoes, bucket, trava, quedas,
                   decididos, vistos, disputa, gemeos>>

-----------------------------------------------------------------------------
(* Operations on a documento read its row without locking it.  A request   *)
(* writes only the columns it changed with respect to what it read.        *)

LerDocumento(p, d, passo, c) ==
    /\ pc[p] = "livre" /\ Existe(d)
    /\ Ir(p, passo, [doc |-> d, lido |-> documentos[d], conteudo |-> c,
                     chave |-> documentos[d].chave])
    /\ disputa' = IF \E q \in Pedidos : pedido[q].doc = d
                  THEN disputa \cup {d} ELSE disputa
    /\ UNCHANGED <<slug, fotos, documentos, aprovacoes, bucket, trava, quedas,
                   decididos, vistos, gemeos>>

(* A write to the row of a documento waits for whoever holds it.           *)
Espera(p) ==
    /\ pc[p] \in {"edicaoGuardada", "decisao", "aprovacao", "publicada"}
    /\ trava[pedido[p].doc] \notin {Nenhum, p}

(* The status column after a write of novo by request p.                   *)
StatusGravado(p, novo) ==
    LET r == documentos[pedido[p].doc] IN
    IF pedido[p].lido.status = novo THEN r.status ELSE novo

(* Mutant: the edit looks at the kind and the day, not at the status.      *)
EditavelSemStatus(r) == r.tipo = "rdo" /\ r.dia # Nenhum
Editavel(r) == r.tipo = "rdo" /\ r.status \in Editaveis /\ r.dia # Nenhum

LerEdicao(p, d) ==
    /\ Editavel(documentos[d]) /\ versoes < MaxVersoes
    /\ LerDocumento(p, d, "edicao", Html(versoes + 1))
    /\ versoes' = versoes + 1

(* A row with a day has a key: the edit writes over it, whatever it is.    *)
GuardarEdicao(p) ==
    /\ pc[p] = "edicao"
    /\ bucket' = Guardado(pedido[p].chave, pedido[p].conteudo, pedido[p].doc)
    /\ pc' = [pc EXCEPT ![p] = "edicaoGuardada"]
    /\ UNCHANGED <<slug, fotos, versoes, documentos, aprovacoes, pedido, trava,
                   quedas, decididos, vistos, disputa, gemeos>>

GravarEdicao(p) ==
    LET d == pedido[p].doc IN
    /\ pc[p] = "edicaoGuardada" /\ ~Espera(p)
    /\ documentos' = [documentos EXCEPT
                        ![d] = [@ EXCEPT !.status = StatusGravado(p, "EM_REVISAO"),
                                         !.hash = pedido[p].conteudo]]
    /\ Terminar(p)
    /\ UNCHANGED <<slug, fotos, versoes, aprovacoes, bucket, trava, quedas,
                   decididos, vistos, disputa, gemeos>>

-----------------------------------------------------------------------------
(* approve_document: any documento, whatever its status.                   *)

LerDecisao(p, d) ==
    LerDocumento(p, d, "decisao", Nenhum) /\ UNCHANGED versoes

(* What a person who opens the documento sees.                             *)
Visto(d) ==
    IF documentos[d].chave = Nenhum THEN {Vazio}
    ELSE {bucket[documentos[d].chave].conteudo}

GravarDecisao(p, aprovado) ==
    LET d == pedido[p].doc
        novo == IF aprovado THEN "APROVADO" ELSE "REPROVADO"
    IN
    /\ pc[p] = "decisao" /\ ~Espera(p)
    /\ documentos' = [documentos EXCEPT ![d].status = StatusGravado(p, novo)]
    /\ aprovacoes' = IF aprovado THEN aprovacoes \cup {d} ELSE aprovacoes
    /\ decididos' = IF aprovado THEN decididos \cup {d} ELSE decididos
    /\ vistos' = IF aprovado THEN [vistos EXCEPT ![d] = @ \cup Visto(d)] ELSE vistos
    /\ Terminar(p)
    /\ UNCHANGED <<slug, fotos, versoes, bucket, trava, quedas, disputa, gemeos>>

-----------------------------------------------------------------------------
(* Publication.  finalize asks for status APROVADO; approve-and-finalize   *)
(* only refuses a FINALIZADO_VALIDADO documento, records the approval and  *)
(* holds the row until it commits.                                         *)

(* Mutant: the status is not looked at.                                    *)
SemExigirAprovacao(d) == documentos[d].status # "FINALIZADO_VALIDADO"
ExigeAprovacao(d) == documentos[d].status = "APROVADO" /\ d \in aprovacoes

LerFinalizacao(p, d) ==
    /\ documentos[d].tipo = "rdo" /\ ExigeAprovacao(d)
    /\ LerDocumento(p, d, "finalizacao", Nenhum)
    /\ UNCHANGED versoes

LerAprovacao(p, d) ==
    /\ documentos[d].status # "FINALIZADO_VALIDADO"
    /\ LerDocumento(p, d, "aprovacao", Nenhum)
    /\ UNCHANGED versoes

(* The flush of the approval takes the row lock; nobody sees it yet.       *)
GravarAprovacao(p) ==
    LET d == pedido[p].doc IN
    /\ pc[p] = "aprovacao" /\ ~Espera(p)
    /\ trava' = [trava EXCEPT ![d] = p]
    /\ decididos' = decididos \cup {d}
    /\ vistos' = [vistos EXCEPT ![d] = @ \cup Visto(d)]
    /\ pc' = [pc EXCEPT ![p] = "aprovada"]
    /\ UNCHANGED <<slug, fotos, versoes, documentos, aprovacoes, bucket, pedido,
                   quedas, disputa, gemeos>>

(* Mutant: the photos are not listed.                                      *)
ConteudoSemFotos(r) ==
    IF r.tipo = "foto" \/ r.chave = Nenhum THEN Pdf(Vazio)
    ELSE Pdf(bucket[r.chave].conteudo)
(* The RDO is the PDF of the stored draft, the photo report is rendered    *)
(* again from the photos of now.                                           *)
ConteudoFinal(r) ==
    IF r.tipo = "foto" THEN Pdf(Html(fotos))
    ELSE IF r.chave = Nenhum THEN Pdf(Vazio)
    ELSE Pdf(bucket[r.chave].conteudo)

ProntoParaPublicar == {"finalizacao", "aprovada"}

(* One process: the key is found free and written without an await.  The   *)
(* obra and the photos, awaited just before, are read in the same step; a  *)
(* photo that cannot be read is shown without its image.                   *)
Publicar(p) ==
    LET r == pedido[p].lido
        k == ChaveFinal(r, slug)
    IN
    /\ UmProcesso
    /\ pc[p] \in ProntoParaPublicar /\ Livre(k)
    /\ bucket' = Guardado(k, ConteudoFinal(r), pedido[p].doc)
    /\ Ir(p, "publicada", [pedido[p] EXCEPT !.chave = k,
                                            !.conteudo = ConteudoFinal(r)])
    /\ UNCHANGED <<slug, fotos, versoes, documentos, aprovacoes, trava, quedas,
                   decididos, vistos, disputa, gemeos>>

(* Several processes: another one may write between the check and the put. *)
VerificarChave(p) ==
    LET r == pedido[p].lido
        k == ChaveFinal(r, slug)
    IN
    /\ ~UmProcesso
    /\ pc[p] \in ProntoParaPublicar /\ Livre(k)
    /\ Ir(p, "verificada", [pedido[p] EXCEPT !.chave = k,
                                             !.conteudo = ConteudoFinal(r)])
    /\ UNCHANGED <<slug, fotos, versoes, documentos, aprovacoes, bucket, trava,
                   quedas, decididos, vistos, disputa, gemeos>>

PublicarVerificada(p) ==
    /\ pc[p] = "verificada"
    /\ bucket' = Guardado(pedido[p].chave, pedido[p].conteudo, pedido[p].doc)
    /\ pc' = [pc EXCEPT ![p] = "publicada"]
    /\ UNCHANGED <<slug, fotos, versoes, documentos, aprovacoes, pedido, trava,
                   quedas, decididos, vistos, disputa, gemeos>>

(* Mutant: an operation that does not commit keeps the row.                *)
NaoSoltar(p) == p \in Pedidos /\ trava' = trava
Soltar(p) == trava' = [d \in Docs |-> IF trava[d] = p THEN Nenhum ELSE trava[d]]

(* BucketConflictError: the transaction is rolled back, approval included. *)
ConflitarFinal(p) ==
    /\ pc[p] \in ProntoParaPublicar
    /\ ~Livre(ChaveFinal(pedido[p].lido, slug))
    /\ Terminar(p) /\ Soltar(p)
    /\ UNCHANGED <<slug, fotos, versoes, documentos, aprovacoes, bucket, quedas,
                   decididos, vistos, disputa, gemeos>>

(* Every column differs from what was read, so every one is written.       *)
GravarFinal(p) ==
    LET d == pedido[p].doc IN
    /\ pc[p] = "publicada" /\ ~Espera(p)
    /\ documentos' = [documentos EXCEPT
                        ![d] = [@ EXCEPT !.status = "FINALIZADO_VALIDADO",
                                         !.chave = pedido[p].chave,
                                         !.hash = pedido[p].conteudo]]
    /\ aprovacoes' = IF trava[d] = p THEN aprovacoes \cup {d} ELSE aprovacoes
    /\ Terminar(p) /\ Soltar(p)
    /\ UNCHANGED <<slug, fotos, versoes, bucket, quedas, decididos, vistos,
                   disputa, gemeos>>

(* The request dies: the transaction is rolled back, the bucket is not.    *)
Cair(p) ==
    /\ pc[p] # "livre" /\ quedas < MaxQuedas
    /\ quedas' = quedas + 1
    /\ Terminar(p) /\ Soltar(p)
    /\ disputa' = disputa \cup {pedido[p].doc}
    /\ UNCHANGED <<slug, fotos, versoes, documentos, aprovacoes, bucket,
                   decididos, vistos, gemeos>>

-----------------------------------------------------------------------------
Ambiente == \/ \E s \in Slugs : Renomear(s)
            \/ ReceberFoto
            \/ \E d \in Triados : ArquivarTriado(d)

Chamar(p) == \E d \in Docs :
    \/ \E t \in Tipos, dia \in Dias : LerRevisoes(p, d, t, dia)
    \/ LerEdicao(p, d) \/ LerDecisao(p, d)
    \/ LerFinalizacao(p, d) \/ LerAprovacao(p, d)

Prosseguir(p) ==
    \/ GuardarRascunho(p) \/ CriarDocumento(p)
    \/ GuardarEdicao(p) \/ GravarEdicao(p)
    \/ \E a \in BOOLEAN : GravarDecisao(p, a)
    \/ GravarAprovacao(p) \/ Publicar(p)
    \/ VerificarChave(p) \/ PublicarVerificada(p)
    \/ ConflitarFinal(p) \/ GravarFinal(p)

Next ==
    \/ Ambiente
    \/ \E p \in Pedidos : Chamar(p) \/ Prosseguir(p) \/ Cair(p)

Spec == Init /\ [][Next]_vars

-----------------------------------------------------------------------------
(* Type invariant *)

Passos == {"livre", "rascunho", "rascunhoGuardado", "edicao", "edicaoGuardada",
           "decisao", "finalizacao", "aprovacao", "aprovada", "verificada",
           "publicada"}

(* Every variable has its type.                                            *)
TypeOK ==
    /\ slug \in Slugs
    /\ fotos \in Nat /\ versoes \in 0..MaxVersoes /\ quedas \in 0..MaxQuedas
    /\ documentos \in [Docs -> Linhas]
    /\ aprovacoes \subseteq Docs /\ decididos \subseteq Docs
    /\ bucket \in [Chaves -> Objetos \cup {Nenhum}]
    /\ pc \in [Pedidos -> Passos]
    /\ pedido \in [Pedidos -> [doc : Docs \cup {Nenhum}, lido : Linhas,
                               chave : Chaves \cup {Nenhum},
                               conteudo : Conteudos \cup {Nenhum}]]
    /\ trava \in [Docs -> Pedidos \cup {Nenhum}]
    /\ vistos \in [Docs -> SUBSET Conteudos]
    /\ disputa \subseteq Docs /\ gemeos \subseteq Docs

-----------------------------------------------------------------------------
(* Properties that hold whatever the interleaving and the crashes.         *)

(* A documento is FINALIZADO_VALIDADO only with a committed approval: the  *)
(* gate of require_approval, though the status is read long before the     *)
(* publication commits and others may reject or edit in between.           *)
FinalizadoAprovado ==
    \A d \in Docs :
        documentos[d].status = "FINALIZADO_VALIDADO" => d \in aprovacoes

(* Whatever lies under a final key was put there for a documento some      *)
(* person asked to approve, with its kind, revision and day, even when the *)
(* request that published it died before its commit.                       *)
FinalDecidido ==
    \A k \in Finais : bucket[k] # Nenhum =>
        LET d == bucket[k].dono IN
        /\ d \in decididos
        /\ k = ChaveFinal(documentos[d], k.slug)

(* Nothing is final, as a row or as an object, without a human decision.   *)
FinalAprovado == FinalizadoAprovado /\ FinalDecidido

(* An approve-and-finalize holds the row of its documento from its first   *)
(* flush to its end, also when it dies, and nobody else holds it across a  *)
(* put.  (An edit or a decision holds it from the flush of its audit event *)
(* to its commit, with nothing in between: here both are the commit.)      *)
TravaDeQuemPublica ==
    \A d \in Docs : trava[d] # Nenhum =>
        /\ pedido[trava[d]].doc = d
        /\ pc[trava[d]] \in {"aprovada", "verificada", "publicada"}

(* The refinement: bucket and rows, as an outsider sees them.              *)
Promessa == INSTANCE Publicacao WITH
    dono <- [k \in Finais |->
               IF bucket[k] = Nenhum THEN Nenhum ELSE bucket[k].dono],
    publicado <- [d \in Docs |->
               IF documentos[d].status = "FINALIZADO_VALIDADO"
               THEN documentos[d].chave ELSE Nenhum]

(* With one process the life of documentos implements Publicacao: a final  *)
(* key is given once, to an approved documento, and no interleaving of     *)
(* drafts, edits, decisions and crashes gives it to another.               *)
ImplementaPublicacao == Promessa!Spec

(* Whoever a request waits for, for the row of its documento, is at the    *)
(* publication of that documento and waits for nobody: it commits,         *)
(* conflicts or dies, and the row goes with it.                            *)
SemImpasse ==
    \A p \in Pedidos : Espera(p) =>
        LET q == trava[pedido[p].doc] IN
          /\ pc[q] \in {"aprovada", "verificada", "publicada"}
          /\ pedido[q].doc = pedido[p].doc /\ ~Espera(q)

(* Row locks: held by who publishes, and nobody waits for ever.            *)
TravasEmOrdem == TypeOK /\ TravaDeQuemPublica /\ SemImpasse

-----------------------------------------------------------------------------
(* Properties of a documento no two requests overlapped on and none died   *)
(* on, or of a draft requested alone, whatever happens to the others; the  *)
(* requests do interleave.                                                 *)

EmCurso(d) == \E p \in Pedidos : pedido[p].doc = d
Incontestes == Docs \ (disputa \cup gemeos)
Quietos == {d \in Incontestes : Existe(d) /\ ~EmCurso(d)}

(* Between its requests hash_sha256 is the hash of the object the row      *)
(* names, through edits, publication, rejection of the published, renames. *)
HashConfere ==
    \A d \in Quietos : documentos[d].chave # Nenhum =>
        documentos[d].hash = bucket[documentos[d].chave].conteudo

Publicado(d, t) ==
    documentos[d].tipo = t /\ documentos[d].status = "FINALIZADO_VALIDADO"

(* The PDF an RDO publishes is of a text that its documento held when some *)
(* person approved it: an edit takes the approval away.                    *)
PublicaOAprovado ==
    \A d \in Incontestes : Publicado(d, "rdo") =>
        documentos[d].hash \in {Pdf(c) : c \in vistos[d]}

(* The report of photos is rendered again when it is published: it may     *)
(* have photos nobody reviewed, but none of those reviewed is missing,     *)
(* whatever requests overlap on it.                                        *)
FotosRevistasPublicadas ==
    \A d \in Docs \ gemeos : Publicado(d, "foto") =>
        \A c \in vistos[d] : c.versao <= documentos[d].hash.versao

MesmaSerie(r, s) == r.tipo = s.tipo /\ (r.tipo = "rdo" => r.dia = s.dia)
(* Drafts of the same kind and day have different revisions, but for those *)
(* whose requests were in progress together.                               *)
RevisaoUnica ==
    \A d \in Rascunhos \ gemeos, e \in Rascunhos :
        d # e /\ Existe(d) /\ Existe(e) /\ MesmaSerie(documentos[d], documentos[e])
            => documentos[d].rev # documentos[e].rev

(* An approved draft can be published: its final key is free unless it is  *)
(* itself what lies there, or a triaged documento, whose revision 0 nobody *)
(* counts, was published today.                                            *)
AprovadoPublicavel ==
    \A d \in Rascunhos \ gemeos : documentos[d].status = "APROVADO" =>
        LET k == ChaveFinal(documentos[d], slug) IN
        Livre(k) \/ bucket[k].dono \in {d} \cup Triados

(* The number of a draft serves it alone, up to its publication.           *)
RevisaoPropria == RevisaoUnica /\ AprovadoPublicavel

(* A published object is replaced only after a person took the documento   *)
(* it belongs to back: only an edit of a rejected documento does it.       *)
FinalMudaSoReaberto ==
    [][\A k \in Finais :
         /\ bucket[k] # Nenhum /\ bucket'[k] # bucket[k]
         /\ bucket[k].dono \notin disputa
         => documentos[bucket[k].dono].status \in {"REPROVADO", "EM_REVISAO"}]_vars

-----------------------------------------------------------------------------
(* docs/storage-taxonomy.md: objects under finalizados_pdf are not         *)
(* overwritten.  The code does overwrite them: see FinalMudaSoReaberto.    *)
FinalImutavel ==
    [][\A k \in Finais : bucket[k] # Nenhum => bucket'[k] = bucket[k]]_vars
=============================================================================
