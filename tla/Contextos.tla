------------------------------ MODULE Contextos ------------------------------
(***************************************************************************)
(* Telegram contexts of one chat: requests map the chat or one of its      *)
(* threads to an obra, while deliveries look the obra up.  Only the active *)
(* rows of a topic are unique; an upsert selects rows of any status and a  *)
(* delivery reads the thread and the chat in two statements.               *)
(***************************************************************************)
EXTENDS Naturals, FiniteSets

CONSTANTS Obras,
          Threads, Raiz,  \* topics: a thread, or the chat itself
          Configuracoes,  \* upsert requests; each inserts at most one row
          Entregas,       \* deliveries of the webhook
          MaxQuedas,      \* bound: upserts that die half-way
          Nenhum

Topicos == Threads \cup {Raiz}
Pedidos == Configuracoes \cup Entregas

Linha == [topico : Topicos, obra : Obras, ativo : BOOLEAN]

ASSUME ContextosAssumption ==
    /\ Raiz \notin Threads
    /\ Configuracoes \cap Entregas = {} /\ IsFiniteSet(Configuracoes)
    /\ Nenhum \notin Obras \cup Configuracoes \cup Linha
    /\ MaxQuedas \in Nat

VARIABLES obras,     \* registered obras
          linhas,    \* committed row inserted by each upsert
          trava,     \* upsert that wrote a row and has not committed
          escrita,   \* the row as that upsert leaves it
          pc, pedido,
          resposta,  \* obra and source each delivery was resolved to
          quedas,
          vistas,    \* history: active contexts during each delivery
          juntos     \* history: the upserts in progress along with each

vars == <<obras, linhas, trava, escrita, pc, pedido, resposta, quedas, vistas,
          juntos>>

Fontes == {"payload", "thread", "chat", "missing"}
SemPedido == [topico |-> Raiz, obra |-> Nenhum, ativo |-> FALSE,
              linha |-> Nenhum, lida |-> Nenhum]

Do(t) == {i \in Configuracoes : linhas[i] # Nenhum /\ linhas[i].topico = t}

Init ==
    /\ obras \in SUBSET Obras
    /\ linhas = [i \in Configuracoes |-> Nenhum]
    /\ trava = [i \in Configuracoes |-> Nenhum]
    /\ escrita = [p \in Configuracoes |-> Nenhum]
    /\ pc = [p \in Pedidos |-> "livre"]
    /\ pedido = [p \in Pedidos |-> SemPedido]
    /\ resposta = [e \in Entregas |-> Nenhum]
    /\ vistas = [e \in Entregas |-> {}]
    /\ quedas = 0
    /\ juntos = [p \in Configuracoes |-> {}]

Concluidos == {"livre", "feito", "recusado", "erro", "morto"}
Ativos == {p \in Pedidos : pc[p] \notin Concluidos}
Comecar(p) ==
    LET outros == Ativos \cap Configuracoes IN
    /\ pc[p] = "livre"
    /\ juntos' = [q \in Configuracoes |->
                    IF q = p THEN outros
                    ELSE IF q \in outros THEN juntos[q] \cup {p} ELSE juntos[q]]

CadastrarObra(o) ==
    /\ o \notin obras
    /\ obras' = obras \cup {o}
    /\ UNCHANGED <<linhas, trava, escrita, pc, pedido, resposta, vistas, quedas, juntos>>

-----------------------------------------------------------------------------
(* upsert_contexto *)

(* Mutant: the select finds no row.                                        *)
NuncaAchadas(t) == {i \in Do(t) : linhas[i].topico # t}
(* The select of the upsert does not look at the status.                   *)
Achadas(t) == Do(t)

(* scalar_one_or_none raises when there are two rows.                      *)
LerContexto(p, t, o, a) ==
    LET ids == Achadas(t) IN
    /\ p \in Configuracoes /\ Comecar(p)
    /\ pc' = [pc EXCEPT ![p] = IF o \notin obras THEN "recusado"
                               ELSE IF Cardinality(ids) > 1 THEN "erro"
                               ELSE "lido"]
    /\ \E i \in IF Cardinality(ids) = 1 THEN ids ELSE {Nenhum} :
         pedido' = [pedido EXCEPT ![p] =
            [topico |-> t, obra |-> o, ativo |-> a, linha |-> i,
             lida |-> IF i = Nenhum THEN Nenhum ELSE linhas[i]]]
    /\ UNCHANGED <<obras, linhas, trava, escrita, resposta, vistas, quedas>>

(* The row written: an INSERT under the id of the request, or an UPDATE of *)
(* the columns that differ from what was selected.                         *)
IdDe(p) == IF pedido[p].linha = Nenhum THEN p ELSE pedido[p].linha
Valor(p) ==
    LET r == pedido[p]
        atual == linhas[r.linha]
    IN IF r.linha = Nenhum
       THEN [topico |-> r.topico, obra |-> r.obra, ativo |-> r.ativo]
       ELSE [topico |-> r.topico,
             obra |-> IF r.obra = r.lida.obra THEN atual.obra ELSE r.obra,
             ativo |-> IF r.ativo = r.lida.ativo THEN atual.ativo ELSE r.ativo]

(* Mutant: the unique indexes of the active rows are missing.              *)
SemIndice(p) == p \in Configuracoes
(* No other row of the topic is active.                                    *)
IndicePermite(p) ==
    Valor(p).ativo =>
        \A i \in Do(pedido[p].topico) : i # IdDe(p) => ~linhas[i].ativo

(* An uncommitted version, old or new, that the index would have to judge. *)
IndiceOcupado(p, q) ==
    /\ Valor(p).ativo
    /\ pc[q] = "escrito" /\ escrita[q].topico = pedido[p].topico
    /\ \/ escrita[q].ativo
       \/ linhas[IdDe(q)] # Nenhum /\ linhas[IdDe(q)].ativo

(* p waits for the end of q, which wrote its row or what the index judges. *)
Espera(p, q) ==
    pc[p] = "lido" /\ q # p /\ (trava[IdDe(p)] = q \/ IndiceOcupado(p, q))

Escrever(p) ==
    /\ pc[p] = "lido" /\ \A q \in Configuracoes : ~Espera(p, q)
    /\ IF IndicePermite(p)
       THEN /\ trava' = [trava EXCEPT ![IdDe(p)] = p]
            /\ escrita' = [escrita EXCEPT ![p] = Valor(p)]
            /\ pc' = [pc EXCEPT ![p] = "escrito"]
       ELSE /\ pc' = [pc EXCEPT ![p] = "erro"]
            /\ UNCHANGED <<trava, escrita>>
    /\ UNCHANGED <<obras, linhas, pedido, resposta, vistas, quedas, juntos>>

Soltar(p) ==
    trava' = [i \in Configuracoes |-> IF trava[i] = p THEN Nenhum ELSE trava[i]]

(* What is active in a state of the table, for the topic t and its chat.   *)
AtivasEm(l, t) ==
    {l[i].obra : i \in {j \in Configuracoes : /\ l[j] # Nenhum
                                              /\ l[j].topico = t /\ l[j].ativo}}
Vista(l, t) == [thread |-> IF t = Raiz THEN {} ELSE AtivasEm(l, t),
                raiz |-> AtivasEm(l, Raiz)]

Confirmar(p) ==
    LET l == [linhas EXCEPT ![IdDe(p)] = escrita[p]] IN
    /\ pc[p] = "escrito"
    /\ linhas' = l
    /\ vistas' = [e \in Entregas |->
                    IF e \in Ativos THEN vistas[e] \cup {Vista(l, pedido[e].topico)}
                    ELSE vistas[e]]
    /\ escrita' = [escrita EXCEPT ![p] = Nenhum]
    /\ pc' = [pc EXCEPT ![p] = "feito"]
    /\ Soltar(p)
    /\ UNCHANGED <<obras, pedido, resposta, quedas, juntos>>

Cair(p) ==
    /\ p \in Configuracoes \cap Ativos /\ quedas < MaxQuedas
    /\ quedas' = quedas + 1
    /\ escrita' = [escrita EXCEPT ![p] = Nenhum]
    /\ pc' = [pc EXCEPT ![p] = "morto"]
    /\ Soltar(p)
    /\ UNCHANGED <<obras, linhas, pedido, resposta, vistas, juntos>>

-----------------------------------------------------------------------------
(* resolve_telegram_obra and find_active_contexto *)

Responder(e, o, fonte) ==
    /\ resposta' = [resposta EXCEPT ![e] = [obra |-> o, fonte |-> fonte]]
    /\ pc' = [pc EXCEPT ![e] = "feito"]

(* An obra named by the payload or by the prefix of the text.              *)
ResolverNomeada(e, o) ==
    /\ e \in Entregas /\ pc[e] = "livre"
    /\ Responder(e, IF o \in obras THEN o ELSE Nenhum, "payload")
    /\ UNCHANGED <<obras, linhas, trava, escrita, pedido, vistas, quedas, juntos>>

(* Mutant: contexts of any status route messages.                          *)
ComInativas(t) == Do(t)
Roteiam(t) == {i \in Do(t) : linhas[i].ativo}

(* One select; a chat without thread only has the second.                  *)
Achar(e, t, fonte, senao) ==
    LET ids == Roteiam(t) IN
    \/ /\ Cardinality(ids) > 1
       /\ pc' = [pc EXCEPT ![e] = "erro"] /\ UNCHANGED resposta
    \/ \E i \in ids : Cardinality(ids) = 1 /\ Responder(e, linhas[i].obra, fonte)
    \/ ids = {} /\ senao

LerThread(e, t) ==
    /\ e \in Entregas /\ pc[e] = "livre"
    /\ pedido' = [pedido EXCEPT ![e].topico = t]
    /\ vistas' = [vistas EXCEPT ![e] = {Vista(linhas, t)}]
    /\ IF t = Raiz
       THEN pc' = [pc EXCEPT ![e] = "raiz"] /\ UNCHANGED resposta
       ELSE Achar(e, t, "thread",
                  pc' = [pc EXCEPT ![e] = "raiz"] /\ UNCHANGED resposta)
    /\ UNCHANGED <<obras, linhas, trava, escrita, quedas, juntos>>

LerRaiz(e) ==
    /\ e \in Entregas /\ pc[e] = "raiz"
    /\ Achar(e, Raiz, "chat", Responder(e, Nenhum, "missing"))
    /\ UNCHANGED <<obras, linhas, trava, escrita, pedido, vistas, quedas, juntos>>

-----------------------------------------------------------------------------
Chamar(p) ==
    \/ \E t \in Topicos, o \in Obras, a \in BOOLEAN : LerContexto(p, t, o, a)
    \/ \E o \in Obras : ResolverNomeada(p, o)
    \/ \E t \in Topicos : LerThread(p, t)

Prosseguir(p) == p \in Pedidos /\ (Escrever(p) \/ Confirmar(p) \/ LerRaiz(p))

Next ==
    \/ \E o \in Obras : CadastrarObra(o)
    \/ \E p \in Pedidos : Chamar(p) \/ Prosseguir(p) \/ Cair(p)

Spec == Init /\ [][Next]_vars

-----------------------------------------------------------------------------
(* Every variable has its type.                                            *)
TypeOK ==
    /\ obras \subseteq Obras
    /\ linhas \in [Configuracoes -> Linha \cup {Nenhum}]
    /\ trava \in [Configuracoes -> Configuracoes \cup {Nenhum}]
    /\ escrita \in [Configuracoes -> Linha \cup {Nenhum}]
    /\ pc \in [Pedidos -> Concluidos \cup {"lido", "escrito", "raiz"}]
    /\ pedido \in [Pedidos -> [topico : Topicos, obra : Obras \cup {Nenhum},
                               ativo : BOOLEAN, linha : Configuracoes \cup {Nenhum},
                               lida : Linha \cup {Nenhum}]]
    /\ resposta \in [Entregas -> {Nenhum} \cup
                       [obra : Obras \cup {Nenhum}, fonte : Fontes]]
    /\ quedas \in Nat
    /\ vistas \in [Entregas -> SUBSET [thread : SUBSET Obras, raiz : SUBSET Obras]]
    /\ juntos \in [Configuracoes -> SUBSET Configuracoes]

(* A delivery never meets two active contexts of one topic, which would    *)
(* make scalar_one_or_none raise and lose it with a 500: upserts that      *)
(* insert, reactivate and update at once leave at most one.                *)
EntregaResolve == \A e \in Entregas : pc[e] # "erro"

(* A delivery is given an obra only by a context that was active for its   *)
(* topic at some moment of the delivery, and the chat's context only if    *)
(* at some moment its thread had none.                                     *)
RotaTemMotivo ==
    \A e \in Entregas : resposta[e] # Nenhum =>
        /\ resposta[e].fonte = "thread" =>
             \E v \in vistas[e] : resposta[e].obra \in v.thread
        /\ resposta[e].fonte = "chat" =>
             /\ \E v \in vistas[e] : resposta[e].obra \in v.raiz
             /\ \E v \in vistas[e] : v.thread = {}
        /\ resposta[e].fonte = "missing" =>
             /\ \E v \in vistas[e] : v.raiz = {}
             /\ \E v \in vistas[e] : v.thread = {}

(* A request waits only for an upsert of its own topic that has nothing    *)
(* left to do but to commit: the locks of a row and of the unique index of *)
(* the active rows go with the upsert that holds them, also when it dies.  *)
SemImpasse ==
    \A p, q \in Configuracoes : Espera(p, q) =>
        pc[q] = "escrito" /\ escrita[q].topico = pedido[p].topico

(* A topic has one row, active or not, but for upserts that were in        *)
(* progress together and both found none.                                  *)
UmaLinhaPorTopico ==
    \A t \in Topicos : \A i, j \in Do(t) : i = j \/ j \in juntos[i]

(* An upsert is refused (two rows found, or the index) only after two      *)
(* upserts of its topic were in progress together.                         *)
ConfiguracaoAceita ==
    \A p \in Configuracoes : pc[p] = "erro" =>
        \E q \in Configuracoes : \E r \in juntos[q] :
            pedido[q].topico = pedido[p].topico /\ pedido[r].topico = pedido[p].topico

(* What goes wrong with a topic, or keeps an upsert of it waiting, goes    *)
(* back to two upserts of it in progress together.                         *)
TopicoIntegro ==
    TypeOK /\ SemImpasse /\ UmaLinhaPorTopico /\ ConfiguracaoAceita
=============================================================================
