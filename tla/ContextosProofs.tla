--------------------------- MODULE ContextosProofs ---------------------------
(***************************************************************************)
(* Proofs about Contextos, for any obras, threads, upserts, deliveries and *)
(* any number of deaths.                                                   *)
(***************************************************************************)
EXTENDS Contextos, FiniteSetTheorems, TLAPS

EmAberto(p) == pc[p] \in {"lido", "escrito"}

(* Upserts and deliveries go through steps of their own.                   *)
Papeis ==
    /\ \A p \in Configuracoes : pc[p] # "raiz"
    /\ \A e \in Entregas : ~EmAberto(e)

(* A row is inserted by one upsert, under its own name and topic; the row  *)
(* an upsert found is still there, in the same topic.                      *)
LinhasCertas ==
    /\ \A i \in Configuracoes : linhas[i] # Nenhum =>
          /\ pc[i] = "feito" /\ pedido[i].linha = Nenhum
          /\ linhas[i].topico = pedido[i].topico
    /\ \A p \in Configuracoes : EmAberto(p) =>
          /\ pedido[p].obra \in Obras
          /\ (pedido[p].linha = Nenhum <=> pedido[p].lida = Nenhum)
          /\ pedido[p].linha # Nenhum =>
                linhas[pedido[p].linha] # Nenhum
                /\ linhas[pedido[p].linha].topico = pedido[p].topico

(* A row written and not committed is locked by who wrote it.              *)
TravasCertas ==
    /\ \A p \in Configuracoes : pc[p] = "escrito" =>
          /\ trava[IdDe(p)] = p
          /\ escrita[p] # Nenhum /\ escrita[p].topico = pedido[p].topico
    /\ \A i \in Configuracoes : trava[i] # Nenhum =>
          pc[trava[i]] = "escrito" /\ IdDe(trava[i]) = i

(* The unique index of the active rows, in what is committed, between that *)
(* and each write, and between two writes.                                 *)
AtivaUnica ==
    \A i, j \in Configuracoes :
        /\ linhas[i] # Nenhum /\ linhas[j] # Nenhum
        /\ linhas[i].topico = linhas[j].topico /\ linhas[i].ativo /\ linhas[j].ativo
        => i = j
EscritaPermitida ==
    \A p \in Configuracoes : pc[p] = "escrito" /\ escrita[p].ativo =>
        /\ \A i \in Configuracoes :
              /\ linhas[i] # Nenhum /\ i # IdDe(p)
              /\ linhas[i].topico = escrita[p].topico
              => ~linhas[i].ativo
        /\ \A q \in Configuracoes :
              /\ pc[q] = "escrito" /\ q # p /\ escrita[q].topico = escrita[p].topico
              => ~escrita[q].ativo

Inv1 == TypeOK /\ Papeis /\ LinhasCertas /\ TravasCertas /\ AtivaUnica /\ EscritaPermitida

(* Upserts in progress together know each other, and an upsert that found  *)
(* no row knows whoever has inserted one since.                            *)
Conhecidos ==
    /\ \A p, q \in Configuracoes : q \in juntos[p] =>
          p \in juntos[q] /\ pc[p] # "livre" /\ pc[q] # "livre"
    /\ \A p, q \in Configuracoes :
          EmAberto(p) /\ EmAberto(q) /\ p # q => q \in juntos[p]
    /\ \A p, i \in Configuracoes :
          /\ EmAberto(p) /\ pedido[p].linha = Nenhum
          /\ linhas[i] # Nenhum /\ linhas[i].topico = pedido[p].topico
          => i \in juntos[p]

Inv2 == Inv1 /\ Conhecidos /\ UmaLinhaPorTopico /\ ConfiguracaoAceita

(* A delivery in progress has noted what routes its messages now, and, if  *)
(* it went on to the chat, that its thread had no active context.          *)
VistasCertas ==
    \A e \in Entregas :
        /\ pc[e] \in {"livre", "raiz"} => resposta[e] = Nenhum
        /\ pc[e] = "raiz" => /\ Vista(linhas, pedido[e].topico) \in vistas[e]
                            /\ \E v \in vistas[e] : v.thread = {}

Inv3 == Inv1 /\ EntregaResolve /\ VistasCertas /\ RotaTemMotivo
-----------------------------------------------------------------------------
(* What the code asks of the number of rows a select returned.             *)
LEMMA Contagens ==
    ASSUME NEW S \in SUBSET Configuracoes
    PROVE  /\ Cardinality(S) \in Nat
           /\ Cardinality(S) = 0 <=> S = {}
           /\ Cardinality(S) = 1 => \E x \in S : S = {x}
           /\ Cardinality(S) > 1 => \E x, y \in S : x # y
<1>1. IsFiniteSet(S)
  BY FS_Subset, ContextosAssumption
<1>2. Cardinality(S) \in Nat /\ (Cardinality(S) = 0 <=> S = {})
  BY <1>1, FS_CardinalityType, FS_EmptySet
<1>3. (\E x : S = {x}) <=> Cardinality(S) = 1
  BY <1>1, FS_Singleton
<1>. QED
  BY <1>2, <1>3

LEMMA TipoDeVista ==
    ASSUME NEW l \in [Configuracoes -> Linha \cup {Nenhum}], NEW t \in Topicos
    PROVE  Vista(l, t) \in [thread : SUBSET Obras, raiz : SUBSET Obras]
<1>1. \A u \in Topicos : AtivasEm(l, u) \subseteq Obras
  BY ContextosAssumption DEF AtivasEm, Linha
<1>. QED
  BY <1>1 DEF Vista, Topicos

(* Every step keeps the types.                                             *)
LEMMA PassoTipos == ASSUME TypeOK, Papeis, LinhasCertas, [Next]_vars PROVE TypeOK'
<1> DEFINE Passos == Concluidos \cup {"lido", "escrito", "raiz"}
<1> DEFINE Locais == [topico : Topicos, obra : Obras \cup {Nenhum}, ativo : BOOLEAN,
                      linha : Configuracoes \cup {Nenhum}, lida : Linha \cup {Nenhum}]
<1> DEFINE Destinos == [obra : Obras \cup {Nenhum}, fonte : Fontes]
<1> USE ContextosAssumption DEF TypeOK, Pedidos, Concluidos
<1>1. ASSUME NEW o \in Obras, CadastrarObra(o) PROVE TypeOK'
  BY <1>1 DEF CadastrarObra
<1>2. ASSUME NEW p \in Pedidos, NEW t \in Topicos, NEW o \in Obras,
             NEW a \in BOOLEAN, LerContexto(p, t, o, a)
      PROVE  TypeOK'
  BY <1>2, Contagens DEF LerContexto, Comecar, Ativos, Achadas, Do
<1>3. ASSUME NEW p \in Pedidos, NEW o \in Obras, ResolverNomeada(p, o)
      PROVE  TypeOK'
  BY <1>3 DEF ResolverNomeada, Responder, Fontes
<1>4. ASSUME NEW e \in Pedidos, NEW t \in Topicos, LerThread(e, t)
      PROVE  TypeOK'
  <2>1. pc' \in [Pedidos -> Passos] /\ resposta' \in [Entregas -> {Nenhum} \cup Destinos]
    <3>1. CASE t = Raiz
      BY <1>4, <3>1 DEF LerThread
    <3>2. CASE t # Raiz /\ Cardinality(Roteiam(t)) > 1
      BY <1>4, <3>2 DEF LerThread, Achar
    <3>3. ASSUME NEW i \in Roteiam(t), t # Raiz, Responder(e, linhas[i].obra, "thread")
          PROVE  /\ pc' \in [Pedidos -> Passos]
                 /\ resposta' \in [Entregas -> {Nenhum} \cup Destinos]
      BY <1>4, <3>3 DEF LerThread, Responder, Fontes, Roteiam, Do, Linha
    <3>4. CASE t # Raiz /\ Roteiam(t) = {}
      BY <1>4, <3>4 DEF LerThread, Achar
    <3>. QED
      BY <1>4, <3>1, <3>2, <3>3, <3>4 DEF LerThread, Achar
  <2>2. UNCHANGED <<obras, linhas, trava, escrita, quedas, juntos>>
    BY <1>4 DEF LerThread
  <2>3. pedido' = [pedido EXCEPT ![e].topico = t]
    BY <1>4 DEF LerThread
  <2>4. [pedido[e] EXCEPT !.topico = t] \in Locais
    <3>1. pedido[e] \in Locais
      OBVIOUS
    <3> HIDE DEF TypeOK, Topicos
    <3>. QED
      BY <3>1
  <2>5. pedido' \in [Pedidos -> Locais]
    BY <2>3, <2>4
  <2>6. vistas' \in [Entregas -> SUBSET [thread : SUBSET Obras, raiz : SUBSET Obras]]
    BY <1>4, TipoDeVista DEF LerThread
  <2>. QED
    BY <2>1, <2>2, <2>5, <2>6
<1>5. ASSUME NEW p \in Pedidos, Escrever(p) PROVE TypeOK'
  <2>1. p \in Configuracoes /\ IdDe(p) \in Configuracoes /\ pc[p] = "lido"
    BY <1>5 DEF Escrever, Papeis, EmAberto, IdDe
  <2>2. Valor(p) \in Linha
    BY <2>1 DEF Valor, Linha, LinhasCertas, EmAberto
  <2>3. CASE IndicePermite(p)
    <3>1. /\ trava' = [trava EXCEPT ![IdDe(p)] = p]
          /\ escrita' = [escrita EXCEPT ![p] = Valor(p)]
          /\ pc' = [pc EXCEPT ![p] = "escrito"]
          /\ UNCHANGED <<obras, linhas, pedido, resposta, vistas, quedas, juntos>>
      BY <1>5, <2>3 DEF Escrever
    <3>. QED
      BY <2>1, <2>2, <3>1
  <2>4. CASE ~IndicePermite(p)
    BY <1>5, <2>1, <2>4 DEF Escrever
  <2>. QED
    BY <2>3, <2>4
<1>6. ASSUME NEW p \in Pedidos, Confirmar(p) PROVE TypeOK'
  <2>1. p \in Configuracoes /\ IdDe(p) \in Configuracoes
    BY <1>6 DEF Confirmar, Papeis, EmAberto, IdDe
  <2>2. /\ linhas' \in [Configuracoes -> Linha \cup {Nenhum}]
        /\ \A e \in Entregas : pedido[e].topico \in Topicos
    BY <1>6, <2>1 DEF Confirmar
  <2>3. vistas' \in [Entregas -> SUBSET [thread : SUBSET Obras, raiz : SUBSET Obras]]
    <3>1. vistas' = [e \in Entregas |->
                      IF e \in Ativos
                      THEN vistas[e] \cup {Vista(linhas', pedido[e].topico)}
                      ELSE vistas[e]]
      BY <1>6 DEF Confirmar
    <3>2. \A e \in Entregas : Vista(linhas', pedido[e].topico)
                               \in [thread : SUBSET Obras, raiz : SUBSET Obras]
      BY <2>2, TipoDeVista
    <3>. QED
      BY <3>1, <3>2
  <2>. QED
    BY <1>6, <2>1, <2>2, <2>3 DEF Confirmar, Soltar
<1>7. ASSUME NEW e \in Pedidos, LerRaiz(e) PROVE TypeOK'
  <2>1. pc' \in [Pedidos -> Passos] /\ resposta' \in [Entregas -> {Nenhum} \cup Destinos]
    <3>1. CASE pc' = [pc EXCEPT ![e] = "erro"] /\ UNCHANGED resposta
      BY <3>1
    <3>2. ASSUME NEW i \in Roteiam(Raiz), Responder(e, linhas[i].obra, "chat")
          PROVE  /\ pc' \in [Pedidos -> Passos]
                 /\ resposta' \in [Entregas -> {Nenhum} \cup Destinos]
      BY <1>7, <3>2 DEF LerRaiz, Responder, Fontes, Roteiam, Do, Linha
    <3>3. CASE Responder(e, Nenhum, "missing")
      BY <1>7, <3>3 DEF LerRaiz, Responder, Fontes
    <3>. QED
      BY <1>7, <3>1, <3>2, <3>3 DEF LerRaiz, Achar
  <2>. QED
    BY <1>7, <2>1 DEF LerRaiz
<1>8. ASSUME NEW p \in Pedidos, Cair(p) PROVE TypeOK'
  BY <1>8 DEF Cair, Soltar
<1>9. CASE UNCHANGED vars
  BY <1>9 DEF vars
<1> HIDE DEF TypeOK, Pedidos
<1>. QED
  BY <1>1, <1>2, <1>3, <1>4, <1>5, <1>6, <1>7, <1>8, <1>9
     DEF Next, Chamar, Prosseguir

-----------------------------------------------------------------------------
(* A commit keeps the rows there are, each in its topic, and brings in at  *)
(* most the one the upsert inserts.                                        *)
LEMMA Confirmada ==
    ASSUME Inv1, NEW p \in Pedidos, Confirmar(p)
    PROVE  /\ p \in Configuracoes /\ pc[p] = "escrito" /\ IdDe(p) \in Configuracoes
           /\ trava[IdDe(p)] = p /\ escrita[p] \in Linha /\ escrita[p] # Nenhum
           /\ escrita[p].topico = pedido[p].topico
           /\ \A i \in Configuracoes :
                 /\ linhas[i] # Nenhum =>
                       linhas'[i] # Nenhum /\ linhas'[i].topico = linhas[i].topico
                 /\ linhas'[i] # Nenhum => linhas[i] # Nenhum \/ i = p
                 /\ linhas[i] = Nenhum /\ linhas'[i] # Nenhum =>
                       pedido[p].linha = Nenhum /\ linhas'[i].topico = pedido[p].topico
                 /\ i # IdDe(p) => linhas'[i] = linhas[i]
<1> USE ContextosAssumption
<1>0. TypeOK /\ Papeis /\ LinhasCertas /\ TravasCertas
  BY DEF Inv1
<1>1. p \in Configuracoes /\ pc[p] = "escrito" /\ IdDe(p) \in Configuracoes
  BY <1>0 DEF Confirmar, Papeis, EmAberto, IdDe, TypeOK, Pedidos
<1>2. linhas' = [linhas EXCEPT ![IdDe(p)] = escrita[p]]
  BY DEF Confirmar
<1>3. /\ trava[IdDe(p)] = p /\ escrita[p] \in Linha /\ escrita[p] # Nenhum
      /\ escrita[p].topico = pedido[p].topico
  BY <1>0, <1>1 DEF TravasCertas, TypeOK
<1>4. IdDe(p) # p =>
        linhas[IdDe(p)] # Nenhum /\ linhas[IdDe(p)].topico = escrita[p].topico
  BY <1>0, <1>1, <1>3 DEF IdDe, LinhasCertas, EmAberto
<1>5. IdDe(p) = p => linhas[p] = Nenhum /\ pedido[p].linha = Nenhum
  BY <1>0, <1>1 DEF IdDe, LinhasCertas, EmAberto
<1>6. \A i \in Configuracoes : linhas'[i] = IF i = IdDe(p) THEN escrita[p] ELSE linhas[i]
  BY <1>0, <1>2 DEF TypeOK
<1>. QED
  BY <1>1, <1>3, <1>4, <1>5, <1>6

(* Every step keeps the rows, their locks and the index in order.          *)
LEMMA PassoInv1 == ASSUME Inv1, [Next]_vars PROVE Inv1'
<1> DEFINE Certas == Papeis /\ LinhasCertas /\ TravasCertas
<1> DEFINE Unicas == AtivaUnica /\ EscritaPermitida
<1>0. TypeOK /\ TypeOK' /\ Certas /\ Unicas
  BY PassoTipos DEF Inv1
<1> USE ContextosAssumption
<1>1. ASSUME NEW o \in Obras, CadastrarObra(o) PROVE Certas' /\ Unicas'
  BY <1>0, <1>1 DEF CadastrarObra, Papeis, EmAberto, LinhasCertas, TravasCertas,
     IdDe, AtivaUnica, EscritaPermitida
<1>2. ASSUME NEW p \in Pedidos, NEW t \in Topicos, NEW o \in Obras,
             NEW a \in BOOLEAN, LerContexto(p, t, o, a)
      PROVE  Certas' /\ Unicas'
  <2>1. /\ p \in Configuracoes /\ pc[p] = "livre"
        /\ \A x \in Pedidos : x # p => pc'[x] = pc[x] /\ pedido'[x] = pedido[x]
        /\ pc'[p] \in {"recusado", "erro", "lido"}
        /\ UNCHANGED <<linhas, trava, escrita>>
    BY <1>0, <1>2 DEF LerContexto, Comecar, TypeOK, Pedidos
  <2>2. pc'[p] = "lido" =>
          /\ pedido'[p].obra \in Obras /\ pedido'[p].topico = t
          /\ (pedido'[p].linha = Nenhum <=> pedido'[p].lida = Nenhum)
          /\ pedido'[p].linha # Nenhum => pedido'[p].linha \in Achadas(t)
    <3>1. PICK i \in IF Cardinality(Achadas(t)) = 1 THEN Achadas(t) ELSE {Nenhum} :
            pedido' = [pedido EXCEPT ![p] =
               [topico |-> t, obra |-> o, ativo |-> a, linha |-> i,
                lida |-> IF i = Nenhum THEN Nenhum ELSE linhas[i]]]
      BY <1>2 DEF LerContexto
    <3>2. i = Nenhum \/ i \in Achadas(t)
      BY <3>1
    <3>3. i \in Achadas(t) => i \in Configuracoes /\ linhas[i] # Nenhum /\ i # Nenhum
      BY DEF Achadas, Do
    <3>. QED
      BY <1>0, <2>1, <3>1, <3>2, <3>3 DEF TypeOK, Pedidos
  <2>3. Papeis' /\ LinhasCertas'
    BY <1>0, <2>1, <2>2 DEF Papeis, EmAberto, LinhasCertas, Achadas, Do, Pedidos
  <2>4. TravasCertas'
    <3>1. \A x \in Configuracoes : pc'[x] = "escrito" =>
            x # p /\ pc[x] = "escrito" /\ IdDe(x)' = IdDe(x) /\ pedido'[x] = pedido[x]
      BY <2>1 DEF IdDe, Pedidos
    <3>2. \A i \in Configuracoes : trava[i] # Nenhum =>
            trava[i] \in Configuracoes \ {p} /\ pc[trava[i]] = "escrito"
      BY <1>0, <2>1 DEF TypeOK, TravasCertas
    <3>3. \A x \in Configuracoes \ {p} : pc'[x] = pc[x] /\ IdDe(x)' = IdDe(x)
      BY <2>1 DEF IdDe, Pedidos
    <3>. QED
      BY <1>0, <2>1, <3>1, <3>2, <3>3 DEF TravasCertas
  <2>5. Unicas'
    BY <1>0, <2>1 DEF TravasCertas, AtivaUnica, EscritaPermitida, IdDe, Pedidos
  <2>. QED
    BY <2>3, <2>4, <2>5
<1>3. ASSUME NEW e \in Entregas,
             \A x \in Configuracoes : pc'[x] = pc[x] /\ pedido'[x] = pedido[x],
             \A x \in Entregas : pc'[x] = pc[x] \/ pc'[x] \in {"feito", "raiz", "erro"},
             UNCHANGED <<linhas, trava, escrita>>
      PROVE  Certas' /\ Unicas'
  <2>1. Papeis' /\ LinhasCertas'
    BY <1>0, <1>3 DEF Papeis, EmAberto, LinhasCertas
  <2>2. TravasCertas'
    BY <1>0, <1>3 DEF TypeOK, TravasCertas, IdDe
  <2>3. Unicas'
    BY <1>0, <1>3 DEF AtivaUnica, EscritaPermitida, IdDe
  <2>. QED
    BY <2>1, <2>2, <2>3
<1>4. ASSUME NEW p \in Pedidos, NEW o \in Obras, ResolverNomeada(p, o)
      PROVE Certas' /\ Unicas'
  BY <1>0, <1>3, <1>4 DEF ResolverNomeada, Responder, TypeOK, Pedidos
<1>5. ASSUME NEW p \in Pedidos, NEW t \in Topicos, LerThread(p, t)
      PROVE Certas' /\ Unicas'
  <2>1. /\ p \in Entregas /\ pedido' = [pedido EXCEPT ![p].topico = t]
        /\ UNCHANGED <<linhas, trava, escrita>>
    BY <1>5 DEF LerThread
  <2>2. \A x \in Configuracoes : pedido'[x] = pedido[x]
    BY <1>0, <2>1 DEF TypeOK, Pedidos
  <2>3. \E passo \in {"feito", "raiz", "erro"} : pc' = [pc EXCEPT ![p] = passo]
    BY <1>5 DEF LerThread, Achar, Responder
  <2>4. /\ \A x \in Configuracoes : pc'[x] = pc[x]
        /\ \A x \in Entregas : pc'[x] = pc[x] \/ pc'[x] \in {"feito", "raiz", "erro"}
    BY <1>0, <2>1, <2>3 DEF TypeOK, Pedidos
  <2>. QED
    BY <1>3, <2>1, <2>2, <2>4
<1>6. ASSUME NEW p \in Pedidos, LerRaiz(p) PROVE Certas' /\ Unicas'
  BY <1>0, <1>3, <1>6 DEF LerRaiz, Achar, Responder, TypeOK, Pedidos
<1>7. ASSUME NEW p \in Pedidos, Escrever(p) PROVE Certas' /\ Unicas'
  <2>1. /\ p \in Configuracoes /\ pc[p] = "lido" /\ IdDe(p) \in Configuracoes
        /\ UNCHANGED <<linhas, pedido>>
    BY <1>0, <1>7 DEF Escrever, Papeis, EmAberto, IdDe, TypeOK, Pedidos
  <2>2. Valor(p) \in Linha /\ Valor(p).topico = pedido[p].topico
    BY <1>0, <2>1 DEF Valor, Linha, LinhasCertas, EmAberto, TypeOK, Pedidos
  <2>3. CASE IndicePermite(p)
    <3>1. /\ trava' = [trava EXCEPT ![IdDe(p)] = p]
          /\ escrita' = [escrita EXCEPT ![p] = Valor(p)]
          /\ pc' = [pc EXCEPT ![p] = "escrito"]
      BY <1>7, <2>3 DEF Escrever
    <3>2. trava[IdDe(p)] = Nenhum
      BY <1>0, <1>7, <2>1 DEF Escrever, Espera, TravasCertas, TypeOK
    <3>3. Papeis' /\ LinhasCertas'
      BY <1>0, <2>1, <3>1 DEF TypeOK, Papeis, EmAberto, LinhasCertas, Pedidos
    <3>4. TravasCertas'
      BY <1>0, <2>1, <2>2, <3>1, <3>2 DEF TypeOK, TravasCertas, IdDe, Pedidos
    <3>5. Valor(p).ativo => \A q \in Configuracoes :
            pc[q] = "escrito" /\ q # p /\ escrita[q].topico = pedido[p].topico =>
              ~escrita[q].ativo
      BY <1>7 DEF Escrever, Espera, IndiceOcupado
    <3>6. EscritaPermitida'
      BY <1>0, <2>1, <2>2, <2>3, <3>1, <3>5
         DEF TypeOK, EscritaPermitida, IndicePermite, Do, IdDe, Pedidos
    <3>. QED
      BY <1>0, <2>1, <3>3, <3>4, <3>6 DEF AtivaUnica
  <2>4. CASE ~IndicePermite(p)
    <3>1. pc' = [pc EXCEPT ![p] = "erro"] /\ UNCHANGED <<trava, escrita>>
      BY <1>7, <2>4 DEF Escrever
    <3>. QED
      BY <1>0, <2>1, <3>1 DEF TypeOK, Pedidos, Papeis, EmAberto, LinhasCertas, TravasCertas,
         IdDe, AtivaUnica, EscritaPermitida
  <2>. QED
    BY <2>3, <2>4
<1>8. ASSUME NEW p \in Pedidos, Confirmar(p) PROVE Certas' /\ Unicas'
  <2>1. /\ p \in Configuracoes /\ pc[p] = "escrito" /\ IdDe(p) \in Configuracoes
        /\ UNCHANGED pedido
    BY <1>8, Confirmada DEF Confirmar
  <2>2. /\ linhas' = [linhas EXCEPT ![IdDe(p)] = escrita[p]]
        /\ pc' = [pc EXCEPT ![p] = "feito"]
        /\ escrita' = [escrita EXCEPT ![p] = Nenhum]
        /\ trava' = [i \in Configuracoes |-> IF trava[i] = p THEN Nenhum ELSE trava[i]]
    BY <1>8 DEF Confirmar, Soltar
  <2>3. /\ trava[IdDe(p)] = p /\ escrita[p] \in Linha /\ escrita[p] # Nenhum
        /\ escrita[p].topico = pedido[p].topico
    BY <1>8, Confirmada
  <2>5. \A i \in Configuracoes :
          /\ linhas[i] # Nenhum => linhas'[i] # Nenhum /\ linhas'[i].topico = linhas[i].topico
          /\ linhas'[i] # Nenhum => linhas[i] # Nenhum \/ i = p
          /\ i # IdDe(p) => linhas'[i] = linhas[i]
    BY <1>8, Confirmada
  <2>6. Papeis' /\ LinhasCertas'
    <3>1. Papeis'
      BY <1>0, <2>1, <2>2 DEF TypeOK, Papeis, EmAberto, Pedidos
    <3>2. ASSUME NEW i \in Configuracoes, linhas'[i] # Nenhum
          PROVE  /\ pc'[i] = "feito" /\ pedido'[i].linha = Nenhum
                 /\ linhas'[i].topico = pedido'[i].topico
      BY <1>0, <2>1, <2>2, <2>3, <2>5, <3>2 DEF TypeOK, LinhasCertas, IdDe, EmAberto, Pedidos
    <3>3. ASSUME NEW q \in Configuracoes, EmAberto(q)'
          PROVE  /\ pedido'[q].obra \in Obras
                 /\ (pedido'[q].linha = Nenhum <=> pedido'[q].lida = Nenhum)
                 /\ pedido'[q].linha # Nenhum =>
                       linhas'[pedido'[q].linha] # Nenhum
                       /\ linhas'[pedido'[q].linha].topico = pedido'[q].topico
      <4>1. q # p /\ EmAberto(q) /\ pedido[q].linha \in Configuracoes \cup {Nenhum}
        BY <1>0, <2>1, <2>2, <3>3 DEF TypeOK, EmAberto, Pedidos
      <4>. QED
        BY <1>0, <2>1, <2>5, <4>1 DEF LinhasCertas
    <3>. QED
      BY <3>1, <3>2, <3>3 DEF LinhasCertas
  <2>7. TravasCertas'
    BY <1>0, <2>1, <2>2 DEF TypeOK, TravasCertas, IdDe, Pedidos
  <2>8. AtivaUnica'
    BY <1>0, <2>1, <2>2, <2>3, <2>5 DEF AtivaUnica, EscritaPermitida, TypeOK
  <2>9. EscritaPermitida'
    <3> SUFFICES ASSUME NEW q \in Configuracoes, pc'[q] = "escrito", escrita'[q].ativo
                 PROVE  /\ \A i \in Configuracoes :
                              /\ linhas'[i] # Nenhum /\ i # IdDe(q)'
                              /\ linhas'[i].topico = escrita'[q].topico
                              => ~linhas'[i].ativo
                        /\ \A r \in Configuracoes :
                              /\ pc'[r] = "escrito" /\ r # q
                              /\ escrita'[r].topico = escrita'[q].topico
                              => ~escrita'[r].ativo
      BY DEF EscritaPermitida
    <3>1. q # p /\ pc[q] = "escrito" /\ escrita'[q] = escrita[q] /\ IdDe(q)' = IdDe(q)
      BY <1>0, <2>1, <2>2 DEF TypeOK, Pedidos, IdDe
    <3>2. \A r \in Configuracoes : pc'[r] = "escrito" => pc[r] = "escrito" /\ escrita'[r] = escrita[r]
      BY <1>0, <2>1, <2>2 DEF TypeOK, Pedidos
    <3>3. linhas'[IdDe(p)] = escrita[p]
      BY <1>0, <2>1, <2>2 DEF TypeOK
    <3>. QED
      BY <1>0, <2>1, <2>3, <2>5, <3>1, <3>2, <3>3 DEF EscritaPermitida
  <2>. QED
    BY <2>6, <2>7, <2>8, <2>9
<1>9. ASSUME NEW p \in Pedidos, Cair(p) PROVE Certas' /\ Unicas'
  <2>1. /\ p \in Configuracoes /\ UNCHANGED <<linhas, pedido>>
        /\ pc' = [pc EXCEPT ![p] = "morto"]
        /\ escrita' = [escrita EXCEPT ![p] = Nenhum]
        /\ trava' = [i \in Configuracoes |-> IF trava[i] = p THEN Nenhum ELSE trava[i]]
        /\ pc[p] # "feito"
    BY <1>9 DEF Cair, Soltar, Ativos, Concluidos
  <2>2. Papeis' /\ LinhasCertas'
    BY <1>0, <2>1 DEF TypeOK, Pedidos, Papeis, EmAberto, LinhasCertas
  <2>3. TravasCertas'
    BY <1>0, <2>1 DEF TypeOK, Pedidos, TravasCertas, IdDe
  <2>4. Unicas'
    BY <1>0, <2>1 DEF TypeOK, Pedidos, AtivaUnica, EscritaPermitida, IdDe
  <2>. QED
    BY <2>2, <2>3, <2>4
<1>10. ASSUME UNCHANGED vars PROVE Certas' /\ Unicas'
  BY <1>0, <1>10 DEF vars, Papeis, EmAberto, LinhasCertas, TravasCertas, IdDe,
     AtivaUnica, EscritaPermitida
<1>. QED
  BY <1>0, <1>1, <1>2, <1>4, <1>5, <1>6, <1>7, <1>8, <1>9, <1>10
     DEF Next, Chamar, Prosseguir, Inv1

LEMMA InicioInv1 == ASSUME Init PROVE Inv1
BY ContextosAssumption DEF Init, Inv1, TypeOK, Papeis, EmAberto, LinhasCertas,
   TravasCertas, AtivaUnica, EscritaPermitida, Pedidos, Concluidos, SemPedido, Topicos

LEMMA Inv1Sempre == Spec => []Inv1
<1>1. Init => Inv1
  BY InicioInv1
<1>2. Inv1 /\ [Next]_vars => Inv1'
  BY PassoInv1
<1>. QED
  BY <1>1, <1>2, PTL DEF Spec

-----------------------------------------------------------------------------
(* The select of a delivery returns at most one row.                       *)
LEMMA UmaRoteia ==
    ASSUME Inv1, NEW t \in Topicos
    PROVE  ~(Cardinality(Roteiam(t)) > 1)
<1>1. Roteiam(t) \in SUBSET Configuracoes
  BY DEF Roteiam, Do
<1>2. \A i, j \in Roteiam(t) : i = j
  BY DEF Roteiam, Do, Inv1, AtivaUnica
<1>. QED
  BY <1>1, <1>2, Contagens

(* Every step of a delivery notes what it met.                             *)
LEMMA PassoInv3 == ASSUME Inv3, [Next]_vars PROVE Inv3'
<1>1. Inv1 /\ Inv1' /\ TypeOK /\ EntregaResolve /\ VistasCertas /\ RotaTemMotivo
  BY PassoInv1 DEF Inv3, Inv1
<1> DEFINE Motivos == EntregaResolve /\ VistasCertas /\ RotaTemMotivo
<1> USE ContextosAssumption
<1>2. ASSUME \A e \in Entregas : pc'[e] = pc[e] /\ pedido'[e] = pedido[e],
             UNCHANGED <<linhas, resposta, vistas>>
      PROVE  Motivos'
  <2>1. EntregaResolve' /\ VistasCertas'
    BY <1>1, <1>2 DEF EntregaResolve, VistasCertas
  <2>2. RotaTemMotivo'
    BY <1>1, <1>2 DEF RotaTemMotivo
  <2>. QED
    BY <2>1, <2>2
<1>3. ASSUME NEW o \in Obras, CadastrarObra(o) PROVE Motivos'
  BY <1>2, <1>3 DEF CadastrarObra
<1>4. ASSUME NEW p \in Pedidos, NEW t \in Topicos, NEW o \in Obras,
             NEW a \in BOOLEAN, LerContexto(p, t, o, a)
      PROVE  Motivos'
  BY <1>1, <1>2, <1>4 DEF LerContexto, TypeOK, Pedidos
<1>5. ASSUME NEW p \in Pedidos, Escrever(p) PROVE Motivos'
  BY <1>1, <1>2, <1>5 DEF Escrever, Inv1, Papeis, EmAberto, TypeOK, Pedidos
<1>6. ASSUME NEW p \in Pedidos, Cair(p) PROVE Motivos'
  BY <1>1, <1>2, <1>6 DEF Cair, TypeOK, Pedidos
<1>7. ASSUME UNCHANGED vars PROVE Motivos'
  BY <1>2, <1>7 DEF vars
<1>8. ASSUME NEW p \in Pedidos, Confirmar(p) PROVE Motivos'
  <2>1. /\ \A e \in Entregas : pc'[e] = pc[e]
        /\ UNCHANGED <<pedido, resposta>>
        /\ vistas' = [e \in Entregas |->
                        IF e \in Ativos
                        THEN vistas[e] \cup {Vista(linhas', pedido[e].topico)}
                        ELSE vistas[e]]
    BY <1>1, <1>8 DEF Confirmar, Inv1, Papeis, EmAberto, TypeOK, Pedidos
  <2>2. \A e \in Entregas : vistas[e] \subseteq vistas'[e]
    BY <2>1
  <2>3. VistasCertas'
    BY <1>1, <2>1, <2>2 DEF VistasCertas, Ativos, Concluidos, Pedidos
  <2>4. RotaTemMotivo'
    BY <1>1, <2>1, <2>2 DEF RotaTemMotivo
  <2>. QED
    BY <1>1, <2>1, <2>3, <2>4 DEF EntregaResolve
<1>9. ASSUME NEW p \in Pedidos, NEW o \in Obras, ResolverNomeada(p, o)
      PROVE Motivos'
  <2>1. /\ p \in Entregas /\ UNCHANGED <<linhas, pedido, vistas>>
        /\ pc' = [pc EXCEPT ![p] = "feito"]
        /\ \A e \in Entregas \ {p} : resposta'[e] = resposta[e]
        /\ resposta'[p].fonte = "payload"
    BY <1>1, <1>9 DEF ResolverNomeada, Responder, TypeOK
  <2>2. EntregaResolve' /\ VistasCertas'
    BY <1>1, <2>1 DEF TypeOK, Pedidos, EntregaResolve, VistasCertas
  <2>3. RotaTemMotivo'
    BY <1>1, <2>1 DEF RotaTemMotivo
  <2>. QED
    BY <2>2, <2>3
<1>10. ASSUME NEW e \in Pedidos, NEW t \in Topicos, LerThread(e, t)
       PROVE  Motivos'
  <2>1. /\ e \in Entregas /\ pc[e] = "livre" /\ UNCHANGED linhas
        /\ pedido' = [pedido EXCEPT ![e].topico = t]
        /\ vistas' = [vistas EXCEPT ![e] = {Vista(linhas, t)}]
    BY <1>10 DEF LerThread
  <2>2. \A x \in Entregas \ {e} :
          pedido'[x] = pedido[x] /\ vistas'[x] = vistas[x]
    BY <1>1, <2>1 DEF TypeOK, Pedidos
  <2>3. vistas'[e] = {Vista(linhas, t)} /\ pedido'[e].topico = t
    <3>1. pedido'[e] = [pedido[e] EXCEPT !.topico = t]
      BY <1>1, <2>1 DEF TypeOK, Pedidos
    <3>2. "topico" \in DOMAIN pedido[e] /\ vistas'[e] = {Vista(linhas, t)}
      BY <1>1, <2>1 DEF TypeOK, Pedidos
    <3>. QED
      BY <3>1, <3>2
  <2>4. ASSUME pc' = [pc EXCEPT ![e] = "raiz"], UNCHANGED resposta,
               Vista(linhas, t).thread = {}
        PROVE  Motivos'
    <3>1. EntregaResolve' /\ VistasCertas'
      BY ZenonT(30), <1>1, <2>1, <2>2, <2>3, <2>4 DEF TypeOK, Pedidos, EntregaResolve, VistasCertas
    <3>2. resposta'[e] = Nenhum /\ \A x \in Entregas : resposta'[x] = resposta[x]
      BY <1>1, <2>1, <2>4 DEF VistasCertas
    <3>3. ASSUME NEW x \in Entregas, resposta'[x] # Nenhum
          PROVE  x # e /\ resposta'[x] = resposta[x] /\ vistas'[x] = vistas[x]
      BY <2>2, <3>2, <3>3
    <3>4. RotaTemMotivo'
      BY <1>1, <3>3 DEF RotaTemMotivo
    <3>. QED
      BY <3>1, <3>4
  <2>5. ASSUME NEW i \in Roteiam(t), t # Raiz, Responder(e, linhas[i].obra, "thread")
        PROVE  Motivos'
    <3>1. /\ pc' = [pc EXCEPT ![e] = "feito"]
          /\ resposta' = [resposta EXCEPT ![e] = [obra |-> linhas[i].obra,
                                                 fonte |-> "thread"]]
      BY <2>5 DEF Responder
    <3>2. EntregaResolve' /\ VistasCertas'
      BY <1>1, <2>1, <2>2, <3>1 DEF TypeOK, Pedidos, EntregaResolve, VistasCertas
    <3>3. linhas[i].obra \in Vista(linhas, t).thread
      BY <2>5 DEF Vista, AtivasEm, Roteiam, Do
    <3>4. /\ resposta'[e] = [obra |-> linhas[i].obra, fonte |-> "thread"]
          /\ \A x \in Entregas \ {e} : resposta'[x] = resposta[x]
      BY <1>1, <2>1, <3>1 DEF TypeOK
    <3>5. \A x \in Entregas \ {e} : vistas'[x] = vistas[x] /\ resposta'[x] = resposta[x]
      BY <2>2, <3>4
    <3>6. /\ resposta'[e].fonte = "thread"
          /\ \E w \in vistas'[e] : resposta'[e].obra \in w.thread
      BY <2>3, <3>3, <3>4
    <3>7. RotaTemMotivo'
      BY <1>1, <3>5, <3>6 DEF RotaTemMotivo
    <3>. QED
      BY <3>2, <3>7
  <2>6. t = Raiz \/ Roteiam(t) = {} => Vista(linhas, t).thread = {}
    BY DEF Vista, AtivasEm, Roteiam, Do
  <2>. QED
    BY <1>1, <1>10, <2>4, <2>5, <2>6, UmaRoteia DEF LerThread, Achar
<1>11. ASSUME NEW e \in Pedidos, LerRaiz(e) PROVE Motivos'
  <2>1. /\ e \in Entregas /\ pc[e] = "raiz" /\ UNCHANGED <<linhas, pedido, vistas>>
    BY <1>11 DEF LerRaiz
  <2>2. PICK v \in vistas[e] : v.raiz = AtivasEm(linhas, Raiz)
    BY <1>1, <2>1 DEF VistasCertas, Vista
  <2>3. ASSUME NEW r, resposta' = [resposta EXCEPT ![e] = r],
               pc' = [pc EXCEPT ![e] = "feito"],
               r.fonte = "chat" => \E w \in vistas[e] : r.obra \in w.raiz,
               r.fonte = "missing" => \E w \in vistas[e] : w.raiz = {},
               r.fonte # "thread"
        PROVE  Motivos'
    <3>1. EntregaResolve' /\ VistasCertas'
      BY <1>1, <2>1, <2>3 DEF TypeOK, Pedidos, EntregaResolve, VistasCertas
    <3>2. resposta'[e] = r /\ \A x \in Entregas \ {e} : resposta'[x] = resposta[x]
      BY <1>1, <2>1, <2>3 DEF TypeOK
    <3>3. \E w \in vistas[e] : w.thread = {}
      BY <1>1, <2>1 DEF VistasCertas
    <3>4. \A x \in Entregas : vistas'[x] = vistas[x]
      BY <2>1
    <3>5. ASSUME NEW x \in Entregas, resposta'[x] # Nenhum
          PROVE  /\ resposta'[x].fonte = "thread" =>
                       \E w \in vistas[x] : resposta'[x].obra \in w.thread
                 /\ resposta'[x].fonte = "chat" =>
                       /\ \E w \in vistas[x] : resposta'[x].obra \in w.raiz
                       /\ \E w \in vistas[x] : w.thread = {}
                 /\ resposta'[x].fonte = "missing" =>
                       /\ \E w \in vistas[x] : w.raiz = {}
                       /\ \E w \in vistas[x] : w.thread = {}
      <4>1. CASE x = e
        BY <2>3, <3>2, <3>3, <4>1
      <4>2. CASE x # e
        BY <1>1, <3>2, <3>5, <4>2 DEF RotaTemMotivo
      <4>. QED
        BY <4>1, <4>2
    <3>6. RotaTemMotivo'
      BY <3>4, <3>5 DEF RotaTemMotivo
    <3>. QED
      BY <3>1, <3>6
  <2>4. ASSUME NEW i \in Roteiam(Raiz), Responder(e, linhas[i].obra, "chat")
        PROVE  Motivos'
    <3>1. linhas[i].obra \in AtivasEm(linhas, Raiz)
      BY <2>4 DEF AtivasEm, Roteiam, Do
    <3> DEFINE r == [obra |-> linhas[i].obra, fonte |-> "chat"]
    <3>2. /\ resposta' = [resposta EXCEPT ![e] = r] /\ pc' = [pc EXCEPT ![e] = "feito"]
          /\ r.fonte = "chat" /\ r.obra \in v.raiz
      BY <2>2, <2>4, <3>1 DEF Responder
    <3> HIDE DEF r
    <3>. QED
      BY <2>3, <3>2
  <2>5. ASSUME Roteiam(Raiz) = {}, Responder(e, Nenhum, "missing")
        PROVE  Motivos'
    <3>1. AtivasEm(linhas, Raiz) = {}
      BY <2>5 DEF AtivasEm, Roteiam, Do
    <3> DEFINE r == [obra |-> Nenhum, fonte |-> "missing"]
    <3>2. /\ resposta' = [resposta EXCEPT ![e] = r] /\ pc' = [pc EXCEPT ![e] = "feito"]
          /\ r.fonte = "missing" /\ v.raiz = {}
      BY <2>2, <2>5, <3>1 DEF Responder
    <3> HIDE DEF r
    <3>. QED
      BY <2>3, <3>2
  <2>. QED
    BY <1>1, <1>11, <2>4, <2>5, UmaRoteia DEF LerRaiz, Achar, Topicos
<1>. QED
  BY <1>1, <1>3, <1>4, <1>5, <1>6, <1>7, <1>8, <1>9, <1>10, <1>11
     DEF Next, Chamar, Prosseguir, Inv3

LEMMA Inv3Sempre == Spec => []Inv3
<1>1. Init => Inv3
  BY InicioInv1 DEF Init, Inv3, EntregaResolve, VistasCertas, RotaTemMotivo, Pedidos
<1>2. Inv3 /\ [Next]_vars => Inv3'
  BY PassoInv3
<1>. QED
  BY <1>1, <1>2, PTL DEF Spec

(* No delivery ever finds two active contexts of its topic, for any number *)
(* of upserts at once: find_active_contexto never raises.                  *)
THEOREM EntregaResolveSempre == Spec => []EntregaResolve
<1>1. Inv3 => EntregaResolve
  BY DEF Inv3
<1>. QED
  BY Inv3Sempre, <1>1, PTL

(* The obra a delivery is given was that of an active context of its topic *)
(* while the delivery was being resolved.                                  *)
THEOREM RotaTemMotivoSempre == Spec => []RotaTemMotivo
<1>1. Inv3 => RotaTemMotivo
  BY DEF Inv3
<1>. QED
  BY Inv3Sempre, <1>1, PTL

-----------------------------------------------------------------------------
(* What upserts in progress together know of each other.                   *)
LEMMA PassoInv2 == ASSUME Inv2, [Next]_vars PROVE Inv2'
<1> DEFINE Linhagem == Conhecidos /\ UmaLinhaPorTopico /\ ConfiguracaoAceita
<1>1. Inv1 /\ Inv1' /\ TypeOK /\ TypeOK' /\ Papeis /\ LinhasCertas /\ Linhagem
  BY PassoInv1 DEF Inv2, Inv1
<1> USE ContextosAssumption
(* A step that writes no row and puts no upsert in progress.               *)
<1>2. ASSUME UNCHANGED <<linhas, juntos>>,
             \A q \in Configuracoes : pedido'[q] = pedido[q],
             \A q \in Configuracoes : EmAberto(q)' => EmAberto(q),
             \A q \in Configuracoes : pc[q] # "livre" => pc'[q] # "livre",
             \A q \in Configuracoes : pc'[q] = "erro" /\ pc[q] # "erro" =>
                \E x \in Configuracoes : \E r \in juntos[x] :
                    pedido[x].topico = pedido[q].topico /\ pedido[r].topico = pedido[q].topico
      PROVE  Linhagem'
  <2>1. Conhecidos'
    BY <1>1, <1>2 DEF Conhecidos
  <2>2. UmaLinhaPorTopico'
    BY <1>1, <1>2 DEF UmaLinhaPorTopico, Do
  <2>3. ConfiguracaoAceita'
    <3>1. juntos \in [Configuracoes -> SUBSET Configuracoes]
      BY <1>1 DEF TypeOK
    <3>. QED
      BY <1>1, <1>2, <3>1 DEF ConfiguracaoAceita
  <2>. QED
    BY <2>1, <2>2, <2>3
<1>3. ASSUME NEW o \in Obras, CadastrarObra(o) PROVE Linhagem'
  BY <1>2, <1>3 DEF CadastrarObra, EmAberto
<1>4. ASSUME NEW e \in Entregas, UNCHANGED <<linhas, juntos>>,
             \A q \in Configuracoes : pc'[q] = pc[q] /\ pedido'[q] = pedido[q]
      PROVE  Linhagem'
  BY <1>2, <1>4 DEF EmAberto
<1>5. ASSUME NEW p \in Pedidos, NEW o \in Obras, ResolverNomeada(p, o)
      PROVE  Linhagem'
  BY <1>1, <1>4, <1>5 DEF ResolverNomeada, Responder, TypeOK, Pedidos
<1>6. ASSUME NEW p \in Pedidos, NEW t \in Topicos, LerThread(p, t)
      PROVE  Linhagem'
  <2>1. \E passo \in {"feito", "raiz", "erro"} : pc' = [pc EXCEPT ![p] = passo]
    BY <1>6 DEF LerThread, Achar, Responder
  <2>2. p \in Entregas /\ pedido' = [pedido EXCEPT ![p].topico = t]
        /\ UNCHANGED <<linhas, juntos>>
    BY <1>6 DEF LerThread
  <2>. QED
    BY <1>1, <1>4, <2>1, <2>2 DEF TypeOK, Pedidos
<1>7. ASSUME NEW p \in Pedidos, LerRaiz(p) PROVE Linhagem'
  BY <1>1, <1>4, <1>7 DEF LerRaiz, Achar, Responder, TypeOK, Pedidos
<1>8. ASSUME NEW p \in Pedidos, Cair(p) PROVE Linhagem'
  BY <1>1, <1>2, <1>8 DEF Cair, EmAberto, TypeOK, Pedidos
<1>9. ASSUME UNCHANGED vars PROVE Linhagem'
  BY <1>2, <1>9 DEF vars, EmAberto
<1>10. ASSUME NEW p \in Pedidos, NEW t \in Topicos, NEW o \in Obras,
              NEW a \in BOOLEAN, LerContexto(p, t, o, a)
       PROVE  Linhagem'
  <2>1. /\ p \in Configuracoes /\ pc[p] = "livre" /\ UNCHANGED linhas
        /\ \A x \in Configuracoes \ {p} : pc'[x] = pc[x] /\ pedido'[x] = pedido[x]
        /\ pc'[p] \in {"recusado", "erro", "lido"} /\ pedido'[p].topico = t
    BY <1>1, <1>10 DEF LerContexto, Comecar, TypeOK, Pedidos
  <2>2. \A q \in Configuracoes :
          juntos'[q] = IF q = p THEN {x \in Configuracoes : EmAberto(x)}
                       ELSE IF EmAberto(q) THEN juntos[q] \cup {p} ELSE juntos[q]
    <3>1. Ativos \cap Configuracoes = {x \in Configuracoes : EmAberto(x)}
      BY <1>1 DEF Ativos, Concluidos, EmAberto, Papeis, TypeOK, Pedidos
    <3>. QED
      BY <1>1, <1>10, <2>1, <3>1 DEF LerContexto, Comecar
  <2>3. \A i \in Configuracoes : linhas[i] # Nenhum =>
          i # p /\ linhas[i].topico = pedido'[i].topico
    BY <1>1, <2>1 DEF LinhasCertas
  <2>4. pc'[p] = "lido" /\ pedido'[p].linha = Nenhum => Do(t) = {}
    <3>1. Do(t) \in SUBSET Configuracoes
      BY DEF Do
    <3>2. pc'[p] = "lido" => ~(Cardinality(Do(t)) > 1)
      BY <1>1, <1>10 DEF LerContexto, TypeOK, Achadas
    <3>3. Cardinality(Do(t)) = 1 => pedido'[p].linha \in Do(t)
      BY <1>1, <1>10 DEF LerContexto, TypeOK, Achadas
    <3>. QED
      BY <3>1, <3>2, <3>3, Contagens
  <2>5. Conhecidos'
    <3>1. ASSUME NEW x \in Configuracoes, NEW q \in Configuracoes, q \in juntos'[x]
          PROVE  x \in juntos'[q] /\ pc'[x] # "livre" /\ pc'[q] # "livre"
      <4>1. CASE x = p
        BY <1>1, <2>1, <2>2, <3>1, <4>1 DEF EmAberto
      <4>2. CASE x # p /\ q = p /\ EmAberto(x)
        BY <1>1, <2>1, <2>2, <4>2 DEF EmAberto
      <4>3. CASE x # p /\ q \in juntos[x]
        <5>1. x \in juntos[q] /\ pc[x] # "livre" /\ pc[q] # "livre" /\ q # p
          BY <1>1, <2>1, <4>3 DEF Conhecidos
        <5>. QED
          BY <2>1, <2>2, <4>3, <5>1
      <4>. QED
        BY <2>2, <3>1, <4>1, <4>2, <4>3
    <3>2. ASSUME NEW x \in Configuracoes, NEW q \in Configuracoes,
                 EmAberto(x)', EmAberto(q)', x # q
          PROVE  q \in juntos'[x]
      BY ZenonT(30), <1>1, <2>1, <2>2, <3>2 DEF Conhecidos, EmAberto
    <3>3. ASSUME NEW x \in Configuracoes, NEW i \in Configuracoes,
                 EmAberto(x)', pedido'[x].linha = Nenhum,
                 linhas'[i] # Nenhum, linhas'[i].topico = pedido'[x].topico
          PROVE  i \in juntos'[x]
      <4>1. CASE x = p
        BY <2>1, <2>4, <3>3, <4>1 DEF Do, EmAberto
      <4>2. CASE x # p
        <5>1. EmAberto(x) /\ pedido[x].linha = Nenhum
              /\ linhas[i] # Nenhum /\ linhas[i].topico = pedido[x].topico
          BY <2>1, <3>3, <4>2 DEF EmAberto
        <5>2. i \in juntos[x]
          BY <1>1, <5>1 DEF Conhecidos
        <5>. QED
          BY <2>2, <4>2, <5>2
      <4>. QED
        BY <4>1, <4>2
    <3>. QED
      BY <3>1, <3>2, <3>3 DEF Conhecidos
  <2>6. UmaLinhaPorTopico'
    <3>1. \A x \in Configuracoes : x # p => juntos[x] \subseteq juntos'[x]
      BY <2>2
    <3>. QED
      BY <1>1, <2>1, <2>3, <3>1 DEF UmaLinhaPorTopico, Do
  <2>7. ConfiguracaoAceita'
    <3>1. ASSUME NEW q \in Configuracoes, pc'[q] = "erro", q # p
          PROVE  \E x \in Configuracoes : \E r \in juntos'[x] :
                   pedido'[x].topico = pedido'[q].topico
                   /\ pedido'[r].topico = pedido'[q].topico
      <4>1. PICK x \in Configuracoes : \E r \in juntos[x] :
              pedido[x].topico = pedido[q].topico /\ pedido[r].topico = pedido[q].topico
        BY <1>1, <2>1, <3>1 DEF ConfiguracaoAceita
      <4>2. PICK r \in juntos[x] :
              pedido[x].topico = pedido[q].topico /\ pedido[r].topico = pedido[q].topico
        BY <4>1
      <4>3. r \in Configuracoes
        BY <1>1, <4>2 DEF TypeOK
      <4>4. x # p /\ r # p
        BY <1>1, <2>1, <4>2, <4>3 DEF Conhecidos
      <4>5. r \in juntos'[x]
        BY <2>2, <4>2, <4>4
      <4>. QED
        BY <2>1, <3>1, <4>2, <4>3, <4>4, <4>5
    <3>2. ASSUME pc'[p] = "erro"
          PROVE  \E x \in Configuracoes : \E r \in juntos'[x] :
                   pedido'[x].topico = t /\ pedido'[r].topico = t
      <4>1. Do(t) \in SUBSET Configuracoes
        BY DEF Do
      <4>2. Cardinality(Do(t)) > 1
        BY <1>1, <1>10, <3>2 DEF LerContexto, TypeOK, Achadas
      <4>3. PICK i, j \in Do(t) : i # j
        BY <4>1, <4>2, Contagens
      <4>4. j \in juntos[i]
        BY <1>1, <4>3 DEF UmaLinhaPorTopico
      <4>5. /\ i \in Configuracoes /\ pedido'[i].topico = t /\ i # p
            /\ j \in Configuracoes /\ pedido'[j].topico = t
        BY <2>3, <4>3 DEF Do
      <4>6. j \in juntos'[i]
        BY <2>2, <4>4, <4>5
      <4>. QED
        BY <4>5, <4>6
    <3>. QED
      BY <2>1, <3>1, <3>2 DEF ConfiguracaoAceita
  <2>. QED
    BY <2>5, <2>6, <2>7
<1>11. ASSUME NEW p \in Pedidos, Escrever(p) PROVE Linhagem'
  <2>1. /\ p \in Configuracoes /\ pc[p] = "lido"
        /\ UNCHANGED <<linhas, pedido, juntos>>
        /\ \E passo \in {"escrito", "erro"} : pc' = [pc EXCEPT ![p] = passo]
    BY <1>1, <1>11 DEF Escrever, Papeis, EmAberto, TypeOK, Pedidos
  <2>2. ASSUME pc'[p] = "erro"
        PROVE  \E x \in Configuracoes : \E r \in juntos[x] :
                 pedido[x].topico = pedido[p].topico /\ pedido[r].topico = pedido[p].topico
    <3>1. ~IndicePermite(p)
      BY <1>1, <1>11, <2>1, <2>2 DEF Escrever, TypeOK
    <3>2. PICK i \in Do(pedido[p].topico) : i # IdDe(p)
      BY <3>1 DEF IndicePermite
    <3>3. i \in Configuracoes /\ pedido[i].topico = pedido[p].topico
      BY <1>1, <3>2 DEF Do, LinhasCertas
    <3>4. CASE pedido[p].linha = Nenhum
      <4>1. i \in juntos[p]
        BY <1>1, <2>1, <3>2, <3>4 DEF Conhecidos, Do, EmAberto
      <4>. QED
        BY <2>1, <3>3, <4>1
    <3>5. CASE pedido[p].linha # Nenhum
      <4>1. pedido[p].linha \in Do(pedido[p].topico) /\ pedido[p].linha # i
        BY <1>1, <2>1, <3>2, <3>5 DEF TypeOK, Pedidos, LinhasCertas, Do, EmAberto, IdDe
      <4>2. pedido[p].linha \in juntos[i]
        BY <1>1, <3>2, <4>1, TypeOK DEF UmaLinhaPorTopico, TypeOK, Pedidos
      <4>3. pedido[pedido[p].linha].topico = pedido[p].topico
        BY <1>1, <4>1 DEF Do, LinhasCertas
      <4>. QED
        BY <3>3, <4>2, <4>3
    <3>. QED
      BY <3>4, <3>5
  <2>. QED
    BY <1>1, <1>2, <2>1, <2>2 DEF TypeOK, Pedidos, EmAberto
<1>12. ASSUME NEW p \in Pedidos, Confirmar(p) PROVE Linhagem'
  <2>1. /\ p \in Configuracoes /\ pc[p] = "escrito" /\ UNCHANGED <<pedido, juntos>>
        /\ pc' = [pc EXCEPT ![p] = "feito"]
    BY <1>1, <1>12, Confirmada DEF Confirmar
  <2>2. \A i \in Configuracoes :
          /\ linhas[i] # Nenhum => linhas'[i].topico = linhas[i].topico
          /\ linhas[i] = Nenhum /\ linhas'[i] # Nenhum =>
                i = p /\ pedido[p].linha = Nenhum /\ linhas'[i].topico = pedido[p].topico
    BY <1>1, <1>12, Confirmada
  <2>3. \A q \in Configuracoes : EmAberto(q)' => q # p /\ EmAberto(q)
    BY <1>1, <2>1 DEF EmAberto, TypeOK, Pedidos
  <2>4. Conhecidos'
    <3>1. ASSUME NEW x \in Configuracoes, NEW i \in Configuracoes,
                 EmAberto(x)', pedido'[x].linha = Nenhum,
                 linhas'[i] # Nenhum, linhas'[i].topico = pedido'[x].topico
          PROVE  i \in juntos'[x]
      BY <1>1, <2>1, <2>2, <2>3, <3>1 DEF Conhecidos, EmAberto
    <3>2. \A x, q \in Configuracoes : q \in juntos'[x] =>
            x \in juntos'[q] /\ pc'[x] # "livre" /\ pc'[q] # "livre"
      BY <1>1, <2>1 DEF Conhecidos, TypeOK, Pedidos
    <3>3. \A x, q \in Configuracoes :
            EmAberto(x)' /\ EmAberto(q)' /\ x # q => q \in juntos'[x]
      BY <1>1, <2>1, <2>3 DEF Conhecidos
    <3>. QED
      BY <3>1, <3>2, <3>3 DEF Conhecidos
  <2>5. UmaLinhaPorTopico'
    <3> SUFFICES ASSUME NEW t \in Topicos, NEW i \in Do(t)', NEW j \in Do(t)', i # j
                 PROVE  j \in juntos[i]
      BY <2>1 DEF UmaLinhaPorTopico
    <3>1. /\ i \in Configuracoes /\ linhas'[i] # Nenhum /\ linhas'[i].topico = t
          /\ j \in Configuracoes /\ linhas'[j] # Nenhum /\ linhas'[j].topico = t
      BY DEF Do
    <3>2. CASE linhas[i] # Nenhum /\ linhas[j] # Nenhum
      BY <1>1, <2>2, <3>1, <3>2 DEF UmaLinhaPorTopico, Do
    <3>3. CASE linhas[i] = Nenhum
      BY <1>1, <2>1, <2>2, <3>1, <3>3 DEF Conhecidos, EmAberto
    <3>4. CASE linhas[j] = Nenhum
      BY <1>1, <2>1, <2>2, <3>1, <3>4 DEF Conhecidos, EmAberto
    <3>. QED
      BY <3>2, <3>3, <3>4
  <2>6. ConfiguracaoAceita'
    BY <1>1, <2>1 DEF ConfiguracaoAceita, TypeOK, Pedidos
  <2>. QED
    BY <2>4, <2>5, <2>6
<1>. QED
  BY <1>1, <1>3, <1>5, <1>6, <1>7, <1>8, <1>9, <1>10, <1>11, <1>12
     DEF Next, Chamar, Prosseguir, Inv2

LEMMA Inv2Sempre == Spec => []Inv2
<1>1. Init => Inv2
  BY InicioInv1 DEF Init, Inv2, Conhecidos, EmAberto, UmaLinhaPorTopico, Do,
     ConfiguracaoAceita, Pedidos
<1>2. Inv2 /\ [Next]_vars => Inv2'
  BY PassoInv2
<1>. QED
  BY <1>1, <1>2, PTL DEF Spec

(* Whatever goes wrong with a topic goes back to two upserts of it in      *)
(* progress at once, and who waits waits for one about to commit.          *)
THEOREM TopicoIntegroSempre == Spec => []TopicoIntegro
<1>1. Inv1 => SemImpasse
  <2> SUFFICES ASSUME Inv1, NEW p \in Configuracoes, NEW q \in Configuracoes, Espera(p, q)
               PROVE  pc[q] = "escrito" /\ escrita[q].topico = pedido[p].topico
    BY DEF SemImpasse
  <2>1. CASE IndiceOcupado(p, q)
    BY <2>1 DEF IndiceOcupado
  <2>2. CASE trava[IdDe(p)] = q
    <3>1. IdDe(p) \in Configuracoes /\ pc[p] = "lido" /\ q # p /\ q # Nenhum
      BY ContextosAssumption DEF Inv1, TypeOK, Pedidos, IdDe, Espera
    <3>2. pc[q] = "escrito" /\ IdDe(q) = IdDe(p) /\ escrita[q].topico = pedido[q].topico
      BY <2>2, <3>1 DEF Inv1, TravasCertas
    <3>3. pedido[q].topico = pedido[p].topico
      BY <3>1, <3>2 DEF Inv1, TypeOK, Pedidos, LinhasCertas, EmAberto, IdDe
    <3>. QED
      BY <3>2, <3>3
  <2>. QED
    BY <2>1, <2>2 DEF Espera
<1>2. Inv2 => TopicoIntegro
  BY <1>1 DEF Inv2, Inv1, TopicoIntegro
<1>. QED
  BY Inv2Sempre, <1>2, PTL
=============================================================================
