---------------------------- MODULE LimitesProofs ----------------------------
(***************************************************************************)
(* Proofs about Limites, for any counters, limits, events and requests,    *)
(* and any number of failures, deaths and ticks.                           *)
(***************************************************************************)
EXTENDS Limites, SequenceTheorems, TLAPS

(* A request in progress asks for one of the routes, and has an event when *)
(* it marks it or is refused because of its mark.                          *)
RotasCertas ==
    /\ \A p \in Pedidos : pc[p] # "livre" => rota[p] \in Rotas
    /\ \A p \in Pedidos : pc[p] \in {"marcando", "repetido"} => rota[p].evento # Nenhum

(* The request that found a counter at one is about to start its window.   *)
Dono(p, c) == pc[p] = "prazo" /\ Head(falta[p]) = c
DonoUnico ==
    \A c \in Contadores : \A p \in Pedidos : Dono(p, c) =>
        /\ contador[c].prazo = 0 /\ contador[c].n > 0
        /\ \A q \in Pedidos : Dono(q, c) => q = p

(* The counter accounts for whoever was let through and for its owner, who *)
(* will be.                                                                *)
CotaReservada ==
    \A c \in Contadores :
        /\ contador[c].n = 0 => contador[c].prazo = 0
        /\ passaram[c] <= contador[c].n /\ passaram[c] <= Limite[c]
        /\ (\E p \in Pedidos : Dono(p, c)) =>
              passaram[c] + 1 <= contador[c].n /\ passaram[c] + 1 <= Limite[c]

InvC == TypeOK /\ RotasCertas /\ DonoUnico /\ CotaReservada /\ SemPrazoTemDono

(* An event with a mark, or refused because of one, was recorded, was lost *)
(* by a request that failed, or is being ingested.                         *)
Explicado(e) ==
    \/ e \in gravados \cup perdidos
    \/ \E q \in Pedidos : pc[q] = "admitido" /\ rota[q].evento = e
MarcasExplicadas ==
    /\ \A e \in Eventos : marca[e] > 0 => Explicado(e)
    /\ \A p \in Pedidos : pc[p] = "repetido" => Explicado(rota[p].evento)

InvM == TypeOK /\ RotasCertas /\ MarcasExplicadas
-----------------------------------------------------------------------------
Passos == Respostas \cup {"livre", "contando", "prazo", "marcando", "admitido"}

LEMMA Contando ==
    ASSUME TypeOK, RotasCertas, NEW p \in Pedidos, pc[p] \in {"contando", "prazo"}
    PROVE  /\ rota[p] \in Rotas /\ Head(falta[p]) \in Contadores
           /\ Tail(falta[p]) \in Seq(Contadores)
<1>1. falta[p] \in Seq(Contadores) /\ falta[p] # <<>>
  BY DEF TypeOK
<1>. QED
  BY <1>1, HeadTailProperties DEF RotasCertas

(* What the comparison with the limit does to a request and its counter.   *)
LEMMA Julgado ==
    ASSUME TypeOK, RotasCertas, NEW p \in Pedidos, pc[p] \in {"contando", "prazo"},
           NEW c \in Contadores, NEW n \in Nat, Julgar(p, c, n)
    PROVE  /\ pc' \in [Pedidos -> Passos] /\ falta' \in [Pedidos -> Seq(Contadores)]
           /\ \A q \in Pedidos \ {p} : pc'[q] = pc[q] /\ falta'[q] = falta[q]
           /\ pc'[p] \in {"contando", "marcando", "admitido", "excedido"}
           /\ pc'[p] = "contando" => falta'[p] # <<>>
           /\ pc'[p] = "marcando" => rota[p].evento # Nenhum
           /\ passaram' \in [Contadores -> Nat]
           /\ \A d \in Contadores \ {c} : passaram'[d] = passaram[d]
           /\ \/ passaram'[c] = passaram[c]
              \/ passaram'[c] = passaram[c] + 1 /\ n <= Limite[c]
<1>1. Tail(falta[p]) \in Seq(Contadores)
  BY Contando
<1>2. CASE Passa(n, c)
  <2> DEFINE v == Depois(Tail(falta[p]), rota[p].evento)
  <2>1. /\ pc' = [pc EXCEPT ![p] = v]
        /\ falta' = [falta EXCEPT ![p] = Tail(falta[p])]
        /\ passaram' = [passaram EXCEPT ![c] = passaram[c] + 1]
        /\ n <= Limite[c]
    BY <1>2 DEF Julgar, Passa
  <2>2. /\ v \in {"contando", "marcando", "admitido"}
        /\ v = "contando" => Tail(falta[p]) # <<>>
        /\ v = "marcando" => rota[p].evento # Nenhum
    BY DEF Depois
  <2> HIDE DEF v
  <2>3. pc' \in [Pedidos -> Passos] /\ pc'[p] = v /\ \A q \in Pedidos \ {p} : pc'[q] = pc[q]
    BY <2>1, <2>2 DEF TypeOK, Passos
  <2>4. /\ falta' \in [Pedidos -> Seq(Contadores)] /\ falta'[p] = Tail(falta[p])
        /\ \A q \in Pedidos \ {p} : falta'[q] = falta[q]
    BY <1>1, <2>1 DEF TypeOK
  <2>5. /\ passaram' \in [Contadores -> Nat] /\ passaram'[c] = passaram[c] + 1
        /\ \A d \in Contadores \ {c} : passaram'[d] = passaram[d]
    BY SMTT(30), <2>1 DEF TypeOK
  <2>. QED
    BY <2>1, <2>2, <2>3, <2>4, <2>5
<1>3. CASE ~Passa(n, c)
  <2>1. pc' = [pc EXCEPT ![p] = "excedido"] /\ UNCHANGED <<falta, passaram>>
    BY <1>3 DEF Julgar
  <2>. QED
    BY <2>1 DEF TypeOK, Passos, Respostas
<1>. QED
  BY <1>2, <1>3

(* The value INCR leaves in a counter.                                     *)
Incrementado(c) == IF contador[c].n > Limite[c] THEN contador[c].n ELSE contador[c].n + 1

LEMMA Incremento ==
    ASSUME TypeOK, RotasCertas, NEW p \in Pedidos, Incrementar(p),
           NEW c, c = Head(falta[p])
    PROVE  /\ c \in Contadores /\ pc[p] = "contando"
           /\ Incrementado(c) \in 1..(Limite[c] + 1)
           /\ contador' \in [Contadores -> [n : Nat, prazo : 0..Janela]]
           /\ contador'[c].n = Incrementado(c) /\ contador'[c].prazo = contador[c].prazo
           /\ contador[c].n <= Incrementado(c)
           /\ Incrementado(c) <= Limite[c] => Incrementado(c) = contador[c].n + 1
           /\ \A d \in Contadores \ {c} : contador'[d] = contador[d]
           /\ \/ /\ Incrementado(c) = 1 /\ contador[c].n = 0
                 /\ pc' = [pc EXCEPT ![p] = "prazo"] /\ UNCHANGED <<falta, passaram>>
              \/ Incrementado(c) # 1 /\ Julgar(p, c, Incrementado(c))
           /\ UNCHANGED <<marca, gravados, rota, perdidos, reenvios, falhas, quedas>>
<1>1. c \in Contadores /\ pc[p] = "contando" /\ Limite[c] \in Nat \ {0}
  BY Contando, LimitesAssumption DEF Incrementar
<1>2. contador[c] \in [n : Nat, prazo : 0..Janela] /\ contador[c].n <= Limite[c] + 1
  BY <1>1 DEF TypeOK
<1>3. contador' = [contador EXCEPT ![c].n = Incrementado(c)]
  BY DEF Incrementar, Incrementado
<1>4. Incrementado(c) \in 1..(Limite[c] + 1)
  BY <1>1, <1>2 DEF Incrementado
<1>5. [contador[c] EXCEPT !.n = Incrementado(c)] \in [n : Nat, prazo : 0..Janela]
  BY <1>2, <1>4
<1>6. contador' \in [Contadores -> [n : Nat, prazo : 0..Janela]]
  BY <1>1, <1>3, <1>5 DEF TypeOK
<1>7. contador'[c] = [contador[c] EXCEPT !.n = Incrementado(c)]
  BY <1>1, <1>3 DEF TypeOK
<1>8. contador'[c].n = Incrementado(c) /\ contador'[c].prazo = contador[c].prazo
  BY <1>2, <1>7
<1>9. \A d \in Contadores \ {c} : contador'[d] = contador[d]
  BY <1>1, <1>3 DEF TypeOK
<1>10. /\ contador[c].n <= Incrementado(c)
       /\ Incrementado(c) <= Limite[c] => Incrementado(c) = contador[c].n + 1
       /\ Incrementado(c) = 1 => contador[c].n = 0
  BY <1>1, <1>2 DEF Incrementado
<1>11. /\ IF ComecaJanela(Incrementado(c))
          THEN pc' = [pc EXCEPT ![p] = "prazo"] /\ UNCHANGED <<falta, passaram>>
          ELSE Julgar(p, c, Incrementado(c))
       /\ UNCHANGED <<marca, gravados, rota, perdidos, reenvios, falhas, quedas>>
  BY DEF Incrementar, Incrementado
<1>12. ComecaJanela(Incrementado(c)) <=> Incrementado(c) = 1
  BY DEF ComecaJanela
<1>. QED
  BY <1>1, <1>4, <1>6, <1>8, <1>9, <1>10, <1>11, <1>12

(* The expiry the owner of a counter gives it.                             *)
LEMMA Prazo ==
    ASSUME TypeOK, RotasCertas, NEW p \in Pedidos, DefinirPrazo(p),
           NEW c, c = Head(falta[p])
    PROVE  /\ c \in Contadores /\ pc[p] = "prazo" /\ Dono(p, c)
           /\ contador' \in [Contadores -> [n : Nat, prazo : 0..Janela]]
           /\ contador'[c].n = contador[c].n
           /\ contador[c].n > 0 => contador'[c].prazo = Janela
           /\ \A d \in Contadores \ {c} : contador'[d] = contador[d]
           /\ Julgar(p, c, 1)
           /\ UNCHANGED <<marca, gravados, rota, perdidos, reenvios, falhas, quedas>>
<1> DEFINE t == IF contador[c].n = 0 THEN 0 ELSE Janela
<1>1. c \in Contadores /\ pc[p] = "prazo"
  BY Contando DEF DefinirPrazo
<1>2. contador[c] \in [n : Nat, prazo : 0..Janela] /\ t \in 0..Janela
  <2>1. contador[c] \in [n : Nat, prazo : 0..Janela]
    BY <1>1 DEF TypeOK
  <2>2. t \in 0..Janela
    BY LimitesAssumption
  <2>. QED
    BY <2>1, <2>2
<1>3. contador' = [contador EXCEPT ![c].prazo = t]
  BY DEF DefinirPrazo
<1>4. [contador[c] EXCEPT !.prazo = t] \in [n : Nat, prazo : 0..Janela]
  BY <1>2
<1>5. contador' \in [Contadores -> [n : Nat, prazo : 0..Janela]]
  BY <1>1, <1>3, <1>4 DEF TypeOK
<1>6. contador'[c] = [contador[c] EXCEPT !.prazo = t]
  BY <1>1, <1>3 DEF TypeOK
<1>7. contador'[c].n = contador[c].n /\ contador'[c].prazo = t
  BY <1>2, <1>6
<1>8. \A d \in Contadores \ {c} : contador'[d] = contador[d]
  BY <1>1, <1>3 DEF TypeOK
<1>9. Julgar(p, c, 1) /\ UNCHANGED <<marca, gravados, rota, perdidos, reenvios, falhas, quedas>>
  BY DEF DefinirPrazo
<1>10. Dono(p, c)
  BY <1>1 DEF Dono
<1>11. contador[c].n > 0 => t = Janela
  BY <1>2
<1>. QED
  BY <1>1, <1>5, <1>7, <1>8, <1>9, <1>10, <1>11

(* Redis makes the keys older.                                             *)
LEMMA Envelhecido ==
    ASSUME TypeOK, Tique
    PROVE  /\ contador' \in [Contadores -> [n : Nat, prazo : 0..Janela]]
           /\ passaram' \in [Contadores -> Nat]
           /\ \A c \in Contadores :
                \/ /\ contador[c].prazo = 1
                   /\ contador'[c].n = 0 /\ contador'[c].prazo = 0 /\ passaram'[c] = 0
                \/ /\ contador[c].prazo # 1
                   /\ contador'[c].n = contador[c].n /\ passaram'[c] = passaram[c]
                   /\ (contador'[c].prazo = 0 <=> contador[c].prazo = 0)
           /\ marca' \in [Eventos -> 0..VidaDaMarca]
           /\ \A e \in Eventos : marca'[e] > 0 => marca[e] > 0
<1> USE LimitesAssumption
<1>1. ASSUME NEW c \in Contadores
      PROVE  /\ contador'[c] \in [n : Nat, prazo : 0..Janela] /\ passaram'[c] \in Nat
             /\ \/ /\ contador[c].prazo = 1
                   /\ contador'[c].n = 0 /\ contador'[c].prazo = 0 /\ passaram'[c] = 0
                \/ /\ contador[c].prazo # 1
                   /\ contador'[c].n = contador[c].n /\ passaram'[c] = passaram[c]
                   /\ (contador'[c].prazo = 0 <=> contador[c].prazo = 0)
  <2> DEFINE k == contador[c]
  <2>1. k \in [n : Nat, prazo : 0..Janela] /\ passaram[c] \in Nat
    BY DEF TypeOK
  <2>2. /\ contador'[c] = IF k.prazo = 1 THEN [n |-> 0, prazo |-> 0]
                          ELSE [k EXCEPT !.prazo = Menos(k.prazo)]
        /\ passaram'[c] = IF k.prazo = 1 THEN 0 ELSE passaram[c]
    BY DEF Tique
  <2>3. Menos(k.prazo) \in 0..Janela /\ (k.prazo # 1 => (Menos(k.prazo) = 0 <=> k.prazo = 0))
    BY <2>1 DEF Menos
  <2> HIDE DEF k
  <2>4. CASE k.prazo = 1
    BY <2>1, <2>2, <2>4 DEF k
  <2>5. CASE k.prazo # 1
    <3>1. [k EXCEPT !.prazo = Menos(k.prazo)] \in [n : Nat, prazo : 0..Janela]
      BY <2>1, <2>3
    <3>2. /\ [k EXCEPT !.prazo = Menos(k.prazo)].prazo = Menos(k.prazo)
          /\ [k EXCEPT !.prazo = Menos(k.prazo)].n = k.n
      BY <2>1
    <3>. QED
      BY <2>1, <2>2, <2>3, <2>5, <3>1, <3>2 DEF k
  <2>. QED
    BY <2>4, <2>5
<1>2. \A e \in Eventos : Menos(marca[e]) \in 0..VidaDaMarca /\ (Menos(marca[e]) > 0 => marca[e] > 0)
  BY DEF TypeOK, Menos
<1>3. /\ marca' = [e \in Eventos |-> Menos(marca[e])]
      /\ contador' = [c \in Contadores |-> contador'[c]]
      /\ passaram' = [c \in Contadores |-> passaram'[c]]
  BY DEF Tique
<1>. QED
  BY <1>1, <1>2, <1>3

-----------------------------------------------------------------------------
(* Every step keeps the types, and what a request in progress asks for.    *)
LEMMA PassoTipos == ASSUME TypeOK, RotasCertas, [Next]_vars PROVE TypeOK' /\ RotasCertas'
<1> DEFINE Certo == TypeOK /\ RotasCertas
<1> USE LimitesAssumption
<1>1. CASE Tique
  <2>1. TypeOK'
    <3>1. ASSUME NEW c \in Contadores PROVE contador'[c].n <= Limite[c] + 1
      <4>1. contador[c].n \in Nat /\ contador[c].n <= Limite[c] + 1 /\ Limite[c] \in Nat
        BY DEF TypeOK
      <4>2. contador'[c].n = 0 \/ contador'[c].n = contador[c].n
        BY <1>1, Envelhecido
      <4>. QED
        BY <4>1, <4>2
    <3>2. UNCHANGED <<gravados, pc, rota, falta, perdidos, reenvios, falhas, quedas>>
      BY <1>1 DEF Tique
    <3>. QED
      BY <1>1, <3>1, <3>2, Envelhecido DEF TypeOK
  <2>. QED
    BY <1>1, <2>1 DEF Tique, RotasCertas
<1>2. ASSUME NEW p \in Pedidos, NEW r \in Rotas, NEW c \in Credenciais, Chegar(p, r, c)
      PROVE  Certo'
  <2> DEFINE fs == IF Conta(c) THEN r.contadores ELSE <<>>
  <2> DEFINE v == IF Conta(c) THEN Depois(r.contadores, r.evento) ELSE "admitido"
  <2>1. r.contadores \in Seq(Contadores)
    OBVIOUS
  <2>2. fs \in Seq(Contadores)
    BY <2>1, EmptySeq
  <2>3. /\ v \in {"contando", "marcando", "admitido"}
        /\ v = "contando" => fs # <<>>
        /\ v = "marcando" => r.evento # Nenhum
    BY DEF Depois
  <2>4. /\ pc' = [pc EXCEPT ![p] = v] /\ falta' = [falta EXCEPT ![p] = fs]
        /\ rota' = [rota EXCEPT ![p] = r]
        /\ UNCHANGED <<contador, marca, gravados, passaram, perdidos, quedas>>
    BY <1>2 DEF Chegar
  <2>7. reenvios' \in 0..MaxReenvios /\ falhas' \in 0..MaxFalhas
    BY SMTT(30), <1>2 DEF Chegar, TypeOK
  <2> HIDE DEF fs, v
  <2>5. TypeOK'
    BY <2>2, <2>3, <2>4, <2>7 DEF TypeOK, Respostas
  <2>6. RotasCertas'
    BY <2>3, <2>4 DEF TypeOK, RotasCertas
  <2>. QED
    BY <2>5, <2>6
<1>3. ASSUME NEW p \in Pedidos, NEW c \in Contadores, NEW n \in Nat,
             pc[p] \in {"contando", "prazo"}, Julgar(p, c, n),
             contador' \in [Contadores -> [n : Nat, prazo : 0..Janela]],
             \A d \in Contadores : contador'[d].n <= Limite[d] + 1,
             UNCHANGED <<marca, gravados, rota, perdidos, reenvios, falhas, quedas>>
      PROVE  Certo'
  <2>1. TypeOK'
    BY <1>3, Julgado DEF TypeOK, Passos
  <2>2. RotasCertas'
    BY <1>3, Julgado DEF RotasCertas
  <2>. QED
    BY <2>1, <2>2
<1>4. ASSUME NEW p \in Pedidos, Incrementar(p) PROVE Certo'
  <2> DEFINE c == Head(falta[p])
  <2>1. \A d \in Contadores : contador'[d].n <= Limite[d] + 1
    <3>1. \A d \in Contadores : contador[d].n <= Limite[d] + 1
      BY DEF TypeOK
    <3>2. /\ c \in Contadores /\ contador'[c].n \in 1..(Limite[c] + 1)
          /\ \A d \in Contadores \ {c} : contador'[d] = contador[d]
      BY <1>4, Incremento
    <3>. QED
      BY <3>1, <3>2
  <2>2. CASE pc' = [pc EXCEPT ![p] = "prazo"] /\ UNCHANGED <<falta, passaram>>
    <3>1. /\ contador' \in [Contadores -> [n : Nat, prazo : 0..Janela]]
          /\ pc[p] = "contando"
          /\ UNCHANGED <<marca, gravados, rota, perdidos, reenvios, falhas, quedas>>
      BY <1>4, Incremento
    <3>. QED
      BY <2>1, <2>2, <3>1 DEF TypeOK, RotasCertas
  <2>3. CASE Julgar(p, c, Incrementado(c))
    BY <1>3, <1>4, <2>1, <2>3, Incremento
  <2>. QED
    BY <1>4, <2>2, <2>3, Incremento
<1>5. ASSUME NEW p \in Pedidos, DefinirPrazo(p) PROVE Certo'
  <2>1. \A d \in Contadores : contador'[d].n <= Limite[d] + 1
    <3>1. \A d \in Contadores : contador[d].n <= Limite[d] + 1
      BY DEF TypeOK
    <3>. QED
      BY <1>5, <3>1, Prazo
  <2>. QED
    BY <1>3, <1>5, <2>1, Prazo
<1>6. ASSUME NEW p \in Pedidos, Marcar(p) PROVE Certo'
  <2>1. rota[p] \in Rotas /\ rota[p].evento \in Eventos
    BY <1>6 DEF Marcar, RotasCertas
  <2>2. CASE marca[rota[p].evento] = 0
    <3>1. /\ marca' = [marca EXCEPT ![rota[p].evento] = VidaDaMarca]
          /\ pc' = [pc EXCEPT ![p] = "admitido"]
          /\ UNCHANGED <<contador, gravados, rota, falta, passaram, perdidos, reenvios,
                         falhas, quedas>>
      BY <1>6, <2>2 DEF Marcar
    <3>2. marca' \in [Eventos -> 0..VidaDaMarca]
      BY <2>1, <3>1 DEF TypeOK
    <3>3. TypeOK'
      BY <3>1, <3>2 DEF TypeOK
    <3>4. pc[p] = "marcando" /\ \A q \in Pedidos : pc'[q] = IF q = p THEN "admitido" ELSE pc[q]
      BY <1>6, <3>1 DEF Marcar, TypeOK
    <3>5. RotasCertas'
      BY <3>1, <3>4 DEF RotasCertas
    <3>. QED
      BY <3>3, <3>5
  <2>3. CASE marca[rota[p].evento] # 0
    BY <1>6, <2>1, <2>3 DEF Marcar, TypeOK, RotasCertas, Respostas
  <2>. QED
    BY <2>2, <2>3
<1>7. ASSUME NEW p \in Pedidos, Proibir(p) \/ Atender(p) \/ Falhar(p) PROVE Certo'
  <2>1. rota[p] \in Rotas /\ {rota[p].evento} \ {Nenhum} \subseteq Eventos
    BY <1>7 DEF Proibir, Atender, Falhar, RotasCertas
  <2>2. CASE Proibir(p)
    BY <2>1, <2>2 DEF Proibir, PerderMarca, TypeOK, RotasCertas, Respostas
  <2>3. CASE Atender(p)
    BY <2>1, <2>3 DEF Atender, Registrado, TypeOK, RotasCertas, Respostas
  <2>4. CASE Falhar(p)
    BY <2>1, <2>4 DEF Falhar, PerderMarca, TypeOK, RotasCertas, Respostas
  <2>. QED
    BY <1>7, <2>2, <2>3, <2>4
<1>8. ASSUME NEW p \in Pedidos, Sair(p), pc[p] # "livre",
             UNCHANGED <<contador, marca, gravados, passaram, reenvios, falhas>>,
             perdidos' \subseteq Eventos, quedas' \in 0..MaxQuedas
      PROVE  Certo'
  BY <1>8, EmptySeq DEF Sair, TypeOK, RotasCertas
<1>9. ASSUME NEW p \in Pedidos, Responder(p) PROVE Certo'
  BY <1>8, <1>9 DEF Responder, TypeOK, Respostas
<1>10. ASSUME NEW p \in Pedidos, Cair(p) PROVE Certo'
  <2>1. rota[p] \in Rotas /\ {rota[p].evento} \ {Nenhum} \subseteq Eventos
    BY <1>10 DEF Cair, RotasCertas
  <2>2. perdidos' \subseteq Eventos /\ quedas' \in 0..MaxQuedas
    BY <1>10, <2>1 DEF Cair, PerderMarca, TypeOK
  <2>. QED
    BY <1>8, <1>10, <2>2 DEF Cair
<1>11. ASSUME NEW p \in Pedidos, pc[p] # "livre", pc' = [pc EXCEPT ![p] = "erro"],
              falhas' \in 0..MaxFalhas, quedas' \in 0..MaxQuedas,
              UNCHANGED <<contador, marca, gravados, rota, falta, passaram, perdidos,
                          reenvios>>
       PROVE  Certo'
  BY <1>11 DEF TypeOK, RotasCertas, Respostas
<1>12. ASSUME NEW p \in Pedidos, FalharRedis(p) \/ PerderPrazo(p) PROVE Certo'
  <2>1. /\ pc[p] # "livre" /\ pc' = [pc EXCEPT ![p] = "erro"]
        /\ falhas' \in 0..MaxFalhas /\ quedas' \in 0..MaxQuedas
        /\ UNCHANGED <<contador, marca, gravados, rota, falta, passaram, perdidos,
                       reenvios>>
    <3>1. CASE FalharRedis(p)
      BY <3>1 DEF FalharRedis, TypeOK
    <3>2. CASE PerderPrazo(p)
      BY <3>2 DEF PerderPrazo, TypeOK
    <3>. QED
      BY <1>12, <3>1, <3>2
  <2>. QED
    BY <1>11, <2>1
<1>13. CASE UNCHANGED vars
  BY <1>13 DEF vars, TypeOK, RotasCertas
<1>. QED
  BY <1>1, <1>2, <1>4, <1>5, <1>6, <1>7, <1>9, <1>10, <1>12, <1>13 DEF Next, Prosseguir

-----------------------------------------------------------------------------
(* Every step keeps the account of the counters.                           *)
LEMMA PassoContadores == ASSUME InvC, [Next]_vars PROVE InvC'
<1> DEFINE Contas == DonoUnico /\ CotaReservada /\ SemPrazoTemDono
<1>0. TypeOK /\ TypeOK' /\ RotasCertas /\ RotasCertas' /\ Contas
  BY PassoTipos DEF InvC
<1> USE LimitesAssumption
(* A step that touches no counter and no owner of one.                      *)
<1>1. ASSUME UNCHANGED <<contador, passaram>>,
             \A q \in Pedidos, d \in Contadores : Dono(q, d)' <=> Dono(q, d),
             quedas' = 0 => quedas = 0
      PROVE  Contas'
  <2>1. DonoUnico'
    BY <1>0, <1>1 DEF DonoUnico
  <2>2. CotaReservada'
    BY <1>0, <1>1 DEF CotaReservada
  <2>3. SemPrazoTemDono'
    BY <1>0, <1>1 DEF SemPrazoTemDono, Dono
  <2>. QED
    BY <2>1, <2>2, <2>3
<1>2. ASSUME NEW p \in Pedidos, pc[p] # "prazo", NEW v, v # "prazo",
             pc' = [pc EXCEPT ![p] = v],
             \A q \in Pedidos \ {p} : falta'[q] = falta[q],
             UNCHANGED <<contador, passaram>>, quedas' = 0 => quedas = 0
      PROVE  Contas'
  <2>1. \A q \in Pedidos, d \in Contadores : Dono(q, d)' <=> Dono(q, d)
    BY <1>0, <1>2 DEF Dono, TypeOK
  <2>. QED
    BY <1>1, <1>2, <2>1
<1>3. ASSUME Tique PROVE Contas'
  <2>1. \A q \in Pedidos, d \in Contadores : Dono(q, d)' <=> Dono(q, d)
    BY <1>3 DEF Tique, Dono
  <2>2. \A c \in Contadores :
          \/ /\ contador[c].prazo = 1 /\ passaram'[c] = 0
             /\ contador'[c].n = 0 /\ contador'[c].prazo = 0
          \/ /\ contador'[c].n = contador[c].n /\ passaram'[c] = passaram[c]
             /\ (contador'[c].prazo = 0 <=> contador[c].prazo = 0)
    BY <1>0, <1>3, Envelhecido
  <2>3. DonoUnico'
    BY <1>0, <2>1, <2>2 DEF DonoUnico
  <2>4. CotaReservada'
    BY <1>0, <2>1, <2>2 DEF CotaReservada, DonoUnico
  <2>5. SemPrazoTemDono'
    BY <1>0, <1>3, <2>1, <2>2 DEF SemPrazoTemDono, Dono, Tique
  <2>. QED
    BY <2>3, <2>4, <2>5
<1>4. ASSUME NEW p \in Pedidos, NEW r \in Rotas, NEW c \in Credenciais, Chegar(p, r, c)
      PROVE  Contas'
  <2> DEFINE v == IF Conta(c) THEN Depois(r.contadores, r.evento) ELSE "admitido"
  <2>1. v # "prazo"
    BY DEF Depois
  <2>2. /\ pc[p] = "livre" /\ pc' = [pc EXCEPT ![p] = v]
        /\ \A q \in Pedidos \ {p} : falta'[q] = falta[q]
        /\ UNCHANGED <<contador, passaram, quedas>>
    BY <1>0, <1>4 DEF Chegar, TypeOK
  <2> HIDE DEF v
  <2>. QED
    BY <1>2, <2>1, <2>2
(* A request is judged against c: if it was the owner, it no longer is.     *)
<1>5. ASSUME NEW p \in Pedidos, NEW c \in Contadores, NEW n \in Nat,
             pc[p] \in {"contando", "prazo"}, Julgar(p, c, n), UNCHANGED quedas,
             \A d \in Contadores \ {c} : contador'[d] = contador[d],
             \A d \in Contadores : Dono(p, d) => d = c,
             \/ Dono(p, c) /\ contador'[c].n = contador[c].n /\ contador'[c].prazo > 0
             \/ /\ pc[p] = "contando" /\ contador'[c].prazo = contador[c].prazo
                /\ contador[c].n > 0 /\ contador[c].n <= contador'[c].n
                /\ n <= Limite[c] => n = contador[c].n + 1 /\ contador'[c].n = n
      PROVE  Contas'
  <2>1. \A q \in Pedidos \ {p}, d \in Contadores : Dono(q, d)' <=> Dono(q, d)
    BY <1>0, <1>5, Julgado DEF Dono
  <2>2. \A d \in Contadores : ~Dono(p, d)'
    BY <1>0, <1>5, Julgado DEF Dono
  <2>3. /\ \A d \in Contadores \ {c} : passaram'[d] = passaram[d]
        /\ \/ passaram'[c] = passaram[c]
           \/ passaram'[c] = passaram[c] + 1 /\ n <= Limite[c]
    BY <1>0, <1>5, Julgado
  <2>4. /\ \A d \in Contadores : passaram[d] \in Nat /\ Limite[d] \in Nat
        /\ \A d \in Contadores : contador[d].n \in Nat /\ contador'[d].n \in Nat
    BY <1>0 DEF TypeOK
  <2>5. DonoUnico'
    BY <1>0, <1>5, <2>1, <2>2, <2>4 DEF DonoUnico
  <2>6. CotaReservada'
    <3>1. ASSUME NEW d \in Contadores, d # c
          PROVE  /\ contador'[d].n = 0 => contador'[d].prazo = 0
                 /\ passaram'[d] <= contador'[d].n /\ passaram'[d] <= Limite[d]
                 /\ (\E q \in Pedidos : Dono(q, d)') =>
                       passaram'[d] + 1 <= contador'[d].n /\ passaram'[d] + 1 <= Limite[d]
      BY <1>0, <1>5, <2>1, <2>2, <2>3, <3>1 DEF CotaReservada
    <3>2. /\ contador'[c].n = 0 => contador'[c].prazo = 0
          /\ passaram'[c] <= contador'[c].n /\ passaram'[c] <= Limite[c]
          /\ (\E q \in Pedidos : Dono(q, c)') =>
                passaram'[c] + 1 <= contador'[c].n /\ passaram'[c] + 1 <= Limite[c]
      <4>1. CASE Dono(p, c) /\ contador'[c].n = contador[c].n /\ contador'[c].prazo > 0
        <5>1. /\ \A q \in Pedidos : ~Dono(q, c)' /\ contador[c].n > 0
              /\ passaram[c] + 1 <= contador[c].n /\ passaram[c] + 1 <= Limite[c]
          BY <1>0, <2>1, <2>2, <4>1 DEF DonoUnico, CotaReservada
        <5>. QED
          BY <2>3, <2>4, <4>1, <5>1
      <4>2. CASE /\ contador[c].n > 0 /\ contador[c].n <= contador'[c].n
                 /\ n <= Limite[c] => n = contador[c].n + 1 /\ contador'[c].n = n
        <5>1. /\ (\E q \in Pedidos : Dono(q, c)') => \E q \in Pedidos : Dono(q, c)
              /\ passaram[c] <= contador[c].n /\ passaram[c] <= Limite[c]
              /\ (\E q \in Pedidos : Dono(q, c)) =>
                    passaram[c] + 1 <= contador[c].n /\ passaram[c] + 1 <= Limite[c]
          BY <1>0, <2>1, <2>2 DEF CotaReservada
        <5>. QED
          BY SMTT(30), <2>3, <2>4, <4>2, <5>1
      <4>. QED
        BY <1>5, <4>1, <4>2
    <3>. QED
      BY <3>1, <3>2 DEF CotaReservada
  <2>7. SemPrazoTemDono'
    <3>1. quedas' = 0 => \A d \in Contadores :
            contador[d].n > 0 /\ contador[d].prazo = 0 => \E q \in Pedidos : Dono(q, d)
      BY <1>0, <1>5 DEF SemPrazoTemDono, Dono
    <3>2. pc[p] = "contando" => \A d \in Contadores : ~Dono(p, d)
      BY DEF Dono
    <3>3. quedas' = 0 => \A d \in Contadores :
            contador'[d].n > 0 /\ contador'[d].prazo = 0 => \E q \in Pedidos : Dono(q, d)'
      <4>. SUFFICES ASSUME quedas' = 0, NEW d \in Contadores,
                           contador'[d].n > 0, contador'[d].prazo = 0
                    PROVE  \E q \in Pedidos : Dono(q, d)'
        OBVIOUS
      <4>1. contador[d].n > 0 /\ contador[d].prazo = 0 /\ ~Dono(p, d)
        <5>1. CASE d # c
          BY <1>5, <5>1
        <5>2. CASE d = c
          BY <1>5, <3>2, <5>2
        <5>. QED
          BY <5>1, <5>2
      <4>2. PICK q \in Pedidos : Dono(q, d)
        BY <3>1, <4>1
      <4>3. q # p
        BY <4>1, <4>2
      <4>. QED
        BY <2>1, <4>2, <4>3
    <3>. QED
      BY <3>3 DEF SemPrazoTemDono, Dono
  <2>. QED
    BY <2>5, <2>6, <2>7
<1>6. ASSUME NEW p \in Pedidos, Incrementar(p) PROVE Contas'
  <2> DEFINE c == Head(falta[p])
  <2>1. /\ c \in Contadores /\ pc[p] = "contando" /\ UNCHANGED quedas
        /\ Incrementado(c) \in 1..(Limite[c] + 1)
        /\ contador'[c].n = Incrementado(c) /\ contador'[c].prazo = contador[c].prazo
        /\ contador[c].n <= Incrementado(c)
        /\ Incrementado(c) <= Limite[c] => Incrementado(c) = contador[c].n + 1
        /\ \A d \in Contadores \ {c} : contador'[d] = contador[d]
        /\ \/ /\ Incrementado(c) = 1 /\ contador[c].n = 0
              /\ pc' = [pc EXCEPT ![p] = "prazo"] /\ UNCHANGED <<falta, passaram>>
           \/ Incrementado(c) # 1 /\ Julgar(p, c, Incrementado(c))
    BY <1>0, <1>6, Incremento
  <2>2. contador[c].n \in Nat /\ Limite[c] \in Nat \ {0} /\ passaram[c] \in Nat
    BY <1>0, <2>1 DEF TypeOK
  <2>3. CASE /\ Incrementado(c) = 1 /\ contador[c].n = 0
             /\ pc' = [pc EXCEPT ![p] = "prazo"] /\ UNCHANGED <<falta, passaram>>
    <3>1. \A q \in Pedidos, d \in Contadores :
            Dono(q, d)' <=> (Dono(q, d) \/ (q = p /\ d = c))
      BY <1>0, <2>1, <2>3 DEF Dono, TypeOK
    <3>2. /\ \A q \in Pedidos : ~Dono(q, c)
          /\ \A d \in Contadores : ~Dono(p, d)
          /\ contador[c].prazo = 0 /\ passaram[c] = 0
      BY <1>0, <2>1, <2>2, <2>3 DEF DonoUnico, CotaReservada, Dono
    <3> HIDE DEF c
    <3>3. DonoUnico'
      BY <1>0, <2>1, <2>3, <3>1, <3>2 DEF DonoUnico
    <3>4. CotaReservada'
      BY <1>0, <2>1, <2>2, <2>3, <3>1, <3>2 DEF CotaReservada
    <3>5. SemPrazoTemDono'
      <4>1. quedas' = 0 => \A d \in Contadores :
              contador[d].n > 0 /\ contador[d].prazo = 0 => \E q \in Pedidos : Dono(q, d)
        BY <1>0, <2>1 DEF SemPrazoTemDono, Dono
      <4>2. quedas' = 0 => \A d \in Contadores :
              contador'[d].n > 0 /\ contador'[d].prazo = 0 => \E q \in Pedidos : Dono(q, d)'
        <5>. SUFFICES ASSUME quedas' = 0, NEW d \in Contadores,
                             contador'[d].n > 0, contador'[d].prazo = 0
                      PROVE  \E q \in Pedidos : Dono(q, d)'
          OBVIOUS
        <5>1. CASE d = c
          BY <3>1, <5>1
        <5>2. CASE d # c
          <6>1. PICK q \in Pedidos : Dono(q, d)
            BY <2>1, <4>1, <5>2
          <6>. QED
            BY <3>1, <6>1
        <5>. QED
          BY <5>1, <5>2
      <4>. QED
        BY <4>2 DEF SemPrazoTemDono, Dono
    <3>. QED
      BY <3>3, <3>4, <3>5
  <2>4. CASE Incrementado(c) # 1 /\ Julgar(p, c, Incrementado(c))
    <3>1. \A d \in Contadores : ~Dono(p, d)
      BY <2>1 DEF Dono
    <3>2. contador[c].n > 0
      <4>1. contador[c].n = 0 => Incrementado(c) = 1
        BY <2>2 DEF Incrementado
      <4>. QED
        BY <2>2, <2>4, <4>1
    <3> HIDE DEF c
    <3>. QED
      BY <1>5, <2>1, <2>2, <2>4, <3>1, <3>2
  <2>. QED
    BY <2>1, <2>3, <2>4
<1>12. ASSUME NEW p \in Pedidos, DefinirPrazo(p) PROVE Contas'
  <2> DEFINE c == Head(falta[p])
  <2>1. /\ c \in Contadores /\ pc[p] = "prazo" /\ Dono(p, c) /\ UNCHANGED quedas
        /\ contador'[c].n = contador[c].n
        /\ contador[c].n > 0 => contador'[c].prazo = Janela
        /\ \A d \in Contadores \ {c} : contador'[d] = contador[d]
        /\ Julgar(p, c, 1)
    BY <1>0, <1>12, Prazo
  <2>2. \A d \in Contadores : Dono(p, d) => d = c
    BY DEF Dono
  <2>3. contador'[c].prazo > 0
    BY <1>0, <2>1 DEF DonoUnico
  <2> HIDE DEF c
  <2>. QED
    BY <1>5, <2>1, <2>2, <2>3
<1>7. ASSUME NEW p \in Pedidos, Marcar(p) PROVE Contas'
  BY <1>2, <1>7 DEF Marcar
<1>8. ASSUME NEW p \in Pedidos,
             Proibir(p) \/ Atender(p) \/ Falhar(p) \/ FalharRedis(p)
      PROVE  Contas'
  BY <1>2, <1>8 DEF Proibir, Atender, Falhar, FalharRedis
<1>9. ASSUME NEW p \in Pedidos, Responder(p) PROVE Contas'
  <2>1. pc[p] # "prazo" /\ \A q \in Pedidos \ {p} : falta'[q] = falta[q]
    BY <1>0, <1>9 DEF Responder, Sair, Respostas, TypeOK
  <2>. QED
    BY <1>2, <1>9, <2>1 DEF Responder, Sair
(* A counter may be left without an owner.                                  *)
<1>10. ASSUME NEW p \in Pedidos, Cair(p) \/ PerderPrazo(p) PROVE Contas'
  <2>1. /\ \A q \in Pedidos, d \in Contadores : Dono(q, d)' => Dono(q, d)
        /\ UNCHANGED <<contador, passaram>> /\ quedas' # 0
    <3>1. CASE Cair(p)
      BY <1>0, <3>1 DEF Cair, Sair, Dono, TypeOK
    <3>2. CASE PerderPrazo(p)
      BY <1>0, <3>2 DEF PerderPrazo, Dono, TypeOK
    <3>. QED
      BY <1>10, <3>1, <3>2
  <2>2. DonoUnico'
    BY <1>0, <2>1 DEF DonoUnico
  <2>3. CotaReservada'
    BY <1>0, <2>1 DEF CotaReservada
  <2>. QED
    BY <2>1, <2>2, <2>3 DEF SemPrazoTemDono
<1>11. ASSUME UNCHANGED vars PROVE Contas'
  BY <1>1, <1>11 DEF vars, Dono
<1>. QED
  BY <1>0, <1>3, <1>4, <1>6, <1>7, <1>8, <1>9, <1>10, <1>11, <1>12
     DEF Next, Prosseguir, InvC

-----------------------------------------------------------------------------
(* Every step keeps the marks explained.                                   *)
LEMMA PassoMarcas == ASSUME InvM, [Next]_vars PROVE InvM'
<1>0. TypeOK /\ TypeOK' /\ RotasCertas /\ RotasCertas' /\ MarcasExplicadas
  BY PassoTipos DEF InvM
<1> USE LimitesAssumption
(* A step that marks no event, refuses none and ends no ingestion unsaid.   *)
<1>1. ASSUME \A e \in Eventos : marca'[e] > 0 => marca[e] > 0,
             \A q \in Pedidos : pc'[q] = "repetido" => pc[q] = "repetido" /\ rota'[q] = rota[q],
             \A e \in Eventos : Explicado(e) => Explicado(e)'
      PROVE  MarcasExplicadas'
  <2>1. \A q \in Pedidos : pc[q] = "repetido" => rota[q].evento \in Eventos
    BY <1>0 DEF RotasCertas
  <2>. QED
    BY <1>0, <1>1, <2>1 DEF MarcasExplicadas
<1>2. ASSUME NEW p \in Pedidos, NEW v, v # "repetido", pc' = [pc EXCEPT ![p] = v],
             \A q \in Pedidos \ {p} : rota'[q] = rota[q],
             \/ pc[p] # "admitido"
             \/ rota[p].evento \in gravados' \cup perdidos' \cup {Nenhum},
             gravados \subseteq gravados', perdidos \subseteq perdidos',
             UNCHANGED marca
      PROVE  MarcasExplicadas'
  <2>1. \A q \in Pedidos : pc'[q] = IF q = p THEN v ELSE pc[q]
    BY <1>0, <1>2 DEF TypeOK
  <2>2. \A e \in Eventos : Explicado(e) => Explicado(e)'
    BY <1>2, <2>1 DEF Explicado
  <2>. QED
    BY <1>1, <1>2, <2>1, <2>2
<1>3. ASSUME Tique PROVE MarcasExplicadas'
  BY <1>0, <1>1, <1>3, Envelhecido DEF Tique, Explicado
<1>4. ASSUME NEW p \in Pedidos, NEW r \in Rotas, NEW c \in Credenciais, Chegar(p, r, c)
      PROVE  MarcasExplicadas'
  <2> DEFINE v == IF Conta(c) THEN Depois(r.contadores, r.evento) ELSE "admitido"
  <2>1. v # "repetido"
    BY DEF Depois
  <2>2. /\ pc[p] = "livre" /\ pc' = [pc EXCEPT ![p] = v]
        /\ \A q \in Pedidos \ {p} : rota'[q] = rota[q]
        /\ UNCHANGED <<marca, gravados, perdidos>>
    BY <1>0, <1>4 DEF Chegar, TypeOK
  <2> HIDE DEF v
  <2>. QED
    BY <1>2, <2>1, <2>2
<1>5. ASSUME NEW p \in Pedidos, NEW c \in Contadores, NEW n \in Nat,
             pc[p] \in {"contando", "prazo"}, Julgar(p, c, n),
             UNCHANGED <<marca, gravados, rota, perdidos>>
      PROVE  MarcasExplicadas'
  <2>1. \A q \in Pedidos : pc'[q] = "repetido" => pc[q] = "repetido" /\ rota'[q] = rota[q]
    BY <1>0, <1>5, Julgado
  <2>2. \A e \in Eventos : Explicado(e) => Explicado(e)'
    BY <1>0, <1>5, Julgado DEF Explicado
  <2>. QED
    BY <1>1, <1>5, <2>1, <2>2
<1>6. ASSUME NEW p \in Pedidos, Incrementar(p) PROVE MarcasExplicadas'
  <2> DEFINE c == Head(falta[p])
  <2>1. /\ c \in Contadores /\ pc[p] = "contando" /\ Incrementado(c) \in Nat
        /\ UNCHANGED <<marca, gravados, rota, perdidos>>
        /\ \/ pc' = [pc EXCEPT ![p] = "prazo"]
           \/ Julgar(p, c, Incrementado(c))
    BY <1>0, <1>6, Incremento
  <2> HIDE DEF c
  <2>. QED
    BY <1>2, <1>5, <2>1
<1>7. ASSUME NEW p \in Pedidos, DefinirPrazo(p) PROVE MarcasExplicadas'
  <2> DEFINE c == Head(falta[p])
  <2>1. /\ c \in Contadores /\ pc[p] = "prazo" /\ Julgar(p, c, 1)
        /\ UNCHANGED <<marca, gravados, rota, perdidos>>
    BY <1>0, <1>7, Prazo
  <2> HIDE DEF c
  <2>. QED
    BY <1>5, <2>1
<1>8. ASSUME NEW p \in Pedidos, Marcar(p) PROVE MarcasExplicadas'
  <2> DEFINE e == rota[p].evento
  <2>1. e \in Eventos /\ pc[p] = "marcando" /\ UNCHANGED <<gravados, rota, perdidos>>
    BY <1>0, <1>8 DEF Marcar, RotasCertas
  <2>2. \A q \in Pedidos : pc[q] = "repetido" => rota[q].evento \in Eventos
    BY <1>0 DEF RotasCertas
  <2>3. CASE marca[e] = 0
    <3>1. marca' = [marca EXCEPT ![e] = VidaDaMarca] /\ pc' = [pc EXCEPT ![p] = "admitido"]
      BY <1>8, <2>3 DEF Marcar
    <3>2. /\ \A q \in Pedidos : pc'[q] = IF q = p THEN "admitido" ELSE pc[q]
          /\ \A f \in Eventos \ {e} : marca'[f] = marca[f]
      BY <1>0, <3>1 DEF TypeOK
    <3>3. \A f \in Eventos : f = e \/ Explicado(f) => Explicado(f)'
      BY <2>1, <3>2 DEF Explicado
    <3>. QED
      BY <1>0, <2>1, <2>2, <3>2, <3>3 DEF MarcasExplicadas
  <2>4. CASE marca[e] # 0
    <3>1. pc' = [pc EXCEPT ![p] = "repetido"] /\ UNCHANGED marca
      BY <1>8, <2>4 DEF Marcar
    <3>2. \A q \in Pedidos : pc'[q] = IF q = p THEN "repetido" ELSE pc[q]
      BY <1>0, <3>1 DEF TypeOK
    <3>3. \A f \in Eventos : Explicado(f) => Explicado(f)'
      BY <2>1, <3>2 DEF Explicado
    <3>4. Explicado(e)
      BY <1>0, <2>1, <2>4 DEF TypeOK, MarcasExplicadas
    <3>. QED
      BY <1>0, <2>1, <2>2, <3>1, <3>2, <3>3, <3>4 DEF MarcasExplicadas
  <2>. QED
    BY <2>3, <2>4
<1>9. ASSUME NEW p \in Pedidos, Proibir(p) \/ Atender(p) \/ Falhar(p)
      PROVE  MarcasExplicadas'
  <2>1. rota[p].evento \in gravados' \cup perdidos' \cup {Nenhum}
    BY <1>9 DEF Proibir, Atender, Falhar, PerderMarca, Registrado
  <2>. QED
    BY <1>2, <1>9, <2>1 DEF Proibir, Atender, Falhar, PerderMarca
<1>10. ASSUME NEW p \in Pedidos, Responder(p) PROVE MarcasExplicadas'
  <2>1. /\ pc[p] # "admitido" /\ pc' = [pc EXCEPT ![p] = "livre"]
        /\ \A q \in Pedidos \ {p} : rota'[q] = rota[q]
    BY <1>0, <1>10 DEF Responder, Sair, Respostas, TypeOK
  <2>. QED
    BY <1>2, <1>10, <2>1 DEF Responder
<1>11. ASSUME NEW p \in Pedidos, Cair(p) PROVE MarcasExplicadas'
  <2>1. /\ pc' = [pc EXCEPT ![p] = "livre"]
        /\ \A q \in Pedidos \ {p} : rota'[q] = rota[q]
    BY <1>0, <1>11 DEF Cair, Sair, TypeOK
  <2>. QED
    BY <1>2, <1>11, <2>1 DEF Cair, PerderMarca
<1>12. ASSUME NEW p \in Pedidos, FalharRedis(p) \/ PerderPrazo(p)
       PROVE  MarcasExplicadas'
  BY <1>2, <1>12 DEF FalharRedis, PerderPrazo
<1>13. ASSUME UNCHANGED vars PROVE MarcasExplicadas'
  BY <1>1, <1>13 DEF vars, Explicado
<1>. QED
  BY <1>0, <1>3, <1>4, <1>6, <1>7, <1>8, <1>9, <1>10, <1>11, <1>12, <1>13
     DEF Next, Prosseguir, InvM

-----------------------------------------------------------------------------
LEMMA Inicio == ASSUME Init PROVE InvC /\ InvM
<1> USE LimitesAssumption
<1>1. TypeOK /\ RotasCertas
  <2>1. \A p \in Pedidos : falta[p] \in Seq(Contadores)
    BY EmptySeq DEF Init
  <2>2. falta \in [Pedidos -> Seq(Contadores)]
    BY <2>1 DEF Init
  <2>. QED
    BY <2>2 DEF Init, TypeOK, RotasCertas, Respostas
<1>2. DonoUnico /\ CotaReservada /\ SemPrazoTemDono
  BY DEF Init, DonoUnico, CotaReservada, SemPrazoTemDono, Dono
<1>3. MarcasExplicadas
  BY DEF Init, MarcasExplicadas
<1>. QED
  BY <1>1, <1>2, <1>3 DEF InvC, InvM

(* No counter lets through more than its limit in a window, and unless a   *)
(* process died or Redis refused an EXPIRE, one without expiry is about to *)
(* be given one: for any replicas, counters, limits and window.            *)
THEOREM ContadoresSempreEmOrdem == Spec => []ContadoresEmOrdem
<1>1. Init => InvC
  BY Inicio
<1>2. InvC /\ [Next]_vars => InvC'
  BY PassoContadores
<1>3. InvC => ContadoresEmOrdem
  BY DEF InvC, CotaReservada, CotaRespeitada, ContadoresEmOrdem
<1>. QED
  BY <1>1, <1>2, <1>3, PTL DEF Spec

(* Nobody is told that an event was received before somebody received it,  *)
(* but after a request that had marked it failed.                          *)
THEOREM RepetidoSempreRecebido == Spec => []RepetidoFoiRecebido
<1>1. Init => InvM
  BY Inicio
<1>2. InvM /\ [Next]_vars => InvM'
  BY PassoMarcas
<1>3. InvM => RepetidoFoiRecebido
  BY DEF InvM, MarcasExplicadas, Explicado, RepetidoFoiRecebido, EmCurso
<1>. QED
  BY <1>1, <1>2, <1>3, PTL DEF Spec
=============================================================================
