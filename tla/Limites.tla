------------------------------- MODULE Limites -------------------------------
(***************************************************************************)
(* Rate limits and event marks in Redis, in front of the ingestion and of  *)
(* the protected routes.  Each Redis command is a step: replicas of the    *)
(* API interleave between them, a process may die, and time passes.        *)
(***************************************************************************)
EXTENDS Naturals, Sequences, FiniteSets

CONSTANTS Contadores,  \* keys rate:...: of a user, a chat, a route, an ip
          Limite,      \* requests each counter lets through per window
          Eventos,
          Rotas,       \* [contadores, evento, permitida]: what requests ask for
          Pedidos,     \* requests in progress at one time
          Janela,      \* ticks a counter lives
          VidaDaMarca, \* ticks the mark of an event lives (10 windows)
          TemSegredo, ExigeHmac,  \* settings of the webhook
          TaxaLigada,  \* rate_limit_enabled
          MaxReenvios, \* bound: requests without event, or of one recorded
          MaxFalhas,   \* bound: requests that fail, senders not allowed
          MaxQuedas,   \* bound: requests that die, or lose Redis before EXPIRE
          Nenhum

ASSUME LimitesAssumption ==
    /\ Limite \in [Contadores -> Nat \ {0}]
    /\ Rotas \subseteq [contadores : Seq(Contadores), evento : Eventos \cup {Nenhum},
                        permitida : BOOLEAN]
    /\ Janela \in Nat \ {0} /\ VidaDaMarca \in Nat \ {0}
    /\ TemSegredo \in BOOLEAN /\ ExigeHmac \in BOOLEAN /\ TaxaLigada \in BOOLEAN
    /\ MaxReenvios \in Nat /\ MaxFalhas \in Nat /\ MaxQuedas \in Nat
    /\ Nenhum \notin Eventos

VARIABLES contador,   \* value and expiry of each counter; expiry 0 is none
          marca,      \* remaining life of the mark of each event
          gravados,   \* events with a committed entrada
          pc, rota, falta,  \* each request, what it asks, counters to go
          passaram,   \* history: requests let through by the current counter
          perdidos,   \* history: events marked by a request that failed
          reenvios, falhas, quedas

vars == <<contador, marca, gravados, pc, rota, falta, passaram, perdidos,
          reenvios, falhas, quedas>>

Init ==
    /\ contador = [c \in Contadores |-> [n |-> 0, prazo |-> 0]]
    /\ marca = [e \in Eventos |-> 0]
    /\ gravados = {}
    /\ pc = [p \in Pedidos |-> "livre"]
    /\ rota = [p \in Pedidos |-> Nenhum]
    /\ falta = [p \in Pedidos |-> <<>>]
    /\ passaram = [c \in Contadores |-> 0]
    /\ perdidos = {}
    /\ reenvios = 0 /\ falhas = 0 /\ quedas = 0

Respostas == {"excedido", "repetido", "proibido", "erro", "aceito"}
EmCurso(e) == {p \in Pedidos : pc[p] # "livre" /\ rota[p].evento = e}

-----------------------------------------------------------------------------
(* Arrival: verify_openclaw_webhook, require_api_key.  A credential is     *)
(* "assinada" when every header, the clock and the HMAC (or the API key)   *)
(* are right, "segredo" for the static secret.  Without a good credential  *)
(* a request is refused before it counts and changes nothing here.         *)

Credenciais == {"assinada", "segredo"}
Autentica(c) ==
    TemSegredo /\ (c = "assinada" \/ (c = "segredo" /\ ~ExigeHmac))
SemAutenticacao == ~TemSegredo /\ ~ExigeHmac

Depois(fs, evento) ==
    IF fs # <<>> THEN "contando"
    ELSE IF evento = Nenhum THEN "admitido" ELSE "marcando"

(* A request is counted and its event marked when limits are on and it was *)
(* authenticated.                                                          *)
Conta(c) == TaxaLigada /\ Autentica(c)

(* The arrivals MaxReenvios bounds.                                        *)
Limitado(r) == r.evento \in gravados \cup {Nenhum}
Chegar(p, r, c) ==
    /\ pc[p] = "livre" /\ (Autentica(c) \/ SemAutenticacao)
    /\ Limitado(r) => reenvios < MaxReenvios
    /\ reenvios' = IF Limitado(r) THEN reenvios + 1 ELSE reenvios
    /\ ~r.permitida => falhas < MaxFalhas
    /\ falhas' = IF r.permitida THEN falhas ELSE falhas + 1
    /\ rota' = [rota EXCEPT ![p] = r]
    /\ falta' = [falta EXCEPT ![p] = IF Conta(c) THEN r.contadores ELSE <<>>]
    /\ pc' = [pc EXCEPT ![p] =
               IF Conta(c) THEN Depois(r.contadores, r.evento) ELSE "admitido"]
    /\ UNCHANGED <<contador, marca, gravados, passaram, perdidos, quedas>>

-----------------------------------------------------------------------------
(* check_openclaw_limits, check_protected_route_limit and                  *)
(* check_admin_login_limit: the same INCR, EXPIRE, comparison.             *)

(* Mutant: a request too many is let through.                              *)
UmAMais(n, c) == n <= Limite[c] + 1
Passa(n, c) == n <= Limite[c]

(* Mutant: the window is never started.                                    *)
NuncaComeca(n) == n < 0
ComecaJanela(n) == n = 1

Julgar(p, c, n) ==
    IF Passa(n, c)
    THEN /\ pc' = [pc EXCEPT ![p] = Depois(Tail(falta[p]), rota[p].evento)]
         /\ falta' = [falta EXCEPT ![p] = Tail(@)]
         /\ passaram' = [passaram EXCEPT ![c] = @ + 1]
    ELSE /\ pc' = [pc EXCEPT ![p] = "excedido"]
         /\ UNCHANGED <<falta, passaram>>

(* Beyond the limit by one the exact value no longer matters: it stays.    *)
Incrementar(p) ==
    LET c == Head(falta[p])
        n == IF contador[c].n > Limite[c] THEN contador[c].n ELSE contador[c].n + 1
    IN
    /\ pc[p] = "contando"
    /\ contador' = [contador EXCEPT ![c].n = n]
    /\ IF ComecaJanela(n)
       THEN pc' = [pc EXCEPT ![p] = "prazo"] /\ UNCHANGED <<falta, passaram>>
       ELSE Julgar(p, c, n)
    /\ UNCHANGED <<marca, gravados, rota, perdidos, reenvios, falhas, quedas>>

DefinirPrazo(p) ==
    LET c == Head(falta[p]) IN
    /\ pc[p] = "prazo"
    /\ contador' = [contador EXCEPT ![c].prazo = IF contador[c].n = 0 THEN 0 ELSE Janela]
    /\ Julgar(p, c, 1)
    /\ UNCHANGED <<marca, gravados, rota, perdidos, reenvios, falhas, quedas>>

(* SET NX EX of the event.                                                 *)
Marcar(p) ==
    LET e == rota[p].evento IN
    /\ pc[p] = "marcando"
    /\ IF marca[e] = 0
       THEN /\ marca' = [marca EXCEPT ![e] = VidaDaMarca]
            /\ pc' = [pc EXCEPT ![p] = "admitido"]
       ELSE pc' = [pc EXCEPT ![p] = "repetido"] /\ UNCHANGED marca
    /\ UNCHANGED <<contador, gravados, rota, falta, passaram, perdidos, reenvios,
                   falhas, quedas>>

(* Redis refuses INCR or SET: a 500, and nothing is counted or marked.     *)
FalharRedis(p) ==
    /\ pc[p] \in {"contando", "marcando"} /\ falhas < MaxFalhas
    /\ falhas' = falhas + 1
    /\ pc' = [pc EXCEPT ![p] = "erro"]
    /\ UNCHANGED <<contador, marca, gravados, rota, falta, passaram, perdidos,
                   reenvios, quedas>>

(* Redis refuses EXPIRE after it has counted: the counter has no expiry    *)
(* and no later request gives it one.                                      *)
PerderPrazo(p) ==
    /\ pc[p] = "prazo" /\ quedas < MaxQuedas
    /\ quedas' = quedas + 1
    /\ pc' = [pc EXCEPT ![p] = "erro"]
    /\ UNCHANGED <<contador, marca, gravados, rota, falta, passaram, perdidos,
                   reenvios, falhas>>

-----------------------------------------------------------------------------
(* The route.  The allowlist is looked at after limits and mark.           *)

(* The mark outlives an admitted request that does not end in a record.    *)
PerderMarca(p) ==
    perdidos' = IF pc[p] = "admitido" THEN perdidos \cup ({rota[p].evento} \ {Nenhum})
                ELSE perdidos

Proibir(p) ==
    /\ pc[p] = "admitido" /\ ~rota[p].permitida
    /\ pc' = [pc EXCEPT ![p] = "proibido"]
    /\ PerderMarca(p)
    /\ UNCHANGED <<contador, marca, gravados, rota, falta, passaram, reenvios,
                   falhas, quedas>>

(* Mutant: the answer is given and the transaction not committed.          *)
SemCommit(p) == {rota[p].evento} \cap gravados
Registrado(p) == {rota[p].evento} \ {Nenhum}

(* The ingestion commits, or answers from the committed key.               *)
Atender(p) ==
    /\ pc[p] = "admitido" /\ rota[p].permitida
    /\ gravados' = gravados \cup Registrado(p)
    /\ pc' = [pc EXCEPT ![p] = "aceito"]
    /\ UNCHANGED <<contador, marca, rota, falta, passaram, perdidos, reenvios,
                   falhas, quedas>>

(* Any exception of the ingestion is a 500; nothing takes the mark back.   *)
Falhar(p) ==
    /\ pc[p] = "admitido" /\ rota[p].permitida /\ falhas < MaxFalhas
    /\ falhas' = falhas + 1
    /\ pc' = [pc EXCEPT ![p] = "erro"]
    /\ PerderMarca(p)
    /\ UNCHANGED <<contador, marca, gravados, rota, falta, passaram, reenvios, quedas>>

Sair(p) ==
    /\ pc' = [pc EXCEPT ![p] = "livre"]
    /\ rota' = [rota EXCEPT ![p] = Nenhum]
    /\ falta' = [falta EXCEPT ![p] = <<>>]

Responder(p) ==
    /\ pc[p] \in Respostas /\ Sair(p)
    /\ UNCHANGED <<contador, marca, gravados, passaram, perdidos, reenvios,
                   falhas, quedas>>

(* The process of the request dies.                                        *)
Cair(p) ==
    /\ pc[p] \notin Respostas \cup {"livre"} /\ quedas < MaxQuedas
    /\ quedas' = quedas + 1 /\ Sair(p)
    /\ PerderMarca(p)
    /\ UNCHANGED <<contador, marca, gravados, passaram, reenvios, falhas>>

(* Redis: keys with an expiry get older and vanish.                        *)
Menos(t) == IF t = 0 THEN 0 ELSE t - 1
Tique ==
    /\ \/ \E c \in Contadores : contador[c].prazo > 0
       \/ \E e \in Eventos : marca[e] > 0
    /\ contador' = [c \in Contadores |->
                      IF contador[c].prazo = 1 THEN [n |-> 0, prazo |-> 0]
                      ELSE [contador[c] EXCEPT !.prazo = Menos(@)]]
    /\ passaram' = [c \in Contadores |-> IF contador[c].prazo = 1 THEN 0 ELSE passaram[c]]
    /\ marca' = [e \in Eventos |-> Menos(marca[e])]
    /\ UNCHANGED <<gravados, pc, rota, falta, perdidos, reenvios, falhas, quedas>>

-----------------------------------------------------------------------------
Prosseguir(p) ==
    \/ Incrementar(p) \/ DefinirPrazo(p) \/ Marcar(p) \/ FalharRedis(p)
    \/ Proibir(p) \/ Atender(p) \/ Falhar(p) \/ Responder(p)

Next ==
    \/ Tique
    \/ \E p \in Pedidos :
         \/ \E r \in Rotas, c \in Credenciais : Chegar(p, r, c)
         \/ Prosseguir(p) \/ PerderPrazo(p) \/ Cair(p)

Spec == Init /\ [][Next]_vars

(* A sender keeps sending an event it may send until it is recorded.       *)
Reenviar(e) ==
    /\ e \notin gravados /\ EmCurso(e) = {}
    /\ \E p \in Pedidos, r \in Rotas :
         r.evento = e /\ r.permitida /\ Chegar(p, r, "assinada")

(* Requests end, Redis expires keys, senders insist.                       *)
SpecJusta ==
    /\ Spec /\ WF_vars(Tique)
    /\ \A p \in Pedidos : WF_vars(Prosseguir(p))
    /\ \A e \in Eventos : WF_vars(Reenviar(e))

-----------------------------------------------------------------------------
(* Every variable has its type.                                            *)
TypeOK ==
    /\ contador \in [Contadores -> [n : Nat, prazo : 0..Janela]]
    /\ \A c \in Contadores : contador[c].n <= Limite[c] + 1
    /\ passaram \in [Contadores -> Nat]
    /\ marca \in [Eventos -> 0..VidaDaMarca]
    /\ gravados \subseteq Eventos /\ perdidos \subseteq Eventos
    /\ pc \in [Pedidos -> Respostas \cup {"livre", "contando", "prazo",
                                          "marcando", "admitido"}]
    /\ rota \in [Pedidos -> Rotas \cup {Nenhum}]
    /\ falta \in [Pedidos -> Seq(Contadores)]
    /\ \A p \in Pedidos : pc[p] \in {"contando", "prazo"} => falta[p] # <<>>
    /\ reenvios \in 0..MaxReenvios /\ falhas \in 0..MaxFalhas /\ quedas \in 0..MaxQuedas

(* A counter lets at most its limit through before it expires, though      *)
(* requests of several replicas count and compare in separate commands.    *)
CotaRespeitada == \A c \in Contadores : passaram[c] <= Limite[c]

(* Unless a process died or Redis refused an EXPIRE, a counter without     *)
(* expiry is about to be given one by the request that created it.         *)
SemPrazoTemDono ==
    quedas = 0 =>
        \A c \in Contadores : contador[c].n > 0 /\ contador[c].prazo = 0 =>
            \E p \in Pedidos : pc[p] = "prazo" /\ Head(falta[p]) = c

(* Counters neither let too many through nor stay behind for ever.         *)
ContadoresEmOrdem == TypeOK /\ CotaRespeitada /\ SemPrazoTemDono

(* An event whose sender insists is recorded, whatever quota its retries   *)
(* spend, whatever fails and however often its mark refuses them, unless a *)
(* process dies or Redis refuses an EXPIRE (a counter left between INCR    *)
(* and EXPIRE refuses for ever).                                           *)
EventoChega == \A e \in Eventos : [](quedas = 0) => <>(e \in gravados)

(* The refusal says "Evento já recebido recentemente": the event was       *)
(* recorded or somebody is at it, unless a request that had marked it      *)
(* failed, was not allowed or died.                                        *)
RepetidoFoiRecebido ==
    \A p \in Pedidos : pc[p] = "repetido" =>
        \/ rota[p].evento \in gravados \cup perdidos
        \/ EmCurso(rota[p].evento) # {p}
=============================================================================
