-------------------------------- MODULE Corpo --------------------------------
(***************************************************************************)
(* BodySizeLimitMiddleware: one HTTP request whose body arrives in blocks, *)
(* announced by Content-Length or chunked, on its way to an application    *)
(* that may answer before it has read everything.                          *)
(***************************************************************************)
EXTENDS Naturals, Sequences

CONSTANTS Limite,      \* limit of the route, in units of a block size
          Blocos,      \* sizes of a block; zero is the empty last one
          Aplicacoes,  \* "asgi" lets an exception through, "fastapi" answers
          MaxTotal,    \* bound: units a client sends
          Nenhum

ASSUME CorpoAssumption ==
    /\ Limite \in Nat \ {0} /\ MaxTotal \in Nat /\ Nenhum \notin Nat
    /\ Blocos \subseteq Nat /\ Aplicacoes \subseteq {"asgi", "fastapi"}

VARIABLES app,        \* kind of application behind the middleware
          anunciado,  \* Content-Length, or Nenhum
          recebido,   \* consumed_bytes
          entregue,   \* units the application was given
          inteiro,    \* the application has the last block
          respostas,  \* status of every http.response.start sent
          iniciada,   \* response_started
          pc

vars == <<app, anunciado, recebido, entregue, inteiro, respostas, iniciada, pc>>

Init ==
    /\ app \in Aplicacoes
    /\ anunciado \in 0..MaxTotal \cup {Nenhum}
    /\ recebido = 0 /\ entregue = 0 /\ inteiro = FALSE
    /\ respostas = <<>> /\ iniciada = FALSE
    /\ pc = "chegou"

(* Mutant: one unit too many passes.                                       *)
ExcedePorDois(n) == n > Limite + 1
Excede(n) == n > Limite

PayloadGrande == 413

(* Content-Length is looked at before anything is read.                    *)
Recusar ==
    /\ pc = "chegou" /\ anunciado # Nenhum /\ Excede(anunciado)
    /\ respostas' = Append(respostas, PayloadGrande) /\ pc' = "fim"
    /\ UNCHANGED <<app, anunciado, recebido, entregue, inteiro, iniciada>>

Chamar ==
    /\ pc = "chegou" /\ (anunciado # Nenhum => ~Excede(anunciado))
    /\ pc' = "app"
    /\ UNCHANGED <<app, anunciado, recebido, entregue, inteiro, respostas, iniciada>>

(* The server delivers what was announced, no more.                        *)
Anunciados(n, ultimo) ==
    anunciado # Nenhum => n <= anunciado /\ (ultimo <=> n = anunciado)

(* receive_wrapper: the block that crosses the limit is not delivered.  A  *)
(* client that disconnects gets no answer and is left out.                 *)
LerBloco(b, ultimo) ==
    LET n == recebido + b IN
    /\ pc = "app" /\ ~inteiro /\ n <= MaxTotal /\ Anunciados(n, ultimo)
    /\ recebido' = n
    /\ IF Excede(n) THEN pc' = "excedido" /\ UNCHANGED <<entregue, inteiro>>
       ELSE entregue' = n /\ inteiro' = ultimo /\ UNCHANGED pc
    /\ UNCHANGED <<app, anunciado, respostas, iniciada>>

(* send_wrapper: an ASGI application may answer before it read it all; a   *)
(* FastAPI route has read its body first.                                  *)
IniciarResposta ==
    /\ pc = "app" /\ ~iniciada /\ (app = "fastapi" => inteiro)
    /\ respostas' = Append(respostas, 200) /\ iniciada' = TRUE
    /\ UNCHANGED <<app, anunciado, recebido, entregue, inteiro, pc>>

Terminar ==
    /\ pc = "app" /\ iniciada
    /\ pc' = "fim"
    /\ UNCHANGED <<app, anunciado, recebido, entregue, inteiro, respostas, iniciada>>

(* A FastAPI route turns any exception while it reads the body into a 400. *)
Engolir ==
    /\ pc = "excedido" /\ app = "fastapi"
    /\ respostas' = Append(respostas, 400) /\ iniciada' = TRUE /\ pc' = "fim"
    /\ UNCHANGED <<app, anunciado, recebido, entregue, inteiro>>

(* Mutant: the 413 is sent over a response that has begun.                 *)
SempreResponde == iniciada \in BOOLEAN
PodeResponder == ~iniciada

(* Otherwise BodySizeLimitExceeded comes back to the middleware.           *)
Interromper ==
    /\ pc = "excedido" /\ app = "asgi"
    /\ respostas' = IF PodeResponder THEN Append(respostas, PayloadGrande) ELSE respostas
    /\ pc' = "fim"
    /\ UNCHANGED <<app, anunciado, recebido, entregue, inteiro, iniciada>>

Next ==
    \/ Recusar \/ Chamar
    \/ \E b \in Blocos, ultimo \in BOOLEAN : LerBloco(b, ultimo)
    \/ IniciarResposta \/ Terminar \/ Engolir \/ Interromper

Spec == Init /\ [][Next]_vars

-----------------------------------------------------------------------------
(* Every variable has its type.                                            *)
TypeOK ==
    /\ app \in Aplicacoes /\ anunciado \in Nat \cup {Nenhum}
    /\ recebido \in 0..MaxTotal /\ entregue \in Nat
    /\ inteiro \in BOOLEAN /\ iniciada \in BOOLEAN
    /\ respostas \in Seq({200, 400, 413})
    /\ pc \in {"chegou", "app", "excedido", "fim"}

(* The application never holds more than the limit, however the body is    *)
(* cut into blocks and whatever length it announced.                       *)
EntregaLimitada == entregue <= Limite

(* A request is answered at most once, and exactly once when it is over:   *)
(* the answer of the middleware never follows one the application began.   *)
UmaResposta ==
    Len(respostas) <= 1 /\ (pc = "fim" => Len(respostas) = 1)

(* A body above the limit is answered 413, announced or noticed on the     *)
(* way, unless the application had answered before the excess arrived, or  *)
(* a FastAPI route was reading it.                                         *)
AcimaDoLimite413 ==
    pc = "fim" =>
        /\ anunciado \in Limite + 1 .. MaxTotal => respostas = <<413>>
        /\ app = "asgi" /\ recebido > Limite =>
              respostas = IF iniciada THEN <<200>> ELSE <<413>>

(* The one answer, and the right one above the limit.                      *)
RespostaCerta == TypeOK /\ UmaResposta /\ AcimaDoLimite413
=============================================================================
