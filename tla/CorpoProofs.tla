----------------------------- MODULE CorpoProofs -----------------------------
(***************************************************************************)
(* Proofs about Corpo, for any limit, any sizes of block and any length.   *)
(***************************************************************************)
EXTENDS Corpo, TLAPS

(* Every block is a number of units, and the one that crosses the limit is *)
(* counted but not delivered: the bound holds at every step.               *)
Contagem == recebido \in Nat /\ entregue \in Nat /\ EntregaLimitada

(* The application never holds more than the limit, for every limit and    *)
(* every way a body is cut into blocks (receive_wrapper).                  *)
THEOREM EntregaSempreLimitada == Spec => []EntregaLimitada
<1>1. Init => Contagem
  BY CorpoAssumption DEF Init, Contagem, EntregaLimitada
<1>2. Contagem /\ [Next]_vars => Contagem'
  <2> SUFFICES ASSUME Contagem, [Next]_vars PROVE Contagem'
    OBVIOUS
  <2>1. ASSUME NEW b \in Blocos, NEW ultimo \in BOOLEAN, LerBloco(b, ultimo)
        PROVE  Contagem'
    BY <2>1, CorpoAssumption DEF Contagem, EntregaLimitada, LerBloco, Excede
  <2>2. CASE \/ Recusar \/ Chamar \/ IniciarResposta \/ Terminar
             \/ Engolir \/ Interromper \/ UNCHANGED vars
    BY <2>2 DEF Contagem, EntregaLimitada, Recusar, Chamar, IniciarResposta,
       Terminar, Engolir, Interromper, vars
  <2>. QED
    BY <2>1, <2>2 DEF Next
<1>. QED
  BY <1>1, <1>2, PTL DEF Spec, Contagem

-----------------------------------------------------------------------------
(* Until the request is over, response_started tells whether the one       *)
(* answer, of the application, was sent; an application that was called    *)
(* has at most the limit announced, and exceeds it only in "excedido"; a   *)
(* FastAPI route answers only after the last block, so the one whose body  *)
(* exceeds the limit has not answered.                                     *)
Respondidas ==
    /\ pc # "fim" => respostas = IF iniciada THEN <<200>> ELSE <<>>
    /\ pc = "chegou" => ~iniciada
    /\ app = "fastapi" /\ pc = "app" /\ iniciada => inteiro
    /\ app = "fastapi" /\ pc = "excedido" => ~iniciada
Limitadas ==
    /\ pc \in {"chegou", "app"} => recebido <= Limite
    /\ pc \in {"app", "excedido"} /\ anunciado # Nenhum => anunciado <= Limite

Inv == RespostaCerta /\ Respondidas /\ Limitadas

(* The sequences of at most one answer.                                    *)
LEMMA Unitarias ==
    /\ <<>> \in Seq({200, 400, 413}) /\ Len(<<>>) = 0
    /\ \A n \in {200, 400, 413} :
          /\ <<n>> \in Seq({200, 400, 413}) /\ Len(<<n>>) = 1
          /\ Append(<<>>, n) = <<n>>
<1>1. <<>> \in Seq({200, 400, 413}) /\ Len(<<>>) = 0
  OBVIOUS
<1>2. ASSUME NEW n \in {200, 400, 413}
      PROVE  /\ <<n>> \in Seq({200, 400, 413}) /\ Len(<<n>>) = 1
             /\ Append(<<>>, n) = <<n>>
  OBVIOUS
<1>. QED
  BY <1>1, <1>2

(* A request is answered once; above the limit the answer is 413, unless   *)
(* the application had answered or a FastAPI route was reading, for every  *)
(* limit and every way a body is cut (BodySizeLimitMiddleware).            *)
THEOREM RespostaSempreCerta == Spec => []RespostaCerta
<1>1. Init => Inv
  <2> SUFFICES ASSUME Init PROVE Inv
    OBVIOUS
  <2>1. TypeOK
    <3>1. respostas \in Seq({200, 400, 413})
      BY DEF Init
    <3>2. anunciado \in Nat \cup {Nenhum} /\ recebido \in 0..MaxTotal
      BY CorpoAssumption DEF Init
    <3>. QED
      BY <3>1, <3>2 DEF Init, TypeOK
  <2>2. UmaResposta /\ AcimaDoLimite413 /\ Respondidas /\ Limitadas
    BY CorpoAssumption, Unitarias
       DEF Init, UmaResposta, AcimaDoLimite413, Respondidas, Limitadas
  <2>. QED
    BY <2>1, <2>2 DEF Inv, RespostaCerta
<1>2. Inv /\ [Next]_vars => Inv'
  <2> SUFFICES ASSUME Inv, [Next]_vars PROVE Inv'
    OBVIOUS
  <2> USE CorpoAssumption
      DEF Inv, RespostaCerta, TypeOK, UmaResposta, AcimaDoLimite413,
          Respondidas, Limitadas
  <2>1. CASE Recusar
    BY <2>1 DEF Recusar, PayloadGrande
  <2>2. CASE Chamar
    BY <2>2 DEF Chamar, Excede
  <2>3. ASSUME NEW b \in Blocos, NEW ultimo \in BOOLEAN, LerBloco(b, ultimo)
        PROVE  Inv'
    BY <2>3 DEF LerBloco, Excede
  <2>4. CASE IniciarResposta
    BY <2>4 DEF IniciarResposta
  <2>5. CASE Terminar
    BY <2>5 DEF Terminar
  <2>6. CASE Engolir
    BY <2>6 DEF Engolir
  <2>7. CASE Interromper
    <3>1. CASE iniciada
      BY <2>7, <3>1 DEF Interromper, PodeResponder
    <3>2. CASE ~iniciada
      <4>1. respostas' = <<413>>
        BY <2>7, <3>2 DEF Interromper, PodeResponder, PayloadGrande
      <4>2. UNCHANGED <<app, anunciado, recebido, entregue, inteiro, iniciada>>
        BY <2>7 DEF Interromper
      <4>3. pc = "excedido" /\ pc' = "fim"
        BY <2>7 DEF Interromper
      <4>4. TypeOK' /\ UmaResposta'
        BY <4>1, <4>2, <4>3
      <4>. QED
        BY <3>2, <4>1, <4>2, <4>3, <4>4
    <3>. QED
      BY <3>1, <3>2
  <2>8. CASE UNCHANGED vars
    BY <2>8 DEF vars
  <2>. QED
    BY <2>1, <2>2, <2>3, <2>4, <2>5, <2>6, <2>7, <2>8 DEF Next
<1>3. Inv => RespostaCerta
  BY DEF Inv
<1>. QED
  BY <1>1, <1>2, <1>3, PTL DEF Spec
=============================================================================
