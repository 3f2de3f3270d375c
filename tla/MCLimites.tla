------------------------------ MODULE MCLimites ------------------------------
(* An instance of Limites: an event sent by its user in a chat, or by one  *)
(* who is not allowed, and a request without event over one counter.       *)
EXTENDS Limites, TLC

CONSTANTS u1, g1, e1

Limites12 == u1 :> 2 @@ g1 :> 1
Entrega(cs, e, ok) == [contadores |-> cs, evento |-> e, permitida |-> ok]
RotasTodas == {Entrega(<<u1, g1>>, e1, TRUE), Entrega(<<g1>>, e1, FALSE),
               Entrega(<<g1>>, Nenhum, TRUE)}
=============================================================================
