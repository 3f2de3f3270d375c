------------------------------ MODULE MCDiario ------------------------------
(* An instance of Diario: a photo with a voice message, a document with a  *)
(* photo, on days of their own.                                            *)
EXTENDS Diario, TLC

CONSTANTS e1, e2, d1, d2

MidiasDuas == e1 :> <<"foto", "audio">> @@ e2 :> <<"documento", "foto">>
DoisDias == e1 :> d1 @@ e2 :> d2
Distintos == e1 :> "x" @@ e2 :> "y"
=============================================================================
