------------------------------ MODULE Medicoes ------------------------------
(***************************************************************************)
(* Measurements of one obra: requests register items in a monthly period   *)
(* and close the period.  Each reads the period without lock and commits   *)
(* later; only the unique index of (obra, periodo_ref) makes one wait for  *)
(* another.                                                                *)
(***************************************************************************)
EXTENDS Naturals, FiniteSets

CONSTANTS Periodos, Codigos,
          Pedidos,        \* one request each
          MaxQuedas,      \* bound: requests that die half-way
          Nenhum

ASSUME MedicoesAssumption ==
    /\ MaxQuedas \in Nat
    /\ Nenhum \notin Pedidos \cup Periodos

VARIABLES orcamento,   \* codes with a budget item
          periodos,    \* committed status of each period
          reserva,     \* request with the uncommitted row of a period
          fechamento,  \* metadata.fechamento: the request that closed it
          medicoes,    \* committed items of each request
          pc, alvo, lote, visto, conferidas,  \* each request and what it read
          juntos,      \* history: the requests in progress along with each
          quedas

vars == <<orcamento, periodos, reserva, fechamento, medicoes, pc, alvo, lote,
          visto, conferidas, juntos, quedas>>

Situacao == {"ausente", "aberto", "fechado"}
Item == [codigo : Codigos, negativa : BOOLEAN]

Init ==
    /\ orcamento = {}
    /\ periodos = [m \in Periodos |-> "ausente"]
    /\ reserva = [m \in Periodos |-> Nenhum]
    /\ fechamento = [m \in Periodos |-> Nenhum]
    /\ medicoes = [p \in Pedidos |-> {}]
    /\ pc = [p \in Pedidos |-> "livre"]
    /\ alvo = [p \in Pedidos |-> Nenhum]
    /\ lote = [p \in Pedidos |-> {}]
    /\ visto = [p \in Pedidos |-> "ausente"]
    /\ conferidas = [p \in Pedidos |-> {}]
    /\ juntos = [p \in Pedidos |-> {}]
    /\ quedas = 0

Concluidos == {"livre", "registrada", "fechada", "recusada", "morta"}
Ativos == {p \in Pedidos : pc[p] \notin Concluidos}
Comecar(p) ==
    /\ pc[p] = "livre"
    /\ juntos' = [q \in Pedidos |->
                    IF q = p THEN Ativos
                    ELSE IF q \in Ativos THEN juntos[q] \cup {p} ELSE juntos[q]]

(* The measurements of a period: what committed requests registered in it. *)
Lancadas(m) == {p \in Pedidos : alvo[p] = m /\ medicoes[p] # {}}

ImportarItem(c) ==
    /\ c \notin orcamento
    /\ orcamento' = orcamento \cup {c}
    /\ UNCHANGED <<periodos, reserva, fechamento, medicoes, pc, alvo, lote,
                   visto, conferidas, quedas, juntos>>

-----------------------------------------------------------------------------
(* registrar_medicao *)

(* Mutant: a closed period takes measurements.                             *)
NuncaFechado(m) == m \notin Periodos
Fechado(m) == periodos[m] = "fechado"

(* The period is read; a closed one is refused.                            *)
LerPeriodo(p, m, itens) ==
    /\ Comecar(p)
    /\ alvo' = [alvo EXCEPT ![p] = m]
    /\ lote' = [lote EXCEPT ![p] = itens]
    /\ visto' = [visto EXCEPT ![p] = periodos[m]]
    /\ pc' = [pc EXCEPT ![p] = IF Fechado(m) THEN "recusada" ELSE "lida"]
    /\ UNCHANGED <<orcamento, periodos, reserva, fechamento, medicoes,
                   conferidas, quedas>>

Aceitaveis(itens) ==
    itens # {} /\ \A i \in itens : ~i.negativa /\ i.codigo \in orcamento

ValidarItens(p) ==
    /\ pc[p] = "lida"
    /\ pc' = [pc EXCEPT ![p] =
               IF ~Aceitaveis(lote[p]) THEN "recusada"
               ELSE IF visto[p] = "ausente" THEN "criando" ELSE "inserindo"]
    /\ UNCHANGED <<orcamento, periodos, reserva, fechamento, medicoes, alvo,
                   lote, visto, conferidas, quedas, juntos>>

(* Mutant: nothing is unique; the new row is the one found from then on.   *)
SemIndice(m) == m \in Periodos
PeriodoInedito(m) == periodos[m] = "ausente"

(* The flush of a new period waits for an uncommitted row of the same      *)
(* period, and fails if one is committed.                                  *)
CriarPeriodo(p) ==
    LET m == alvo[p] IN
    /\ pc[p] = "criando" /\ reserva[m] = Nenhum
    /\ IF PeriodoInedito(m)
       THEN /\ reserva' = [reserva EXCEPT ![m] = p]
            /\ pc' = [pc EXCEPT ![p] = "inserindo"]
       ELSE /\ pc' = [pc EXCEPT ![p] = "recusada"]
            /\ UNCHANGED reserva
    /\ UNCHANGED <<orcamento, periodos, fechamento, medicoes, alvo, lote,
                   visto, conferidas, quedas, juntos>>

Soltar(p) == reserva' = [m \in Periodos |-> IF reserva[m] = p THEN Nenhum ELSE reserva[m]]

(* The items and the period they opened are committed together.            *)
PeriodosCom(p) ==
    IF reserva[alvo[p]] = p THEN [periodos EXCEPT ![alvo[p]] = "aberto"] ELSE periodos

Registrar(p) ==
    /\ pc[p] = "inserindo"
    /\ medicoes' = [medicoes EXCEPT ![p] = lote[p]]
    /\ periodos' = PeriodosCom(p)
    /\ Soltar(p)
    /\ pc' = [pc EXCEPT ![p] = "registrada"]
    /\ UNCHANGED <<orcamento, fechamento, alvo, lote, visto, conferidas, quedas, juntos>>

-----------------------------------------------------------------------------
(* fechar_periodo *)

Fechavel(m) == periodos[m] = "aberto"

LerFechamento(p, m) ==
    /\ Comecar(p)
    /\ alvo' = [alvo EXCEPT ![p] = m]
    /\ visto' = [visto EXCEPT ![p] = periodos[m]]
    /\ pc' = [pc EXCEPT ![p] = IF Fechavel(m) THEN "fechando" ELSE "recusada"]
    /\ UNCHANGED <<orcamento, periodos, reserva, fechamento, medicoes, lote,
                   conferidas, quedas>>

(* Bloqueios: no measurement, one without budget item, one negative.       *)
SemBloqueios(ms) ==
    ms # {} /\ \A q \in ms : \A i \in medicoes[q] : i.codigo \in orcamento /\ ~i.negativa

Conferir(p) ==
    /\ pc[p] = "fechando"
    /\ conferidas' = [conferidas EXCEPT ![p] = Lancadas(alvo[p])]
    /\ pc' = [pc EXCEPT ![p] =
               IF SemBloqueios(Lancadas(alvo[p])) THEN "conferida" ELSE "recusada"]
    /\ UNCHANGED <<orcamento, periodos, reserva, fechamento, medicoes, alvo,
                   lote, visto, quedas, juntos>>

Fechar(p) ==
    /\ pc[p] = "conferida"
    /\ periodos' = [periodos EXCEPT ![alvo[p]] = "fechado"]
    /\ fechamento' = [fechamento EXCEPT ![alvo[p]] = p]
    /\ pc' = [pc EXCEPT ![p] = "fechada"]
    /\ UNCHANGED <<orcamento, reserva, medicoes, alvo, lote, visto, conferidas,
                   quedas, juntos>>

Cair(p) ==
    /\ p \in Ativos /\ quedas < MaxQuedas
    /\ quedas' = quedas + 1
    /\ pc' = [pc EXCEPT ![p] = "morta"]
    /\ Soltar(p)
    /\ UNCHANGED <<orcamento, periodos, fechamento, medicoes, alvo, lote, visto,
                   conferidas, juntos>>

-----------------------------------------------------------------------------
Chamar(p) == \E m \in Periodos :
    LerFechamento(p, m) \/ \E itens \in SUBSET Item : LerPeriodo(p, m, itens)

Prosseguir(p) ==
    ValidarItens(p) \/ CriarPeriodo(p) \/ Registrar(p) \/ Conferir(p) \/ Fechar(p)

Next ==
    \/ \E c \in Codigos : ImportarItem(c)
    \/ \E p \in Pedidos : Chamar(p) \/ Prosseguir(p) \/ Cair(p)

Spec == Init /\ [][Next]_vars

-----------------------------------------------------------------------------
(* Every variable has its type.                                            *)
TypeOK ==
    /\ orcamento \subseteq Codigos
    /\ periodos \in [Periodos -> Situacao]
    /\ reserva \in [Periodos -> Pedidos \cup {Nenhum}]
    /\ fechamento \in [Periodos -> Pedidos \cup {Nenhum}]
    /\ medicoes \in [Pedidos -> SUBSET Item]
    /\ pc \in [Pedidos -> Concluidos \cup {"lida", "criando", "inserindo",
                                           "fechando", "conferida"}]
    /\ alvo \in [Pedidos -> Periodos \cup {Nenhum}]
    /\ lote \in [Pedidos -> SUBSET Item]
    /\ visto \in [Pedidos -> Situacao]
    /\ conferidas \in [Pedidos -> SUBSET Pedidos]
    /\ juntos \in [Pedidos -> SUBSET Pedidos]
    /\ quedas \in Nat

(* A closed period has measurements, each of a budgeted item and not       *)
(* negative, though the budget, the items and the period are read in       *)
(* separate statements and registrations go on meanwhile.                  *)
FechadoRegular ==
    \A m \in Periodos : periodos[m] = "fechado" =>
        /\ Lancadas(m) # {}
        /\ \A p \in Lancadas(m) : \A i \in medicoes[p] :
               i.codigo \in orcamento /\ ~i.negativa

(* A closed period stays closed: a registration that found no period and   *)
(* creates it late is refused by the unique index.                         *)
FechadoNaoReabre ==
    [][\A m \in Periodos : periodos[m] = "fechado" => periodos'[m] = "fechado"]_vars

(* The uncommitted row of a period belongs to a request that will commit   *)
(* it or die: who waits for it on the unique index is let through.         *)
ReservaDeQuemCria ==
    \A m \in Periodos : reserva[m] # Nenhum =>
        pc[reserva[m]] = "inserindo" /\ alvo[reserva[m]] = m

(* A measurement never exists without its period.                          *)
LancadaTemPeriodo ==
    \A p \in Pedidos : medicoes[p] # {} => periodos[alvo[p]] # "ausente"

(* The measurements of a closed period are those its closing looked at and *)
(* those of registrations that were in progress along with it: one that    *)
(* begins after the closing is refused, one that ended before is counted.  *)
FechamentoConfere ==
    \A m \in Periodos : periodos[m] = "fechado" =>
        LET f == fechamento[m] IN
        /\ conferidas[f] \subseteq Lancadas(m)
        /\ Lancadas(m) \ conferidas[f] \subseteq juntos[f]

(* A period is closed twice only by closings in progress together.         *)
FechamentoUnico ==
    \A p, q \in Pedidos :
        pc[p] = "fechada" /\ pc[q] = "fechada" /\ alvo[p] = alvo[q]
            => p = q \/ q \in juntos[p]

(* The whole of it: whatever the interleaving, what is closed is regular,  *)
(* counted, closed once, and nobody is left waiting for a period.          *)
FechamentoIntegro ==
    /\ TypeOK /\ ReservaDeQuemCria /\ LancadaTemPeriodo
    /\ FechadoRegular /\ FechamentoConfere /\ FechamentoUnico
=============================================================================
