SPECIFICATION SpecJusta
CONSTANTS
  o1 = o1
  o2 = o2
  e1 = e1
  e2 = e2
  Nenhum = Nenhum
  Obras = {o1}
  Eventos = {e1}
  Webhooks = {w1, w2}
  Tarefas = {t1}
  Resolvedores = {r1}
  ObraPedida <- Pedida1
  MaxTentativas = 2
INVARIANT
  TarefaAcompanha
PROPERTIES
  AceitaTermina
  EntregaRespondida
CHECK_DEADLOCK FALSE
