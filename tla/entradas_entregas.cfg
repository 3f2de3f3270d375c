SPECIFICATION Spec
CONSTANTS
  o1 = o1
  o2 = o2
  e1 = e1
  e2 = e2
  Nenhum = Nenhum
  Obras = {o1, o2}
  Eventos = {e1, e2}
  Webhooks = {w1, w2}
  Tarefas = {}
  Resolvedores = {r1}
  ObraPedida <- Pedida1
  MaxTentativas = 2
INVARIANTS
  TypeOK
  UmaEntradaPorEvento
  RespostaVerdadeira
  PendenteIntocada
  FalhaMarcaChaveComObra
PROPERTY
  ImplementaClassificacao
CHECK_DEADLOCK FALSE
