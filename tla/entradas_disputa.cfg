SPECIFICATION Spec
CONSTANTS
  o1 = o1
  o2 = o2
  e1 = e1
  e2 = e2
  Nenhum = Nenhum
  Obras = {o1, o2}
  Eventos = {e1}
  Webhooks = {w1}
  Tarefas = {}
  Resolvedores = {r1, r2}
  ObraPedida <- Pedida1
  MaxTentativas = 2
INVARIANTS
  NaoEsquecida
  CompletaTemDocumento
  SemDisputaUmDocumento
  RetentativaNaoDuplica
  EnvelopeAntesDoDocumento
PROPERTY
  CompletaSoReabrePorRetentativa
CHECK_DEADLOCK FALSE
