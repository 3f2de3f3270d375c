SPECIFICATION Spec
CONSTANTS
  Periodos = {m1}
  Codigos = {c1}
  Pedidos = {p1, p2, p3, p4}
  MaxQuedas = 1
  Nenhum = Nenhum
INVARIANT FechamentoIntegro
PROPERTY FechadoNaoReabre
SYMMETRY Simetria
CHECK_DEADLOCK FALSE
