SPECIFICATION Spec
CONSTANTS
  Obras = {o1, o2}
  Threads = {t1}
  Raiz = Raiz
  Configuracoes = {c1, c2, c3}
  Entregas = {e1}
  MaxQuedas = 1
  Nenhum = Nenhum
INVARIANTS EntregaResolve RotaTemMotivo TopicoIntegro
SYMMETRY Simetria
CHECK_DEADLOCK FALSE
