SPECIFICATION Spec
CONSTANTS
  Rascunhos = {r1}
  Triados = {t1}
  Tipos = {"rdo", "foto"}
  Dias = {d1}
  Hoje = d1
  s1 = s1
  s2 = s2
  Slugs = {s1}
  Renomes = {}
  Pedidos = {p1, p2}
  UmProcesso = FALSE
  MaxRev = 0
  MaxVersoes = 1
  MaxFotos = 1
  MaxQuedas = 1
  Nenhum = Nenhum
INVARIANTS FinalAprovado TravasEmOrdem FotosRevistasPublicadas
SYMMETRY Simetria
CHECK_DEADLOCK FALSE
