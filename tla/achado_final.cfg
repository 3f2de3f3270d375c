SPECIFICATION Spec
CONSTANTS
  Rascunhos = {r1}
  Triados = {}
  Tipos = {"rdo"}
  Dias = {d1}
  Hoje = d1
  s1 = s1
  s2 = s2
  Slugs = {s1}
  Renomes = {}
  Pedidos = {p1}
  UmProcesso = TRUE
  MaxRev = 0
  MaxVersoes = 2
  MaxFotos = 0
  MaxQuedas = 0
  Nenhum = Nenhum
PROPERTIES FinalImutavel
CHECK_DEADLOCK FALSE
