SPECIFICATION Spec
CONSTANTS
  Rascunhos = {r1, r2}
  Triados = {}
  Tipos = {"rdo"}
  Dias = {d1}
  Hoje = d1
  s1 = s1
  s2 = s2
  Slugs = {s1, s2}
  Renomes <- UmRenome
  Pedidos = {p1, p2}
  UmProcesso = TRUE
  MaxRev = 1
  MaxVersoes = 2
  MaxFotos = 0
  MaxQuedas = 0
  Nenhum = Nenhum
INVARIANTS HashConfere PublicaOAprovado RevisaoPropria
PROPERTIES ImplementaPublicacao FinalMudaSoReaberto
SYMMETRY Simetria
CHECK_DEADLOCK FALSE
