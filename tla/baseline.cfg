SPECIFICATION Spec
CONSTANTS
  c1 = c1
  c2 = c2
  Lotes <- Misturados
  Codigos = {c1, c2}
  Valores = {1, 2}
  Importadores = {i1, i2}
  Aprovadores = {a1, a2}
  Editores = {e1}
  MaxQuedas = 1
  Nenhum = Nenhum
INVARIANTS TravasEmOrdem AtividadeUnica LinhaCoerente BaselineAprovado EdicaoPrevalece
SYMMETRY Simetria
CHECK_DEADLOCK FALSE
