SPECIFICATION Spec
CONSTANTS
  e1 = e1
  e2 = e2
  d1 = d1
  d2 = d2
  Entradas = {e1, e2}
  Midias <- MidiasDuas
  Dia <- DoisDias
  Conteudo <- Distintos
  Dias = {d1, d2}
  Agregadores = {a1}
  MaxTentativas = 2
  MaxQuedas = 1
  Nenhum = Nenhum
INVARIANTS MidiaArquivada AgregadoCoerente
CHECK_DEADLOCK FALSE
