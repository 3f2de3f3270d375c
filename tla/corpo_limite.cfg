SPECIFICATION Spec
CONSTANTS
  Limite = 4
  Blocos <- Tamanhos
  Aplicacoes = {"asgi", "fastapi"}
  MaxTotal = 7
  Nenhum = Nenhum
INVARIANTS EntregaLimitada RespostaCerta
CHECK_DEADLOCK FALSE
